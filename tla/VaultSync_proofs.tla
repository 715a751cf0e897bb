--------------------------- MODULE VaultSync_proofs ---------------------------
(***************************************************************************)
(* Theorems about VaultSync, for every set of ids, accounts and handlers   *)
(* and whatever the environment is allowed to do.                          *)
(***************************************************************************)
EXTENDS VaultSync, TLAPS

USE DEF Id, Signer, Envelope, Absent, Vault, EmptyVault

LEMMA IdleTyped == IdleTask \in Task /\ IdleRun \in SyncRun
  BY DEF IdleTask, Task, TaskStage, TaskOp, Op, IdleRun, SyncRun, RunStage, Entry

LEMMA InitTyped == Init => TypeOK
<1> SUFFICES ASSUME Init PROVE TypeOK
  OBVIOUS
<1>1. /\ keychain \in Signer
      /\ vault \in Vault
      /\ queue \subseteq Entry
      /\ cursor \in Nat /\ serverSeq \in Nat /\ clock \in Nat
      /\ minted \subseteq Id
      /\ status \in {"idle", "syncing", "ok", "error"}
      /\ allowed \in Surroundings
  BY DEF Init
<1>2. processing \in BOOLEAN
  BY DEF Init
<1>3. task \in [Handler -> Task] /\ run \in [Run -> SyncRun]
  BY IdleTyped DEF Init
<1>4. server \in [Id -> Record]
  <2>1. NoRecord \in Record
    BY DEF NoRecord, Record
  <2> QED BY <2>1 DEF Init
<1> QED BY <1>1, <1>2, <1>3, <1>4 DEF TypeOK

\* Every overwrite of a portion of the vault by a vault is a vault.
LEMMA OverwriteTyped ==
  ASSUME vault \in Vault, NEW part, NEW with \in Vault
  PROVE  Overwrite(part, with) \in Vault
  BY DEF Overwrite

LEMMA EnqueuedTyped ==
  ASSUME NEW q \in SUBSET Entry, NEW op \in Op, NEW i \in Id
  PROVE  Enqueued(q, op, i) \in SUBSET Entry
  BY DEF Enqueued, Entry, Op

LEMMA BeginTyped ==
  ASSUME TypeOK, NEW h \in Handler, NEW op \in TaskOp, NEW i \in Id,
         NEW e \in Envelope, Begin(h, op, i, e)
  PROVE  task' \in [Handler -> Task]
<1>1. [IdleTask EXCEPT !.pc = "loadVault", !.op = op, !.id = i, !.env = e] \in Task
  BY DEF IdleTask, Task, TaskStage, Entry
<1> QED BY <1>1 DEF Begin, TypeOK

\* Updates of one run's record, one field or more at a time.
LEMMA RunTyped ==
  ASSUME run \in [Run -> SyncRun], NEW r \in Run, NEW new \in SyncRun
  PROVE  [run EXCEPT ![r] = new] \in [Run -> SyncRun]
  OBVIOUS

LEMMA AfterDrainTyped ==
  ASSUME NEW r \in Run
  PROVE  AfterDrain(r) \in SyncRun /\ Drain \in SyncRun /\ PlainRun \in SyncRun
  BY IdleTyped DEF AfterDrain, Drain, PlainRun, SyncRun, RunStage

LEMMA ReturnsTyped ==
  ASSUME TypeOK, NEW r \in Run, NEW ok \in BOOLEAN, Returns(r, ok)
  PROVE  /\ processing' \in BOOLEAN
         /\ status' \in {"idle", "syncing", "ok", "error"}
         /\ run' \in [Run -> SyncRun]
<1>1. CASE run[r].drain /\ ok
  <2>1. processing' = processing /\ status' = status
        /\ run' = [run EXCEPT ![r].pc = "clearQueue"]
    BY <1>1 DEF Returns
  <2>2. [run[r] EXCEPT !.pc = "clearQueue"] \in SyncRun
    <3>1. run[r] \in SyncRun /\ "clearQueue" \in RunStage
      BY DEF TypeOK, RunStage
    <3> QED BY <3>1 DEF SyncRun
  <2>3. run' \in [Run -> SyncRun]
    BY <2>1, <2>2 DEF TypeOK
  <2> QED BY <2>1, <2>3 DEF TypeOK
<1>2. CASE run[r].drain /\ ~ok
  BY <1>2, AfterDrainTyped DEF Returns, TypeOK
<1>3. CASE ~run[r].drain
  <2>1. processing' = processing /\ run' = [run EXCEPT ![r] = IdleRun]
    BY <1>3 DEF Returns
  <2>2. status' = IF ok THEN "ok" ELSE "error"
    BY <1>3 DEF Returns
  <2>3. status' \in {"ok", "error"}
    BY <2>2, Zenon
  <2> QED BY <2>1, <2>3, IdleTyped DEF TypeOK
<1> QED BY <1>1, <1>2, <1>3

LEMMA OursTyped ==
  ASSUME TypeOK, NEW a \in Signer
  PROVE  Ours(a) \in Vault
  BY DEF Ours, TypeOK

LEMMA GatheredTyped ==
  ASSUME TypeOK, NEW s \in SyncRun, NEW part
  PROVE  Gathered(s, part) \in Vault
<1>1. Ours(s.key) \in Vault /\ s.snap \in Vault
  BY OursTyped DEF SyncRun
<1> QED BY <1>1 DEF Gathered, Vault

LEMMA MergedTyped ==
  ASSUME TypeOK, NEW s \in SyncRun
  PROVE  Merged(s) \in Vault
<1> SUFFICES ASSUME NEW i \in Id
             PROVE  (IF server[i].seq > s.from
                     THEN MergeOne(i, s.snap[i], server[i], s.key)
                     ELSE s.snap[i]) \in Envelope
  BY DEF Merged
<1>1. s.snap[i] \in Envelope /\ server[i] \in Record
  BY DEF TypeOK, SyncRun
<1>2. MergeOne(i, s.snap[i], server[i], s.key) \in Envelope
  BY <1>1 DEF MergeOne, Record
<1> QED BY <1>1, <1>2

LEMMA ReceivedTyped ==
  ASSUME TypeOK, NEW snap \in Vault, NEW tombs \in SUBSET Id, NEW t \in Nat,
         NEW seq \in Nat
  PROVE  Received(snap, tombs, t, seq) \in [Id -> Record]
<1> SUFFICES ASSUME NEW i \in Id
             PROVE  LET rec == Accept(server[i], snap[i], seq)
                    IN  (IF i \in tombs THEN Bury(rec, t, seq) ELSE rec) \in Record
  BY DEF Received
<1>1. Accept(server[i], snap[i], seq) \in Record
  BY DEF Accept, Record, TypeOK
<1>2. \A rec \in Record : Bury(rec, t, seq) \in Record
  BY DEF Bury, Record
<1> QED BY <1>1, <1>2

-----------------------------------------------------------------------------
(* Type correctness, one step per action. *)

LEMMA TaskBeginsTyped ==
  ASSUME TypeOK, NEW h \in Handler, TaskBegins(h)
  PROVE  TypeOK'
<1> USE DEF disk, memory, external
<1>1. ASSUME NEW i \in Id, BeginCreate(h, i)
      PROVE  TypeOK'
  <2>1. Sealed(keychain) \in Envelope
    BY DEF Sealed, TypeOK
  <2>2. task' \in [Handler -> Task]
    BY <1>1, <2>1, BeginTyped DEF BeginCreate, TaskOp, Op
  <2> QED BY <1>1, <2>2 DEF BeginCreate, TypeOK
<1>2. ASSUME NEW i \in Id, BeginUpdate(h, i)
      PROVE  TypeOK'
  <2>1. Sealed(keychain) \in Envelope
    BY DEF Sealed, TypeOK
  <2>2. task' \in [Handler -> Task]
    BY <1>2, <2>1, BeginTyped DEF BeginUpdate, TaskOp, Op
  <2> QED BY <1>2, <2>2 DEF BeginUpdate, TypeOK
<1>3. ASSUME NEW i \in Id, BeginTouch(h, i)
      PROVE  TypeOK'
  <2>1. vault[i] \in Envelope
    BY DEF TypeOK
  <2>2. task' \in [Handler -> Task]
    BY <1>3, <2>1, BeginTyped DEF BeginTouch, TaskOp, Op
  <2> QED BY <1>3, <2>2 DEF BeginTouch, TypeOK
<1>4. ASSUME NEW i \in Id, BeginDelete(h, i)
      PROVE  TypeOK'
  <2>1. task' \in [Handler -> Task]
    BY <1>4, BeginTyped DEF BeginDelete, TaskOp, Op
  <2> QED BY <1>4, <2>1 DEF BeginDelete, TypeOK
<1>5. ASSUME BeginReset(h)
      PROVE  TypeOK'
  <2>1. [IdleTask EXCEPT !.pc = "wipeItems", !.op = "reset"] \in Task
    BY IdleTyped DEF Task, TaskStage, TaskOp
  <2>2. task' \in [Handler -> Task]
    BY <1>5, <2>1 DEF BeginReset, TypeOK
  <2> QED BY <1>5, <2>2 DEF BeginReset, TypeOK
<1> QED BY <1>1, <1>2, <1>3, <1>4, <1>5 DEF TaskBegins

\* A handler past its first step knows its id, and one that queues its work
\* is a create, an update or a delete: without this the queue is not typed.
TaskShape ==
  \A h \in Handler :
    /\ task[h].pc \in {"loadVault", "writeVault", "loadQueue", "writeQueue"}
         => task[h].id \in Id /\ task[h].op \in Op \cup {"touch"}
    /\ task[h].pc \in {"loadQueue", "writeQueue"} => task[h].op \in Op

LEMMA TaskStepTyped ==
  ASSUME TypeOK, TaskShape, NEW h \in Handler, TaskStep(h)
  PROVE  TypeOK'
<1> USE DEF disk, memory, external
<1> DEFINE t == task[h]
<1>0. t \in Task /\ IdleTask \in Task
  BY IdleTyped DEF TypeOK
<1>a. \A pc \in TaskStage : [t EXCEPT !.pc = pc] \in Task
  BY <1>0 DEF Task
<1>1. ASSUME LoadVault(h) PROVE TypeOK'
  <2>1. [t EXCEPT !.pc = "writeVault", !.view = vault] \in Task
    BY <1>0 DEF Task, TaskStage, TypeOK
  <2>2. task' = [task EXCEPT ![h] = [t EXCEPT !.pc = "writeVault", !.view = vault]]
    BY <1>1, <1>0 DEF LoadVault, TypeOK
  <2>3. task' \in [Handler -> Task]
    BY <2>1, <2>2 DEF TypeOK
  <2> QED BY <1>1, <2>3 DEF LoadVault, TypeOK
<1>2. ASSUME WriteVault(h) PROVE TypeOK'
  <2>1. [t.view EXCEPT ![t.id] = t.env] \in Vault
    BY <1>0 DEF Task
  <2>2. vault' \in Vault
    BY <1>2, <2>1, OverwriteTyped DEF WriteVault, TypeOK
  <2>3. task' \in [Handler -> Task]
    BY <1>2, <1>0, <1>a DEF WriteVault, TypeOK, TaskStage
  <2> QED BY <1>2, <2>2, <2>3 DEF WriteVault, TypeOK
<1>3. ASSUME LoadQueue(h) PROVE TypeOK'
  <2>1. [t EXCEPT !.pc = "writeQueue", !.seen = queue] \in Task
    BY <1>0 DEF Task, TaskStage, TypeOK
  <2>2. task' = [task EXCEPT ![h] = [t EXCEPT !.pc = "writeQueue", !.seen = queue]]
    BY <1>3, <1>0 DEF LoadQueue, TypeOK
  <2>3. task' \in [Handler -> Task]
    BY <2>1, <2>2 DEF TypeOK
  <2> QED BY <1>3, <2>3 DEF LoadQueue, TypeOK
<1>4. ASSUME WriteQueue(h) PROVE TypeOK'
  <2>1. t.id \in Id /\ t.op \in Op /\ t.seen \in SUBSET Entry
    BY <1>4, <1>0 DEF WriteQueue, TaskShape, Task
  <2>2. queue' \in SUBSET Entry
    BY <1>4, <2>1, EnqueuedTyped DEF WriteQueue
  <2>3. task' \in [Handler -> Task]
    BY <1>4, <1>0 DEF WriteQueue, TypeOK
  <2> QED BY <1>4, <2>2, <2>3 DEF WriteQueue, TypeOK
<1>5. ASSUME WipeItems(h) PROVE TypeOK'
  <2>1. vault' \in Vault
    BY <1>5, OverwriteTyped DEF WipeItems, TypeOK
  <2>2. task' \in [Handler -> Task]
    BY <1>5, <1>0, <1>a DEF WipeItems, Stage, TypeOK, TaskStage
  <2> QED BY <1>5, <2>1, <2>2 DEF WipeItems, TypeOK
<1>6. ASSUME WipeIdentities(h) PROVE TypeOK'
  <2>1. vault' \in Vault
    BY <1>6, OverwriteTyped DEF WipeIdentities, TypeOK
  <2>2. task' \in [Handler -> Task]
    BY <1>6, <1>0, <1>a DEF WipeIdentities, Stage, TypeOK, TaskStage
  <2> QED BY <1>6, <2>1, <2>2 DEF WipeIdentities, TypeOK
<1>7. ASSUME WipeQueue(h) PROVE TypeOK'
  <2>2. task' \in [Handler -> Task]
    BY <1>7, <1>0, <1>a DEF WipeQueue, Stage, TypeOK, TaskStage
  <2> QED BY <1>7, <2>2 DEF WipeQueue, TypeOK
<1>8. ASSUME WipeCursor(h) PROVE TypeOK'
  BY <1>8, <1>0 DEF WipeCursor, TypeOK
<1> QED BY <1>1, <1>2, <1>3, <1>4, <1>5, <1>6, <1>7, <1>8 DEF TaskStep

LEMMA SyncStepTyped ==
  ASSUME TypeOK, NEW r \in Run, SyncStep(r)
  PROVE  TypeOK'
<1> USE DEF disk, memory, external
<1> DEFINE s == run[r]
<1>0. s \in SyncRun
  BY DEF TypeOK
<1>a. \A pc \in RunStage : [s EXCEPT !.pc = pc] \in SyncRun
  BY <1>0 DEF SyncRun
<1>1. ASSUME ReadQueue(r) PROVE TypeOK'
  <2>1. Deletes(queue) \in SUBSET Id
    BY DEF TypeOK, Deletes, Entry
  <2>2. [s EXCEPT !.pc = "readKeys", !.tombs = Deletes(queue),
                  !.deletedAt = clock] \in SyncRun
    BY <1>0, <2>1 DEF SyncRun, RunStage, TypeOK
  <2>3. run' = [run EXCEPT ![r] = [s EXCEPT !.pc = "readKeys",
                  !.tombs = Deletes(queue), !.deletedAt = clock]]
    BY <1>1, <1>0 DEF ReadQueue, TypeOK
  <2>4. run' \in [Run -> SyncRun]
    BY <2>2, <2>3, RunTyped DEF TypeOK
  <2> QED BY <1>1, <2>4 DEF ReadQueue, TypeOK
<1>2. ASSUME ReadKeys(r) PROVE TypeOK'
  <2>1. CASE keychain # None
    <3>1. [s EXCEPT !.pc = "loadItems", !.key = keychain] \in SyncRun
      BY <1>0 DEF SyncRun, RunStage, TypeOK
    <3>2. run' = [run EXCEPT ![r] = [s EXCEPT !.pc = "loadItems", !.key = keychain]]
      BY <1>2, <2>1, <1>0 DEF ReadKeys, TypeOK
    <3>3. run' \in [Run -> SyncRun]
      BY <3>1, <3>2, RunTyped DEF TypeOK
    <3> QED BY <1>2, <2>1, <3>3 DEF ReadKeys, TypeOK
  <2>2. CASE keychain = None
    <3>1. Returns(r, FALSE)
      BY <1>2, <2>2 DEF ReadKeys
    <3> QED BY <1>2, <3>1, ReturnsTyped DEF ReadKeys, TypeOK
  <2> QED BY <2>1, <2>2
<1>3. ASSUME LoadItems(r) \/ LoadIdentities(r) PROVE TypeOK'
  <2>1. PICK pc \in {"loadIdentities", "loadCursor"}, part \in {Item, Identity} :
          run' = [run EXCEPT ![r].pc = pc, ![r].snap = Gathered(s, part)]
    BY <1>3 DEF LoadItems, LoadIdentities
  <2>2. Gathered(s, part) \in Vault
    BY <1>0, GatheredTyped
  <2>3. [s EXCEPT !.pc = pc, !.snap = Gathered(s, part)] \in SyncRun
    BY <1>0, <2>2 DEF SyncRun, RunStage
  <2>4. run' = [run EXCEPT ![r] = [s EXCEPT !.pc = pc, !.snap = Gathered(s, part)]]
    BY <2>1, <1>0 DEF TypeOK
  <2>5. run' \in [Run -> SyncRun]
    BY <2>3, <2>4, RunTyped DEF TypeOK
  <2> QED BY <1>3, <2>5 DEF LoadItems, LoadIdentities, TypeOK
<1>3c. ASSUME LoadCursor(r) PROVE TypeOK'
  <2>1. [s EXCEPT !.pc = "push", !.from = cursor] \in SyncRun
    BY <1>0 DEF SyncRun, RunStage, TypeOK
  <2>2. run' = [run EXCEPT ![r] = [s EXCEPT !.pc = "push", !.from = cursor]]
    BY <1>3c, <1>0 DEF LoadCursor, TypeOK
  <2>3. run' \in [Run -> SyncRun]
    BY <2>1, <2>2, RunTyped DEF TypeOK
  <2> QED BY <1>3c, <2>3 DEF LoadCursor, TypeOK
<1>4. ASSUME Push(r) PROVE TypeOK'
  <2>1. server' \in [Id -> Record]
    <3>1. s.snap \in Vault /\ s.tombs \in SUBSET Id /\ s.deletedAt \in Nat
          /\ serverSeq + 1 \in Nat
      BY <1>0 DEF SyncRun, TypeOK
    <3> QED BY <1>4, <3>1, ReceivedTyped DEF Push
  <2>2. serverSeq' \in Nat
    BY <1>4 DEF Push, TypeOK
  <2>3. run' \in [Run -> SyncRun]
    BY <1>4, <1>0, <1>a DEF Push, TypeOK, RunStage
  <2> QED BY <1>4, <2>1, <2>2, <2>3 DEF Push, TypeOK
<1>5. ASSUME SaveEcho(r) PROVE TypeOK'
  <2>1. run' \in [Run -> SyncRun] /\ cursor' \in Nat
    BY <1>5, <1>0, <1>a DEF SaveEcho, TypeOK, RunStage, SyncRun
  <2> QED BY <1>5, <2>1 DEF SaveEcho, TypeOK
<1>6. ASSUME Pull(r) PROVE TypeOK'
  <2>1. Merged(s) \in Vault
    BY <1>0, MergedTyped
  <2>2. [s EXCEPT !.pc = "saveCursor", !.snap = Merged(s), !.upto = serverSeq] \in SyncRun
    BY <1>0, <2>1 DEF SyncRun, RunStage, TypeOK
  <2>3. run' = [run EXCEPT ![r] = [s EXCEPT !.pc = "saveCursor",
                  !.snap = Merged(s), !.upto = serverSeq]]
    BY <1>6, <1>0 DEF Pull, TypeOK
  <2>4. run' \in [Run -> SyncRun]
    BY <2>2, <2>3, RunTyped DEF TypeOK
  <2> QED BY <1>6, <2>4 DEF Pull, TypeOK
<1>7. ASSUME SaveCursor(r) PROVE TypeOK'
  <2>1. run' \in [Run -> SyncRun] /\ cursor' \in Nat
    BY <1>7, <1>0, <1>a DEF SaveCursor, TypeOK, RunStage, SyncRun
  <2> QED BY <1>7, <2>1 DEF SaveCursor, TypeOK
<1>8. ASSUME SaveItems(r) PROVE TypeOK'
  <2>1. vault' \in Vault
    BY <1>8, <1>0, OverwriteTyped DEF SaveItems, TypeOK, SyncRun
  <2>2. run' \in [Run -> SyncRun]
    BY <1>8, <1>0, <1>a DEF SaveItems, TypeOK, RunStage
  <2> QED BY <1>8, <2>1, <2>2 DEF SaveItems, TypeOK
<1>9. ASSUME SaveIdentities(r) PROVE TypeOK'
  <2>1. vault' \in Vault
    BY <1>9, <1>0, OverwriteTyped DEF SaveIdentities, TypeOK, SyncRun
  <2>2. Returns(r, TRUE)
    BY <1>9 DEF SaveIdentities
  <2> QED BY <1>9, <2>1, <2>2, ReturnsTyped DEF SaveIdentities, TypeOK
<1>10. ASSUME ClearQueue(r) PROVE TypeOK'
  <2>1. run' \in [Run -> SyncRun]
    BY <1>10, AfterDrainTyped DEF ClearQueue, TypeOK
  <2> QED BY <1>10, <2>1 DEF ClearQueue, TypeOK
<1> QED
  BY <1>1, <1>2, <1>3, <1>3c, <1>4, <1>5, <1>6, <1>7, <1>8, <1>9, <1>10 DEF SyncStep

LEMMA StartTyped ==
  ASSUME TypeOK, StartTimer \/ StartManual
  PROVE  TypeOK'
<1> USE DEF disk, memory, external
<1>0. "timer" \in Run /\ "manual" \in Run
  BY DEF Run
<1>1. CASE StartTimer
  BY <1>1, <1>0, AfterDrainTyped DEF StartTimer, TypeOK
<1>2. CASE StartManual
  <2>1. run' \in [Run -> SyncRun]
    BY <1>2, <1>0, AfterDrainTyped DEF StartManual, TypeOK
  <2> QED BY <1>2, <2>1 DEF StartManual, TypeOK
<1> QED BY <1>1, <1>2

LEMMA OutsideTyped ==
  ASSUME TypeOK, Remote \/ \E a \in Account : InstallKeychain(a)
  PROVE  TypeOK'
<1> USE DEF disk, memory, external
<1>1. ASSUME NEW i \in Id, RemoteDelete(i) PROVE TypeOK'
  <2>1. server' \in [Id -> Record] /\ serverSeq' \in Nat
    BY <1>1 DEF RemoteDelete, Bury, TypeOK, Record
  <2> QED BY <1>1, <2>1 DEF RemoteDelete, TypeOK
<1>2. ASSUME NEW i \in Id, NEW a \in Account, RemoteWrite(i, a) PROVE TypeOK'
  <2>1. server' \in [Id -> Record]
    BY <1>2 DEF RemoteWrite, Accept, Sealed, TypeOK, Record
  <2>2. serverSeq' \in Nat /\ clock' \in Nat
    BY <1>2 DEF RemoteWrite, TypeOK
  <2> QED BY <1>2, <2>1, <2>2 DEF RemoteWrite, TypeOK
<1>3. ASSUME NEW a \in Account, InstallKeychain(a) PROVE TypeOK'
  BY <1>3 DEF InstallKeychain, TypeOK
<1> QED BY <1>1, <1>2, <1>3 DEF Remote

LEMMA FaultTyped ==
  ASSUME TypeOK, Fault
  PROVE  TypeOK'
<1> USE DEF disk, memory, external
<1>1. ASSUME NEW r \in Run, Offline(r) PROVE TypeOK'
  BY <1>1, ReturnsTyped DEF Offline, TypeOK
<1>2. ASSUME NEW r \in Run, SyncStorageFails(r) PROVE TypeOK'
  BY <1>2, ReturnsTyped DEF SyncStorageFails, TypeOK
<1>3. ASSUME NEW r \in Run, QueueStorageFails(r) PROVE TypeOK'
  <2>1. run' \in [Run -> SyncRun] /\ processing' \in BOOLEAN
    BY <1>3, IdleTyped DEF QueueStorageFails, TypeOK
  <2>2. status' \in {"error", status}
    BY <1>3, Zenon DEF QueueStorageFails
  <2> QED BY <1>3, <2>1, <2>2 DEF QueueStorageFails, TypeOK
<1>4. ASSUME NEW h \in Handler, TaskStorageFails(h) PROVE TypeOK'
  BY <1>4, IdleTyped DEF TaskStorageFails, TypeOK
<1>5. ASSUME Evict PROVE TypeOK'
  <2>1. task' \in [Handler -> Task] /\ run' \in [Run -> SyncRun]
    BY <1>5, IdleTyped DEF Evict
  <2> QED BY <1>5, <2>1 DEF Evict, TypeOK
<1> QED BY <1>1, <1>2, <1>3, <1>4, <1>5 DEF Fault

-----------------------------------------------------------------------------
(***************************************************************************)
(* The processing flag and the ownership of what a sync carries.  Neither  *)
(* is inductive alone: the error paths end a drain from stages only drains *)
(* reach, and the key is read while nothing has been gathered yet.         *)
(***************************************************************************)
RunShape(s) ==
  /\ s.pc = "idle" => ~s.drain
  /\ s.pc \in {"readQueue", "clearQueue"} => s.drain
  /\ s.pc \in {"idle", "readQueue", "readKeys"} => s.snap = EmptyVault
  /\ \A i \in Id : Present(s.snap[i]) => s.snap[i].by = s.key

SyncInv ==
  /\ \A r \in Run : RunShape(run[r])
  /\ OneDrain

\* A run goes on to its next stage, as the drain or the plain sync it was.
LEMMA RunGoesOn ==
  ASSUME TypeOK, SyncInv, NEW r \in Run, NEW new \in SyncRun,
         run[r].pc # "idle", new.pc # "idle", new.drain = run[r].drain,
         RunShape(new), run' = [run EXCEPT ![r] = new],
         processing' = processing
  PROVE  SyncInv'
<1>1. \A q \in Run : run'[q] = IF q = r THEN new ELSE run[q]
  BY DEF TypeOK
<1>2. \A q \in Run : RunShape(run'[q])
  BY <1>1 DEF SyncInv
<1>3. \A q \in Run : /\ run'[q].drain = run[q].drain
                     /\ run'[q].pc # "idle" <=> run[q].pc # "idle"
  BY <1>1
<1> QED BY <1>2, <1>3 DEF SyncInv, OneDrain

\* A drain ends, and lowers the flag, whatever the run does next.
LEMMA DrainIsOver ==
  ASSUME TypeOK, SyncInv, NEW r \in Run, NEW new \in SyncRun,
         run[r].drain, ~new.drain, RunShape(new),
         run' = [run EXCEPT ![r] = new], processing' = FALSE
  PROVE  SyncInv'
<1>1. \A q \in Run : run'[q] = IF q = r THEN new ELSE run[q]
  BY DEF TypeOK
<1>2. \A q \in Run : RunShape(run'[q])
  BY <1>1 DEF SyncInv
<1>3. \A q \in Run : ~run'[q].drain
  BY <1>1 DEF SyncInv, OneDrain
<1> QED BY <1>2, <1>3 DEF SyncInv, OneDrain

\* A run that is no drain starts or ends; the flag is left as it is.
LEMMA PlainChange ==
  ASSUME TypeOK, SyncInv, NEW r \in Run, NEW new \in SyncRun,
         ~run[r].drain, ~new.drain, RunShape(new),
         run' = [run EXCEPT ![r] = new], processing' = processing
  PROVE  SyncInv'
<1>1. \A q \in Run : run'[q] = IF q = r THEN new ELSE run[q]
  BY DEF TypeOK
<1>2. \A q \in Run : RunShape(run'[q])
  BY <1>1 DEF SyncInv
<1>3. \A q \in Run : run'[q].drain <=> run[q].drain
  BY <1>1
<1>4. \A q \in Run : run[q].drain => run[q].pc # "idle" /\ run'[q].pc # "idle"
  BY <1>1 DEF SyncInv, RunShape
<1> QED BY <1>2, <1>3, <1>4 DEF SyncInv, OneDrain

\* A drain starts where none was in progress.
LEMMA DrainStarts ==
  ASSUME TypeOK, SyncInv, NEW r \in Run, ~processing,
         run' = [run EXCEPT ![r] = Drain], processing' = TRUE
  PROVE  SyncInv'
<1>1. \A q \in Run : run'[q] = IF q = r THEN Drain ELSE run[q]
  BY DEF TypeOK
<1>2. RunShape(Drain) /\ Drain.drain /\ Drain.pc # "idle"
  BY DEF RunShape, Drain, IdleRun, Present
<1>3. \A q \in Run : ~run[q].drain
  BY DEF SyncInv, OneDrain, RunShape
<1>4. \A q \in Run : RunShape(run'[q])
  BY <1>1, <1>2 DEF SyncInv
<1>5. \A q \in Run : run'[q].drain <=> q = r
  BY <1>1, <1>2, <1>3
<1> QED BY <1>1, <1>2, <1>4, <1>5 DEF SyncInv, OneDrain

LEMMA FreshRuns ==
  /\ RunShape(IdleRun) /\ ~IdleRun.drain /\ IdleRun.pc = "idle"
  /\ RunShape(PlainRun) /\ ~PlainRun.drain
  /\ \A r \in Run : RunShape(AfterDrain(r)) /\ ~AfterDrain(r).drain
  BY DEF RunShape, PlainRun, AfterDrain, IdleRun, Present

LEMMA ReturnsKeeps ==
  ASSUME TypeOK, SyncInv, NEW r \in Run, NEW ok \in BOOLEAN,
         run[r].pc # "idle", Returns(r, ok)
  PROVE  SyncInv'
<1>0. run[r] \in SyncRun /\ RunShape(run[r])
  BY DEF TypeOK, SyncInv
<1>1. CASE run[r].drain /\ ok
  <2> DEFINE new == [run[r] EXCEPT !.pc = "clearQueue"]
  <2>1. new \in SyncRun /\ new.pc = "clearQueue" /\ new.drain = run[r].drain
        /\ new.snap = run[r].snap /\ new.key = run[r].key
    BY <1>0 DEF SyncRun, RunStage
  <2>2. RunShape(new)
    BY <1>0, <1>1, <2>1 DEF RunShape
  <2>3. run' = [run EXCEPT ![r] = new] /\ processing' = processing
    BY <1>1 DEF Returns
  <2> QED BY <2>1, <2>2, <2>3, RunGoesOn
<1>2. CASE run[r].drain /\ ~ok
  BY <1>2, FreshRuns, AfterDrainTyped, DrainIsOver DEF Returns
<1>3. CASE ~run[r].drain
  BY <1>3, FreshRuns, IdleTyped, PlainChange DEF Returns
<1> QED BY <1>1, <1>2, <1>3

LEMMA SyncStepKeeps ==
  ASSUME TypeOK, SyncInv, NEW r \in Run, SyncStep(r)
  PROVE  SyncInv'
<1> DEFINE s == run[r]
<1>0. s \in SyncRun /\ RunShape(s)
  BY DEF TypeOK, SyncInv
<1>a. ASSUME NEW pc \in {"saveEcho", "pull", "saveItems", "saveIdentities"},
             run' = [run EXCEPT ![r].pc = pc], processing' = processing,
             s.pc # "idle"
      PROVE  SyncInv'
  <2> DEFINE new == [s EXCEPT !.pc = pc]
  <2>1. new \in SyncRun /\ new.pc = pc /\ new.drain = s.drain
        /\ new.snap = s.snap /\ new.key = s.key
    BY <1>0 DEF SyncRun, RunStage
  <2>2. RunShape(new)
    BY <1>0, <2>1 DEF RunShape
  <2>3. run' = [run EXCEPT ![r] = new]
    BY <1>a
  <2>4. new.pc # "idle"
    BY <2>1
  <2> QED BY <1>a, <2>1, <2>2, <2>3, <2>4, RunGoesOn
<1>1. ASSUME ReadQueue(r) PROVE SyncInv'
  <2> DEFINE new == [s EXCEPT !.pc = "readKeys", !.tombs = Deletes(queue),
                              !.deletedAt = clock]
  <2>1. Deletes(queue) \in SUBSET Id /\ clock \in Nat
    BY DEF TypeOK, Deletes, Entry
  <2>2. new \in SyncRun /\ new.pc = "readKeys" /\ new.drain = s.drain
        /\ new.snap = s.snap /\ new.key = s.key
    BY <1>0, <2>1 DEF SyncRun, RunStage
  <2>3. s.pc = "readQueue"
    BY <1>1 DEF ReadQueue
  <2>4. RunShape(new)
    BY <1>0, <2>2, <2>3 DEF RunShape
  <2>5. run' = [run EXCEPT ![r] = new] /\ processing' = processing
    BY <1>1, <1>0 DEF ReadQueue, TypeOK
  <2> QED BY <2>2, <2>3, <2>4, <2>5, RunGoesOn
<1>2. ASSUME ReadKeys(r) PROVE SyncInv'
  <2>1. CASE keychain # None
    <3> DEFINE new == [s EXCEPT !.pc = "loadItems", !.key = keychain]
    <3>1. new \in SyncRun /\ new.pc = "loadItems" /\ new.drain = s.drain
          /\ new.snap = s.snap
      BY <1>0 DEF SyncRun, RunStage, TypeOK
    <3>2. s.pc = "readKeys"
      BY <1>2 DEF ReadKeys
    <3>3. RunShape(new)
      BY <1>0, <3>1, <3>2 DEF RunShape, Present
    <3>4. run' = [run EXCEPT ![r] = new] /\ processing' = processing
      BY <1>2, <2>1, <1>0 DEF ReadKeys, TypeOK
    <3> QED BY <3>1, <3>2, <3>3, <3>4, RunGoesOn
  <2>2. CASE keychain = None
    BY <1>2, <2>2, ReturnsKeeps DEF ReadKeys
  <2> QED BY <2>1, <2>2
<1>3. ASSUME LoadItems(r) \/ LoadIdentities(r) PROVE SyncInv'
  <2>1. PICK pc \in {"loadIdentities", "loadCursor"}, part \in {Item, Identity} :
          run' = [run EXCEPT ![r].pc = pc, ![r].snap = Gathered(s, part)]
    BY <1>3 DEF LoadItems, LoadIdentities
  <2> DEFINE new == [s EXCEPT !.pc = pc, !.snap = Gathered(s, part)]
  <2>2. Gathered(s, part) \in Vault
    BY <1>0, GatheredTyped
  <2>3. new \in SyncRun /\ new.pc = pc /\ new.drain = s.drain
        /\ new.snap = Gathered(s, part) /\ new.key = s.key
    BY <1>0, <2>2 DEF SyncRun, RunStage
  <2>4. \A i \in Id : Present(Gathered(s, part)[i]) => Gathered(s, part)[i].by = s.key
    BY <1>0 DEF Gathered, Ours, Present, RunShape
  <2>5. RunShape(new)
    BY <2>3, <2>4 DEF RunShape
  <2>6. run' = [run EXCEPT ![r] = new] /\ processing' = processing
    BY <1>3, <2>1, <1>0 DEF LoadItems, LoadIdentities, TypeOK
  <2>7. s.pc # "idle" /\ new.pc # "idle"
    BY <1>3, <2>3 DEF LoadItems, LoadIdentities
  <2> QED BY <2>3, <2>5, <2>6, <2>7, RunGoesOn
<1>3c. ASSUME LoadCursor(r) PROVE SyncInv'
  <2> DEFINE new == [s EXCEPT !.pc = "push", !.from = cursor]
  <2>1. new \in SyncRun /\ new.pc = "push" /\ new.drain = s.drain
        /\ new.snap = s.snap /\ new.key = s.key
    BY <1>0 DEF SyncRun, RunStage, TypeOK
  <2>2. RunShape(new)
    BY <1>0, <2>1 DEF RunShape
  <2>3. run' = [run EXCEPT ![r] = new] /\ processing' = processing
    BY <1>3c, <1>0 DEF LoadCursor, TypeOK
  <2>4. s.pc # "idle"
    BY <1>3c DEF LoadCursor
  <2> QED BY <2>1, <2>2, <2>3, <2>4, RunGoesOn
<1>4. ASSUME Push(r) PROVE SyncInv'
  BY <1>4, <1>a DEF Push
<1>5. ASSUME SaveEcho(r) PROVE SyncInv'
  BY <1>5, <1>a DEF SaveEcho
<1>6. ASSUME Pull(r) PROVE SyncInv'
  <2> DEFINE new == [s EXCEPT !.pc = "saveCursor", !.snap = Merged(s),
                              !.upto = serverSeq]
  <2>1. Merged(s) \in Vault
    BY <1>0, MergedTyped
  <2>2. new \in SyncRun /\ new.pc = "saveCursor" /\ new.drain = s.drain
        /\ new.snap = Merged(s) /\ new.key = s.key
    BY <1>0, <2>1 DEF SyncRun, RunStage, TypeOK
  <2>3. \A i \in Id : Present(Merged(s)[i]) => Merged(s)[i].by = s.key
    <3> SUFFICES ASSUME NEW i \in Id, Present(Merged(s)[i])
                 PROVE  Merged(s)[i].by = s.key
      OBVIOUS
    <3> DEFINE e == MergeOne(i, s.snap[i], server[i], s.key)
    <3>1. Merged(s)[i] = IF server[i].seq > s.from THEN e ELSE s.snap[i]
      BY DEF Merged
    <3>2. Present(s.snap[i]) => s.snap[i].by = s.key
      BY <1>0 DEF RunShape
    <3>3. s.snap[i] \in Envelope /\ server[i] \in Record
      BY <1>0 DEF SyncRun, TypeOK
    <3>4. e = Absent \/ e = s.snap[i] \/ e.by = s.key
      BY <3>3 DEF MergeOne, Record
    <3>5. ~Present(Absent)
      BY DEF Present
    <3> QED BY <3>1, <3>2, <3>4, <3>5
  <2>4. RunShape(new)
    BY <2>2, <2>3 DEF RunShape
  <2>5. run' = [run EXCEPT ![r] = new] /\ processing' = processing
    BY <1>6, <1>0 DEF Pull, TypeOK
  <2>6. s.pc = "pull"
    BY <1>6 DEF Pull
  <2> QED BY <2>2, <2>4, <2>5, <2>6, RunGoesOn
<1>7. ASSUME SaveCursor(r) PROVE SyncInv'
  BY <1>7, <1>a DEF SaveCursor
<1>8. ASSUME SaveItems(r) PROVE SyncInv'
  BY <1>8, <1>a DEF SaveItems
<1>9. ASSUME SaveIdentities(r) PROVE SyncInv'
  BY <1>9, ReturnsKeeps DEF SaveIdentities
<1>10. ASSUME ClearQueue(r) PROVE SyncInv'
  <2>1. s.drain
    BY <1>10, <1>0 DEF ClearQueue, RunShape
  <2>2. AfterDrain(r) \in SyncRun /\ RunShape(AfterDrain(r)) /\ ~AfterDrain(r).drain
    BY FreshRuns, AfterDrainTyped
  <2>3. run' = [run EXCEPT ![r] = AfterDrain(r)] /\ processing' = FALSE
    BY <1>10 DEF ClearQueue
  <2> QED BY <2>1, <2>2, <2>3, DrainIsOver
<1> QED
  BY <1>1, <1>2, <1>3, <1>3c, <1>4, <1>5, <1>6, <1>7, <1>8, <1>9, <1>10 DEF SyncStep

LEMMA StartKeeps ==
  ASSUME TypeOK, SyncInv, StartTimer \/ StartManual
  PROVE  SyncInv'
<1>0. "timer" \in Run /\ "manual" \in Run
  BY DEF Run
<1>1. CASE StartTimer
  BY <1>0, <1>1, DrainStarts DEF StartTimer
<1>2. CASE StartManual /\ ~processing
  BY <1>0, <1>2, DrainStarts DEF StartManual
<1>3. CASE StartManual /\ processing
  <2>1. run["manual"].pc = "idle" /\ run' = [run EXCEPT !["manual"] = PlainRun]
        /\ processing' = TRUE
    BY <1>3 DEF StartManual, MaySync
  <2>2. ~run["manual"].drain
    BY <1>0, <2>1 DEF SyncInv, RunShape
  <2>3. processing' = processing
    BY <1>3, <2>1 DEF TypeOK
  <2>4. PlainRun \in SyncRun
    BY <1>0, AfterDrainTyped
  <2> QED BY <1>0, <2>1, <2>2, <2>3, <2>4, FreshRuns, PlainChange
<1> QED BY <1>1, <1>2, <1>3

LEMMA FaultKeeps ==
  ASSUME TypeOK, SyncInv, Fault
  PROVE  SyncInv'
<1>1. ASSUME NEW r \in Run, Offline(r) PROVE SyncInv'
  <2>1. run[r].pc # "idle" /\ Returns(r, FALSE)
    BY <1>1 DEF Offline
  <2> QED BY <2>1, ReturnsKeeps
<1>2. ASSUME NEW r \in Run, SyncStorageFails(r) PROVE SyncInv'
  <2>1. run[r].pc # "idle" /\ Returns(r, FALSE)
    BY <1>2 DEF SyncStorageFails
  <2> QED BY <2>1, ReturnsKeeps
<1>3. ASSUME NEW r \in Run, QueueStorageFails(r) PROVE SyncInv'
  <2>1. run[r].drain
    BY <1>3 DEF QueueStorageFails, SyncInv, RunShape
  <2> QED BY <1>3, <2>1, FreshRuns, IdleTyped, DrainIsOver DEF QueueStorageFails
<1>4. ASSUME NEW h \in Handler, TaskStorageFails(h) PROVE SyncInv'
  <2>1. run' = run /\ processing' = processing
    BY <1>4 DEF TaskStorageFails
  <2> QED BY <2>1 DEF SyncInv, OneDrain, RunShape
<1>5. ASSUME Evict PROVE SyncInv'
  <2>1. \A r \in Run : run'[r] = IdleRun
    BY <1>5 DEF Evict
  <2>2. processing' = FALSE
    BY <1>5 DEF Evict
  <2> QED BY <2>1, <2>2, FreshRuns DEF SyncInv, OneDrain
<1> QED BY <1>1, <1>2, <1>3, <1>4, <1>5 DEF Fault

\* Handlers, other devices and keychain installs leave the syncs alone.
LEMMA OthersKeep ==
  ASSUME SyncInv, run' = run, processing' = processing
  PROVE  SyncInv'
  BY DEF SyncInv, OneDrain, RunShape

LEMMA HandlersLeaveSyncs ==
  ASSUME \/ \E h \in Handler : TaskBegins(h) \/ TaskStep(h)
         \/ \E a \in Account : InstallKeychain(a)
         \/ Remote
  PROVE  run' = run /\ processing' = processing
<1> USE DEF disk, memory, external
<1>1. ASSUME NEW h \in Handler, TaskBegins(h)
      PROVE  run' = run /\ processing' = processing
  BY <1>1 DEF TaskBegins, BeginCreate, BeginUpdate, BeginTouch, BeginDelete, BeginReset
<1>2. ASSUME NEW h \in Handler, TaskStep(h)
      PROVE  run' = run /\ processing' = processing
  BY <1>2 DEF TaskStep, LoadVault, WriteVault, LoadQueue, WriteQueue,
              WipeItems, WipeIdentities, WipeQueue, WipeCursor
<1>3. ASSUME \E a \in Account : InstallKeychain(a)
      PROVE  run' = run /\ processing' = processing
  BY <1>3 DEF InstallKeychain
<1>4. ASSUME Remote
      PROVE  run' = run /\ processing' = processing
  BY <1>4 DEF Remote, RemoteWrite, RemoteDelete
<1> QED BY <1>1, <1>2, <1>3, <1>4

-----------------------------------------------------------------------------
(* The stages of a message handler. *)

LEMMA TaskBeginsShaped ==
  ASSUME TypeOK, TaskShape, NEW h \in Handler, TaskBegins(h)
  PROVE  TaskShape'
<1>1. ASSUME NEW op \in Op \cup {"touch"}, NEW i \in Id, NEW e, Begin(h, op, i, e)
      PROVE  TaskShape'
  <2> DEFINE new == [IdleTask EXCEPT !.pc = "loadVault", !.op = op, !.id = i,
                                     !.env = e]
  <2>1. new.pc = "loadVault" /\ new.op = op /\ new.id = i
    BY DEF IdleTask
  <2>2. \A g \in Handler : task'[g] = IF g = h THEN new ELSE task[g]
    BY <1>1 DEF Begin, TypeOK
  <2> QED BY <2>1, <2>2 DEF TaskShape
<1>2. ASSUME NEW i \in Id,
             \/ BeginCreate(h, i) \/ BeginUpdate(h, i)
             \/ BeginTouch(h, i)  \/ BeginDelete(h, i)
      PROVE  TaskShape'
  BY <1>1, <1>2 DEF BeginCreate, BeginUpdate, BeginTouch, BeginDelete, Op
<1>3. ASSUME BeginReset(h)
      PROVE  TaskShape'
  <2> DEFINE new == [IdleTask EXCEPT !.pc = "wipeItems", !.op = "reset"]
  <2>1. new.pc = "wipeItems"
    BY DEF IdleTask
  <2>2. \A g \in Handler : task'[g] = IF g = h THEN new ELSE task[g]
    BY <1>3 DEF BeginReset, TypeOK
  <2> QED BY <2>1, <2>2 DEF TaskShape
<1> QED BY <1>2, <1>3 DEF TaskBegins

\* One handler moves to a stage its id and operation allow.
LEMMA TaskMoves ==
  ASSUME TypeOK, TaskShape, NEW h \in Handler, NEW new \in Task,
         task' = [task EXCEPT ![h] = new],
         \/ new.pc \notin {"loadVault", "writeVault", "loadQueue", "writeQueue"}
         \/ /\ new.id = task[h].id /\ new.op = task[h].op
            /\ task[h].pc \in {"loadVault", "writeVault", "loadQueue", "writeQueue"}
            /\ new.pc \in {"loadQueue", "writeQueue"} => new.op \in Op
  PROVE  TaskShape'
<1>1. \A g \in Handler : task'[g] = IF g = h THEN new ELSE task[g]
  BY DEF TypeOK
<1> QED BY <1>1 DEF TaskShape

LEMMA TaskStepShaped ==
  ASSUME TypeOK, TaskShape, NEW h \in Handler, TaskStep(h)
  PROVE  TaskShape'
<1> DEFINE t == task[h]
<1>0. t \in Task /\ IdleTask \in Task /\ IdleTask.pc = "idle"
  BY IdleTyped DEF TypeOK, IdleTask
<1>1. ASSUME LoadVault(h) PROVE TaskShape'
  <2> DEFINE new == [t EXCEPT !.pc = "writeVault", !.view = vault]
  <2>1. new \in Task /\ new.pc = "writeVault" /\ new.id = t.id /\ new.op = t.op
    BY <1>0 DEF Task, TaskStage, TypeOK
  <2>2. t.pc = "loadVault" /\ task' = [task EXCEPT ![h] = new]
    BY <1>1, <1>0 DEF LoadVault, TypeOK
  <2> QED BY <2>1, <2>2, TaskMoves
<1>2. ASSUME WriteVault(h) PROVE TaskShape'
  <2> DEFINE new == [t EXCEPT !.pc = "loadQueue"]
  <2>1. new \in Task /\ new.pc = "loadQueue" /\ new.id = t.id /\ new.op = t.op
    BY <1>0 DEF Task, TaskStage
  <2>2. t.pc = "writeVault"
        /\ task' = [task EXCEPT ![h] = IF t.op = "touch" THEN IdleTask ELSE new]
    BY <1>2 DEF WriteVault
  <2>3. t.op \in Op \cup {"touch"}
    BY <2>2 DEF TaskShape
  <2>4. CASE t.op = "touch"
    BY <1>0, <2>2, <2>4, TaskMoves
  <2>5. CASE t.op # "touch"
    BY <2>1, <2>2, <2>3, <2>5, TaskMoves
  <2> QED BY <2>4, <2>5
<1>3. ASSUME LoadQueue(h) PROVE TaskShape'
  <2> DEFINE new == [t EXCEPT !.pc = "writeQueue", !.seen = queue]
  <2>1. new \in Task /\ new.pc = "writeQueue" /\ new.id = t.id /\ new.op = t.op
    BY <1>0 DEF Task, TaskStage, TypeOK
  <2>2. t.pc = "loadQueue" /\ task' = [task EXCEPT ![h] = new]
    BY <1>3, <1>0 DEF LoadQueue, TypeOK
  <2>3. t.op \in Op
    BY <2>2 DEF TaskShape
  <2> QED BY <2>1, <2>2, <2>3, TaskMoves
<1>4. ASSUME WriteQueue(h) PROVE TaskShape'
  BY <1>0, <1>4, TaskMoves DEF WriteQueue
<1>5. ASSUME WipeItems(h) \/ WipeIdentities(h) \/ WipeQueue(h) PROVE TaskShape'
  <2>1. PICK pc \in {"wipeIdentities", "wipeQueue", "wipeCursor"} :
              task' = [task EXCEPT ![h].pc = pc]
    BY <1>5 DEF WipeItems, WipeIdentities, WipeQueue, Stage
  <2> DEFINE new == [t EXCEPT !.pc = pc]
  <2>2. new \in Task /\ new.pc = pc
    BY <1>0 DEF Task, TaskStage
  <2>3. task' = [task EXCEPT ![h] = new]
    BY <2>1
  <2>4. new.pc \notin {"loadVault", "writeVault", "loadQueue", "writeQueue"}
    BY <2>2
  <2> QED BY <2>2, <2>3, <2>4, TaskMoves
<1>6. ASSUME WipeCursor(h) PROVE TaskShape'
  BY <1>0, <1>6, TaskMoves DEF WipeCursor
<1> QED BY <1>1, <1>2, <1>3, <1>4, <1>5, <1>6 DEF TaskStep

LEMMA FaultShaped ==
  ASSUME TypeOK, TaskShape, Fault
  PROVE  TaskShape'
<1>0. IdleTask \in Task /\ IdleTask.pc = "idle"
  BY IdleTyped DEF IdleTask
<1>1. ASSUME NEW r \in Run,
             Offline(r) \/ SyncStorageFails(r) \/ QueueStorageFails(r)
      PROVE  TaskShape'
  <2>1. task' = task
    BY <1>1 DEF Offline, SyncStorageFails, QueueStorageFails
  <2> QED BY <2>1 DEF TaskShape
<1>2. ASSUME NEW h \in Handler, TaskStorageFails(h) PROVE TaskShape'
  BY <1>0, <1>2, TaskMoves DEF TaskStorageFails
<1>3. ASSUME Evict PROVE TaskShape'
  <2>1. \A h \in Handler : task'[h] = IdleTask
    BY <1>3 DEF Evict
  <2> QED BY <1>0, <2>1 DEF TaskShape
<1> QED BY <1>1, <1>2, <1>3 DEF Fault

LEMMA SyncsLeaveHandlers ==
  ASSUME \/ \E a \in Account : InstallKeychain(a)
         \/ StartTimer \/ StartManual
         \/ \E r \in Run : SyncStep(r)
         \/ Remote
  PROVE  task' = task
  BY DEF disk, memory, external, InstallKeychain, StartTimer, StartManual, SyncStep,
         ReadQueue, ReadKeys, LoadItems, LoadIdentities, LoadCursor, Push, SaveEcho, Pull, SaveCursor, SaveItems,
         SaveIdentities, ClearQueue, Remote, RemoteWrite, RemoteDelete

-----------------------------------------------------------------------------
(* The inductive invariant and the theorems. *)

IInv == TypeOK /\ TaskShape /\ SyncInv

LEMMA IInvInit == Init => IInv
<1> SUFFICES ASSUME Init PROVE IInv
  OBVIOUS
<1>1. \A h \in Handler : task[h] = IdleTask /\ task[h].pc = "idle"
  BY DEF Init, IdleTask
<1>2. TaskShape
  BY <1>1 DEF TaskShape
<1>3. \A r \in Run : run[r] = IdleRun
  BY DEF Init
<1>4. SyncInv
  BY <1>3, FreshRuns DEF Init, SyncInv, OneDrain
<1> QED BY <1>2, <1>4, InitTyped DEF IInv

LEMMA IInvNext == IInv /\ [Next]_vars => IInv'
<1> SUFFICES ASSUME TypeOK, TaskShape, SyncInv, [Next]_vars
             PROVE  TypeOK' /\ TaskShape' /\ SyncInv'
  BY DEF IInv
<1>1. CASE \E h \in Handler : TaskBegins(h) \/ TaskStep(h)
  <2>1. TypeOK' /\ TaskShape'
    BY <1>1, TaskBeginsTyped, TaskStepTyped, TaskBeginsShaped, TaskStepShaped
  <2> QED BY <1>1, <2>1, HandlersLeaveSyncs, OthersKeep
<1>2. CASE Remote \/ \E a \in Account : InstallKeychain(a)
  <2>1. TaskShape'
    BY <1>2, SyncsLeaveHandlers DEF TaskShape
  <2> QED BY <1>2, <2>1, OutsideTyped, HandlersLeaveSyncs, OthersKeep
<1>3. CASE StartTimer \/ StartManual
  <2>1. TaskShape'
    BY <1>3, SyncsLeaveHandlers DEF TaskShape
  <2> QED BY <1>3, <2>1, StartTyped, StartKeeps
<1>4. CASE \E r \in Run : SyncStep(r)
  <2>1. TaskShape'
    BY <1>4, SyncsLeaveHandlers DEF TaskShape
  <2> QED BY <1>4, <2>1, SyncStepTyped, SyncStepKeeps
<1>5. CASE Fault
  BY <1>5, FaultTyped, FaultShaped, FaultKeeps
<1>6. CASE UNCHANGED vars
  BY <1>6 DEF vars, disk, memory, external, TypeOK, TaskShape, SyncInv, OneDrain,
              RunShape
<1> QED BY <1>1, <1>2, <1>3, <1>4, <1>5, <1>6 DEF Next

\* The stored data, the queue and every sync and handler in progress keep their
\* shape through any interleaving of handlers and syncs, loss and eviction.
THEOREM TypeCorrect == Spec => []TypeOK
<1>1. IInv => TypeOK
  BY DEF IInv
<1> QED BY <1>1, IInvInit, IInvNext, PTL DEF Spec

\* The processing flag of sync-queue.ts is up exactly while one processQueue
\* runs, on every error path and however the syncs overlap.
THEOREM DrainsAreExclusive == Spec => []OneDrain
<1>1. IInv => OneDrain
  BY DEF IInv, SyncInv
<1> QED BY <1>1, IInvInit, IInvNext, PTL DEF Spec

\* A fullSync pushes and stores only envelopes of the account whose keychain
\* it read when it began, even when the keychain is replaced under it.
THEOREM SyncsKeepAccountsApart == Spec => []OneAccountPerSync
<1>1. IInv => OneAccountPerSync
  BY DEF IInv, SyncInv, RunShape, OneAccountPerSync
<1> QED BY <1>1, IInvInit, IInvNext, PTL DEF Spec
=============================================================================
