-------------------------- MODULE VaultReplica_proofs --------------------------
(***************************************************************************)
(* Theorems about what VaultSync does to the data, for every set of ids,   *)
(* accounts and handlers: nothing older replaces a newer envelope, nothing *)
(* vanishes, deletions reach the server, a reset leaves nothing behind,    *)
(* the cursor is honest, and the whole implements ReplicaContract.         *)
(*                                                                         *)
(* The argument has four layers.  Always says what every envelope, queue   *)
(* entry and server record is made of, whatever overlaps.  Order says what *)
(* a handler or a sync knows of the storage while nothing else runs.       *)
(* Replica adds what holds when the worker is not stopped, its storage     *)
(* works and its account is not replaced, and Honest what the cursor says  *)
(* then of each id.                                                        *)
(***************************************************************************)
EXTENDS VaultSync_proofs

Editing  == {"loadVault", "writeVault"}
Queueing == {"loadQueue", "writeQueue"}
Wiping   == {"wipeItems", "wipeIdentities", "wipeQueue", "wipeCursor"}
Loading  == {"loadItems", "loadIdentities", "loadCursor"}
Sending  == {"push", "saveEcho", "pull"}
Saving   == {"saveCursor", "saveItems", "saveIdentities"}
Pushed   == {"saveEcho", "pull", "clearQueue"} \cup Saving
Fresh    == {"idle", "readQueue", "readKeys"}

-----------------------------------------------------------------------------
(* What each step does, one field at a time. *)

\* Only handler h, or only sync r, moves.
OnlyTask(h) == \A g \in Handler : g # h => task'[g] = task[g]
OnlyRun(r)  == \A q \in Run : q # r => run'[q] = run[q]

LEMMA BeginEffect ==
  ASSUME TypeOK, NEW h \in Handler, NEW op, NEW i, NEW e, Begin(h, op, i, e)
  PROVE  /\ OnlyTask(h)
         /\ task'[h].pc = "loadVault" /\ task'[h].op = op /\ task'[h].id = i
         /\ task'[h].env = e /\ task'[h].view = EmptyVault /\ task'[h].seen = {}
<1> DEFINE new == [IdleTask EXCEPT !.pc = "loadVault", !.op = op, !.id = i, !.env = e]
<1>1. /\ new.pc = "loadVault" /\ new.op = op /\ new.id = i
      /\ new.env = e /\ new.view = EmptyVault /\ new.seen = {}
  BY DEF IdleTask
<1>2. \A g \in Handler : task'[g] = IF g = h THEN new ELSE task[g]
  BY DEF Begin, TypeOK
<1> QED BY <1>1, <1>2 DEF OnlyTask

LEMMA BeginResetEffect ==
  ASSUME TypeOK, NEW h \in Handler, BeginReset(h)
  PROVE  /\ OnlyTask(h)
         /\ task'[h].pc = "wipeItems" /\ task'[h].op = "reset" /\ task'[h].id = None
         /\ task'[h].env = Absent /\ task'[h].view = EmptyVault /\ task'[h].seen = {}
<1> DEFINE new == [IdleTask EXCEPT !.pc = "wipeItems", !.op = "reset"]
<1>1. /\ new.pc = "wipeItems" /\ new.op = "reset" /\ new.id = None
      /\ new.env = Absent /\ new.view = EmptyVault /\ new.seen = {}
  BY DEF IdleTask
<1>2. \A g \in Handler : task'[g] = IF g = h THEN new ELSE task[g]
  BY DEF BeginReset, TypeOK
<1> QED BY <1>1, <1>2 DEF OnlyTask

\* A handler goes on: all but its stage, or its stage and its copy, stays.
LEMMA StageEffect ==
  ASSUME TypeOK, NEW h \in Handler, NEW pc, task' = [task EXCEPT ![h].pc = pc]
  PROVE  /\ OnlyTask(h) /\ task'[h].pc = pc
         /\ task'[h].op = task[h].op /\ task'[h].id = task[h].id
         /\ task'[h].env = task[h].env /\ task'[h].view = task[h].view
         /\ task'[h].seen = task[h].seen
<1>1. task[h] \in Task
  BY DEF TypeOK
<1>2. PICK new : new = [task[h] EXCEPT !.pc = pc]
  OBVIOUS
<1>3. /\ new.pc = pc /\ new.op = task[h].op /\ new.id = task[h].id
      /\ new.env = task[h].env /\ new.view = task[h].view /\ new.seen = task[h].seen
  BY <1>1, <1>2 DEF Task
<1>4. \A g \in Handler : task'[g] = IF g = h THEN new ELSE task[g]
  BY <1>2 DEF TypeOK
<1> QED BY <1>3, <1>4 DEF OnlyTask

LEMMA LoadVaultEffect ==
  ASSUME TypeOK, NEW h \in Handler, LoadVault(h)
  PROVE  /\ OnlyTask(h) /\ task[h].pc = "loadVault" /\ task'[h].pc = "writeVault"
         /\ task'[h].op = task[h].op /\ task'[h].id = task[h].id
         /\ task'[h].env = task[h].env /\ task'[h].view = vault
         /\ task'[h].seen = task[h].seen
<1>1. task[h] \in Task
  BY DEF TypeOK
<1>2. PICK new : new = [task[h] EXCEPT !.pc = "writeVault", !.view = vault]
  OBVIOUS
<1>3. /\ new.pc = "writeVault" /\ new.op = task[h].op /\ new.id = task[h].id
      /\ new.env = task[h].env /\ new.view = vault /\ new.seen = task[h].seen
  BY <1>1, <1>2 DEF Task
<1>4. \A g \in Handler : task'[g] = IF g = h THEN new ELSE task[g]
  BY <1>2 DEF TypeOK, LoadVault
<1> QED BY <1>3, <1>4 DEF OnlyTask, LoadVault

LEMMA LoadQueueEffect ==
  ASSUME TypeOK, NEW h \in Handler, LoadQueue(h)
  PROVE  /\ OnlyTask(h) /\ task[h].pc = "loadQueue" /\ task'[h].pc = "writeQueue"
         /\ task'[h].op = task[h].op /\ task'[h].id = task[h].id
         /\ task'[h].env = task[h].env /\ task'[h].view = task[h].view
         /\ task'[h].seen = queue
<1>1. task[h] \in Task
  BY DEF TypeOK
<1>2. PICK new : new = [task[h] EXCEPT !.pc = "writeQueue", !.seen = queue]
  OBVIOUS
<1>3. /\ new.pc = "writeQueue" /\ new.op = task[h].op /\ new.id = task[h].id
      /\ new.env = task[h].env /\ new.view = task[h].view /\ new.seen = queue
  BY <1>1, <1>2 DEF Task
<1>4. \A g \in Handler : task'[g] = IF g = h THEN new ELSE task[g]
  BY <1>2 DEF TypeOK, LoadQueue
<1> QED BY <1>3, <1>4 DEF OnlyTask, LoadQueue

LEMMA TaskIdle ==
  ASSUME TypeOK, NEW h \in Handler, task' = [task EXCEPT ![h] = IdleTask]
  PROVE  OnlyTask(h) /\ task'[h] = IdleTask
  BY DEF TypeOK, OnlyTask

\* The envelope goes under its id; of the same storage key, what the handler
\* read comes back; the other key is not touched.
LEMMA WriteVaultEffect ==
  ASSUME TypeOK, TaskShape, NEW h \in Handler, WriteVault(h)
  PROVE  /\ OnlyTask(h) /\ task[h].pc = "writeVault"
         /\ task[h].id \in Id /\ vault'[task[h].id] = task[h].env
         /\ \A i \in Id : i # task[h].id => vault'[i] \in {vault[i], task[h].view[i]}
         /\ task[h].op = "touch" => task'[h] = IdleTask
         /\ task[h].op # "touch" =>
              /\ task'[h].pc = "loadQueue"
              /\ task'[h].op = task[h].op /\ task'[h].id = task[h].id
              /\ task'[h].env = task[h].env /\ task'[h].view = task[h].view
              /\ task'[h].seen = task[h].seen
<1> DEFINE t == task[h]
<1>1. t \in Task /\ t.pc = "writeVault" /\ t.id \in Id
  BY DEF TypeOK, WriteVault, TaskShape
<1>2. PICK w : w = [t.view EXCEPT ![t.id] = t.env]
  OBVIOUS
<1>3. \A i \in Id : w[i] = IF i = t.id THEN t.env ELSE t.view[i]
  BY <1>1, <1>2 DEF Task, Vault
<1>4. vault' = Overwrite(Portion(t.id), w)
  BY <1>2 DEF WriteVault
<1>5. \A i \in Id : vault'[i] = IF i \in Portion(t.id) THEN w[i] ELSE vault[i]
  BY <1>4 DEF Overwrite
<1>6. t.id \in Portion(t.id)
  BY <1>1 DEF Portion, Id
<1>7. CASE t.op = "touch"
  <2>1. task' = [task EXCEPT ![h] = IdleTask]
    BY <1>7 DEF WriteVault
  <2> QED BY <2>1, <1>1, <1>3, <1>5, <1>6, <1>7, TaskIdle
<1>8. CASE t.op # "touch"
  <2>1. task' = [task EXCEPT ![h].pc = "loadQueue"]
    BY <1>8 DEF WriteVault
  <2>2. /\ OnlyTask(h) /\ task'[h].pc = "loadQueue"
        /\ task'[h].op = task[h].op /\ task'[h].id = task[h].id
        /\ task'[h].env = task[h].env /\ task'[h].view = task[h].view
        /\ task'[h].seen = task[h].seen
    BY <2>1, StageEffect
  <2> QED BY <2>2, <1>1, <1>3, <1>5, <1>6, <1>8
<1> QED BY <1>7, <1>8

\* Sync r goes on: all but its stage stays.
LEMMA RunStageEffect ==
  ASSUME TypeOK, NEW r \in Run, NEW pc, run' = [run EXCEPT ![r].pc = pc]
  PROVE  /\ OnlyRun(r) /\ run'[r].pc = pc
         /\ run'[r].drain = run[r].drain /\ run'[r].key = run[r].key
         /\ run'[r].snap = run[r].snap /\ run'[r].tombs = run[r].tombs
         /\ run'[r].deletedAt = run[r].deletedAt
         /\ run'[r].from = run[r].from /\ run'[r].upto = run[r].upto
<1>1. run[r] \in SyncRun
  BY DEF TypeOK
<1>2. PICK new : new = [run[r] EXCEPT !.pc = pc]
  OBVIOUS
<1>3. /\ new.pc = pc /\ new.drain = run[r].drain /\ new.key = run[r].key
      /\ new.snap = run[r].snap /\ new.tombs = run[r].tombs
      /\ new.deletedAt = run[r].deletedAt
      /\ new.from = run[r].from /\ new.upto = run[r].upto
  BY <1>1, <1>2 DEF SyncRun
<1>4. \A q \in Run : run'[q] = IF q = r THEN new ELSE run[q]
  BY <1>2 DEF TypeOK
<1> QED BY <1>3, <1>4 DEF OnlyRun

LEMMA ReadQueueEffect ==
  ASSUME TypeOK, NEW r \in Run, ReadQueue(r)
  PROVE  /\ OnlyRun(r) /\ run[r].pc = "readQueue" /\ run'[r].pc = "readKeys"
         /\ run'[r].drain = run[r].drain /\ run'[r].key = run[r].key
         /\ run'[r].snap = run[r].snap /\ run'[r].tombs = Deletes(queue)
         /\ run'[r].deletedAt = clock
         /\ run'[r].from = run[r].from /\ run'[r].upto = run[r].upto
<1>1. run[r] \in SyncRun
  BY DEF TypeOK
<1>2. PICK new : new = [run[r] EXCEPT !.pc = "readKeys", !.tombs = Deletes(queue),
                                      !.deletedAt = clock]
  OBVIOUS
<1>3. /\ new.pc = "readKeys" /\ new.drain = run[r].drain /\ new.key = run[r].key
      /\ new.snap = run[r].snap /\ new.tombs = Deletes(queue)
      /\ new.deletedAt = clock
      /\ new.from = run[r].from /\ new.upto = run[r].upto
  BY <1>1, <1>2 DEF SyncRun
<1>4. \A q \in Run : run'[q] = IF q = r THEN new ELSE run[q]
  BY <1>2 DEF TypeOK, ReadQueue
<1> QED BY <1>3, <1>4 DEF OnlyRun, ReadQueue

LEMMA KeysEffect ==
  ASSUME TypeOK, NEW r \in Run, run' = [run EXCEPT ![r].pc = "loadItems", ![r].key = keychain]
  PROVE  /\ OnlyRun(r) /\ run'[r].pc = "loadItems"
         /\ run'[r].drain = run[r].drain /\ run'[r].key = keychain
         /\ run'[r].snap = run[r].snap /\ run'[r].tombs = run[r].tombs
         /\ run'[r].deletedAt = run[r].deletedAt
         /\ run'[r].from = run[r].from /\ run'[r].upto = run[r].upto
<1>1. run[r] \in SyncRun
  BY DEF TypeOK
<1>2. PICK new : new = [run[r] EXCEPT !.pc = "loadItems", !.key = keychain]
  OBVIOUS
<1>3. /\ new.pc = "loadItems" /\ new.drain = run[r].drain /\ new.key = keychain
      /\ new.snap = run[r].snap /\ new.tombs = run[r].tombs
      /\ new.deletedAt = run[r].deletedAt
      /\ new.from = run[r].from /\ new.upto = run[r].upto
  BY <1>1, <1>2 DEF SyncRun
<1>4. \A q \in Run : run'[q] = IF q = r THEN new ELSE run[q]
  BY <1>2 DEF TypeOK
<1> QED BY <1>3, <1>4 DEF OnlyRun

\* One storage key is read: the sync's copy of those ids is what is stored.
LEMMA LoadItemsEffect ==
  ASSUME TypeOK, NEW r \in Run, LoadItems(r)
  PROVE  /\ OnlyRun(r) /\ run[r].pc = "loadItems" /\ run'[r].pc = "loadIdentities"
         /\ run'[r].drain = run[r].drain /\ run'[r].key = run[r].key
         /\ run'[r].tombs = run[r].tombs /\ run'[r].deletedAt = run[r].deletedAt
         /\ run'[r].from = run[r].from /\ run'[r].upto = run[r].upto
         /\ \A i \in Id : run'[r].snap[i] =
              IF i \in Item THEN (IF vault[i].by = run[r].key THEN vault[i] ELSE Absent)
              ELSE run[r].snap[i]
<1>1. run[r] \in SyncRun
  BY DEF TypeOK
<1>2. PICK g : g = Gathered(run[r], Item)
  OBVIOUS
<1>3. PICK new : new = [run[r] EXCEPT !.pc = "loadIdentities", !.snap = g]
  OBVIOUS
<1>4. /\ new.pc = "loadIdentities" /\ new.drain = run[r].drain /\ new.key = run[r].key
      /\ new.snap = g /\ new.tombs = run[r].tombs
      /\ new.deletedAt = run[r].deletedAt
      /\ new.from = run[r].from /\ new.upto = run[r].upto
  BY <1>1, <1>3 DEF SyncRun
<1>5. run[r].pc = "loadItems" /\ \A q \in Run : run'[q] = IF q = r THEN new ELSE run[q]
  BY <1>2, <1>3 DEF TypeOK, LoadItems
<1>6. \A i \in Id : g[i] =
        IF i \in Item THEN (IF vault[i].by = run[r].key THEN vault[i] ELSE Absent)
        ELSE run[r].snap[i]
  BY <1>2 DEF Gathered, Ours
<1>7. OnlyRun(r) /\ run'[r] = new
  BY <1>5 DEF OnlyRun
<1> QED BY <1>4, <1>5, <1>6, <1>7

LEMMA LoadIdentitiesEffect ==
  ASSUME TypeOK, NEW r \in Run, LoadIdentities(r)
  PROVE  /\ OnlyRun(r) /\ run[r].pc = "loadIdentities" /\ run'[r].pc = "loadCursor"
         /\ run'[r].drain = run[r].drain /\ run'[r].key = run[r].key
         /\ run'[r].tombs = run[r].tombs /\ run'[r].deletedAt = run[r].deletedAt
         /\ run'[r].from = run[r].from /\ run'[r].upto = run[r].upto
         /\ \A i \in Id : run'[r].snap[i] =
              IF i \in Identity THEN (IF vault[i].by = run[r].key THEN vault[i] ELSE Absent)
              ELSE run[r].snap[i]
<1>1. run[r] \in SyncRun
  BY DEF TypeOK
<1>2. PICK g : g = Gathered(run[r], Identity)
  OBVIOUS
<1>3. PICK new : new = [run[r] EXCEPT !.pc = "loadCursor", !.snap = g]
  OBVIOUS
<1>4. /\ new.pc = "loadCursor" /\ new.drain = run[r].drain /\ new.key = run[r].key
      /\ new.snap = g /\ new.tombs = run[r].tombs
      /\ new.deletedAt = run[r].deletedAt
      /\ new.from = run[r].from /\ new.upto = run[r].upto
  BY <1>1, <1>3 DEF SyncRun
<1>5. run[r].pc = "loadIdentities" /\ \A q \in Run : run'[q] = IF q = r THEN new ELSE run[q]
  BY <1>2, <1>3 DEF TypeOK, LoadIdentities
<1>6. \A i \in Id : g[i] =
        IF i \in Identity THEN (IF vault[i].by = run[r].key THEN vault[i] ELSE Absent)
        ELSE run[r].snap[i]
  BY <1>2 DEF Gathered, Ours
<1>7. OnlyRun(r) /\ run'[r] = new
  BY <1>5 DEF OnlyRun
<1> QED BY <1>4, <1>5, <1>6, <1>7

LEMMA LoadCursorEffect ==
  ASSUME TypeOK, NEW r \in Run, LoadCursor(r)
  PROVE  /\ OnlyRun(r) /\ run[r].pc = "loadCursor" /\ run'[r].pc = "push"
         /\ run'[r].drain = run[r].drain /\ run'[r].key = run[r].key
         /\ run'[r].snap = run[r].snap /\ run'[r].tombs = run[r].tombs
         /\ run'[r].deletedAt = run[r].deletedAt
         /\ run'[r].from = cursor /\ run'[r].upto = run[r].upto
<1>1. run[r] \in SyncRun
  BY DEF TypeOK
<1>2. PICK new : new = [run[r] EXCEPT !.pc = "push", !.from = cursor]
  OBVIOUS
<1>3. /\ new.pc = "push" /\ new.drain = run[r].drain /\ new.key = run[r].key
      /\ new.snap = run[r].snap /\ new.tombs = run[r].tombs
      /\ new.deletedAt = run[r].deletedAt
      /\ new.from = cursor /\ new.upto = run[r].upto
  BY <1>1, <1>2 DEF SyncRun
<1>4. \A q \in Run : run'[q] = IF q = r THEN new ELSE run[q]
  BY <1>2 DEF TypeOK, LoadCursor
<1> QED BY <1>3, <1>4 DEF OnlyRun, LoadCursor

LEMMA PullEffect ==
  ASSUME TypeOK, NEW r \in Run, Pull(r)
  PROVE  /\ OnlyRun(r) /\ run[r].pc = "pull" /\ run'[r].pc = "saveCursor"
         /\ run'[r].drain = run[r].drain /\ run'[r].key = run[r].key
         /\ run'[r].snap = Merged(run[r]) /\ run'[r].tombs = run[r].tombs
         /\ run'[r].deletedAt = run[r].deletedAt
         /\ run'[r].from = run[r].from /\ run'[r].upto = serverSeq
<1>1. run[r] \in SyncRun
  BY DEF TypeOK
<1>2. PICK new : new = [run[r] EXCEPT !.pc = "saveCursor", !.snap = Merged(run[r]),
                                      !.upto = serverSeq]
  OBVIOUS
<1>3. /\ new.pc = "saveCursor" /\ new.drain = run[r].drain /\ new.key = run[r].key
      /\ new.snap = Merged(run[r]) /\ new.tombs = run[r].tombs
      /\ new.deletedAt = run[r].deletedAt
      /\ new.from = run[r].from /\ new.upto = serverSeq
  BY <1>1, <1>2 DEF SyncRun
<1>4. \A q \in Run : run'[q] = IF q = r THEN new ELSE run[q]
  BY <1>2 DEF TypeOK, Pull
<1> QED BY <1>3, <1>4 DEF OnlyRun, Pull

\* A sync starts, ends or is given up: it has gathered nothing.
Blanked(r) ==
  /\ OnlyRun(r)
  /\ run'[r].pc \in Fresh /\ run'[r].snap = EmptyVault /\ run'[r].tombs = {}
  /\ run'[r].deletedAt = 0 /\ run'[r].from = 0 /\ run'[r].upto = 0
  /\ run'[r].drain => run'[r].pc = "readQueue"

LEMMA BlankedEffect ==
  ASSUME TypeOK, NEW r \in Run,
         run' = [run EXCEPT ![r] = IdleRun] \/ run' = [run EXCEPT ![r] = Drain]
           \/ run' = [run EXCEPT ![r] = PlainRun]
  PROVE  Blanked(r)
<1>1. PICK new \in {IdleRun, Drain, PlainRun} : run' = [run EXCEPT ![r] = new]
  OBVIOUS
<1>2. \A q \in Run : run'[q] = IF q = r THEN new ELSE run[q]
  BY <1>1 DEF TypeOK
<1>3. /\ new.pc \in Fresh /\ new.snap = EmptyVault /\ new.tombs = {}
      /\ new.deletedAt = 0 /\ new.from = 0 /\ new.upto = 0
      /\ new.drain => new.pc = "readQueue"
  <2>1. CASE new = IdleRun
    BY <2>1 DEF IdleRun, Fresh
  <2>2. CASE new = Drain
    BY <2>2 DEF IdleRun, Drain, Fresh
  <2>3. CASE new = PlainRun
    BY <2>3 DEF IdleRun, PlainRun, Fresh
  <2> QED BY <2>1, <2>2, <2>3
<1> QED BY <1>2, <1>3 DEF Blanked, OnlyRun

LEMMA AfterDrainEffect ==
  ASSUME TypeOK, NEW r \in Run, run' = [run EXCEPT ![r] = AfterDrain(r)]
  PROVE  Blanked(r)
  BY BlankedEffect DEF AfterDrain

LEMMA FailsEffect ==
  ASSUME TypeOK, NEW r \in Run, Returns(r, FALSE)
  PROVE  Blanked(r)
  BY BlankedEffect, AfterDrainEffect DEF Returns

LEMMA SucceedsEffect ==
  ASSUME TypeOK, NEW r \in Run, Returns(r, TRUE)
  PROVE  /\ OnlyRun(r)
         /\ run[r].drain =>
              /\ run'[r].pc = "clearQueue" /\ run'[r].drain
              /\ run'[r].key = run[r].key
              /\ run'[r].snap = run[r].snap /\ run'[r].tombs = run[r].tombs
              /\ run'[r].deletedAt = run[r].deletedAt
              /\ run'[r].from = run[r].from /\ run'[r].upto = run[r].upto
         /\ ~run[r].drain => Blanked(r) /\ run'[r].pc = "idle"
<1>1. CASE run[r].drain
  <2>1. run' = [run EXCEPT ![r].pc = "clearQueue"]
    BY <1>1 DEF Returns
  <2> QED BY <1>1, <2>1, RunStageEffect
<1>2. CASE ~run[r].drain
  <2>1. run' = [run EXCEPT ![r] = IdleRun]
    BY <1>2 DEF Returns
  <2>2. run'[r] = IdleRun /\ IdleRun.pc = "idle"
    BY <2>1 DEF TypeOK, IdleRun
  <2> QED BY <1>2, <2>1, <2>2, BlankedEffect DEF Blanked
<1> QED BY <1>1, <1>2

-----------------------------------------------------------------------------
(***************************************************************************)
(* Always: what envelopes, queue entries and records are made of.  An      *)
(* envelope has a signer exactly if it is there at all, its time is past,  *)
(* and its id was given out; only what may be deleted is deleted; the      *)
(* cursors never run ahead of the server.                                  *)
(***************************************************************************)
Fit(i, e, c, m) ==
  /\ Present(e) <=> e.by # None
  /\ e.at <= c
  /\ Present(e) => i \in m

EntryFit(e, m) == e.id \in m /\ (e.op = "delete" => e.id \in Deletable)

TaskFit(t, c, m) ==
  /\ t.pc = "idle" => t = IdleTask
  /\ t.pc \in Wiping => t.op = "reset"
  /\ t.pc \in Editing \cup Queueing =>
       t.id \in m /\ (t.op = "delete" => t.id \in Deletable)
  /\ t.pc \in Editing => Fit(t.id, t.env, c, m) /\ (t.op = "delete" <=> t.env = Absent)
  /\ \A i \in Id : Fit(i, t.view[i], c, m)
  /\ \A e \in t.seen : EntryFit(e, m)

RunFit(s, c, m, n) ==
  /\ \A i \in Id : Fit(i, s.snap[i], c, m)
  /\ s.tombs \subseteq m /\ s.tombs \subseteq Deletable
  /\ s.deletedAt <= c
  /\ s.from <= n /\ s.upto <= n

RecordFit(i, rec, c, m, n) ==
  /\ rec.at <= c /\ rec.seq <= n
  /\ rec.seq = 0 => rec = NoRecord
  /\ rec.seq > 0 => i \in m
  /\ rec.dead => i \in Deletable
  /\ ~rec.dead /\ rec.seq > 0 => rec.by # None /\ rec.at > 0

Fits(v, sv, q, cur, ts, rs, c, m, n) ==
  /\ \A i \in Id : Fit(i, v[i], c, m)
  /\ \A i \in Id : RecordFit(i, sv[i], c, m, n)
  /\ \A e \in q : EntryFit(e, m)
  /\ cur <= n
  /\ \A h \in Handler : TaskFit(ts[h], c, m)
  /\ \A r \in Run : RunFit(rs[r], c, m, n)

Always == Fits(vault, server, queue, cursor, task, run, clock, minted, serverSeq)

\* Time, the ids given out and the server's counter only grow.
Grows == clock <= clock' /\ minted \subseteq minted' /\ serverSeq <= serverSeq'

LEMMA FitMono ==
  ASSUME NEW i, NEW e \in Envelope, NEW c \in Nat, NEW d \in Nat, NEW m, NEW n,
         c <= d, m \subseteq n, Fit(i, e, c, m)
  PROVE  Fit(i, e, d, n)
  BY DEF Fit, Envelope

LEMMA AbsentFits ==
  ASSUME NEW i, NEW c \in Nat, NEW m
  PROVE  Fit(i, Absent, c, m) /\ ~Present(Absent) /\ Absent \in Envelope
  BY DEF Fit, Absent, Present, Envelope, Signer

LEMMA BlankFits ==
  ASSUME NEW c \in Nat, NEW m
  PROVE  \A i \in Id : Fit(i, EmptyVault[i], c, m)
  BY AbsentFits DEF EmptyVault

LEMMA IdleFits ==
  ASSUME NEW c \in Nat, NEW m
  PROVE  TaskFit(IdleTask, c, m)
<1>1. /\ IdleTask.pc = "idle" /\ IdleTask.view = EmptyVault /\ IdleTask.seen = {}
  BY DEF IdleTask
<1> QED BY <1>1, BlankFits DEF TaskFit, Wiping, Editing, Queueing

LEMMA TaskFitMono ==
  ASSUME NEW t \in Task, NEW c \in Nat, NEW d \in Nat, NEW m, NEW n,
         c <= d, m \subseteq n, TaskFit(t, c, m)
  PROVE  TaskFit(t, d, n)
<1>1. \A i \in Id : t.view[i] \in Envelope
  BY DEF Task, Vault
<1>2. \A i \in Id : Fit(i, t.view[i], d, n)
  BY <1>1, FitMono DEF TaskFit
<1>3. t.pc \in Editing => Fit(t.id, t.env, d, n)
  BY FitMono DEF TaskFit, Task
<1>4. \A e \in t.seen : EntryFit(e, n)
  BY DEF TaskFit, EntryFit
<1> QED BY <1>2, <1>3, <1>4 DEF TaskFit

LEMMA RunFitMono ==
  ASSUME NEW s \in SyncRun, NEW c \in Nat, NEW d \in Nat, NEW m, NEW n,
         NEW x \in Nat, NEW y \in Nat,
         c <= d, m \subseteq n, x <= y, RunFit(s, c, m, x)
  PROVE  RunFit(s, d, n, y)
<1>1. \A i \in Id : s.snap[i] \in Envelope
  BY DEF SyncRun, Vault
<1>2. \A i \in Id : Fit(i, s.snap[i], d, n)
  BY <1>1, FitMono DEF RunFit
<1> QED BY <1>2 DEF RunFit, SyncRun

LEMMA StillFits ==
  ASSUME TypeOK, TypeOK', Always, Grows
  PROVE  Fits(vault, server, queue, cursor, task, run, clock', minted', serverSeq')
<1>0. /\ clock \in Nat /\ clock' \in Nat /\ serverSeq \in Nat /\ serverSeq' \in Nat
      /\ cursor \in Nat
  BY DEF TypeOK
<1>1. \A i \in Id : Fit(i, vault[i], clock', minted')
  <2>1. \A i \in Id : vault[i] \in Envelope
    BY DEF TypeOK, Vault
  <2> QED BY <1>0, <2>1, FitMono DEF Always, Fits, Grows
<1>2. \A i \in Id : RecordFit(i, server[i], clock', minted', serverSeq')
  <2> SUFFICES ASSUME NEW i \in Id
               PROVE  RecordFit(i, server[i], clock', minted', serverSeq')
    OBVIOUS
  <2>1. server[i].at \in Nat /\ server[i].seq \in Nat
    BY DEF TypeOK, Record
  <2>2. RecordFit(i, server[i], clock, minted, serverSeq)
    BY DEF Always, Fits
  <2> QED BY <1>0, <2>1, <2>2 DEF RecordFit, Grows
<1>3. \A e \in queue : EntryFit(e, minted')
  BY DEF Always, Fits, Grows, EntryFit
<1>4. cursor <= serverSeq'
  BY <1>0 DEF Always, Fits, Grows
<1>5. \A h \in Handler : TaskFit(task[h], clock', minted')
  BY <1>0, TaskFitMono DEF Always, Fits, Grows, TypeOK
<1>6. \A r \in Run : RunFit(run[r], clock', minted', serverSeq')
  BY <1>0, RunFitMono DEF Always, Fits, Grows, TypeOK
<1> QED BY <1>1, <1>2, <1>3, <1>4, <1>5, <1>6 DEF Fits

LEMMA TaskMoved ==
  ASSUME TypeOK, TypeOK', Always, Grows, NEW h \in Handler, OnlyTask(h),
         run' = run, server' = server, cursor' \in {cursor, 0},
         \A i \in Id : Fit(i, vault'[i], clock', minted'),
         \A e \in queue' : EntryFit(e, minted'),
         TaskFit(task'[h], clock', minted')
  PROVE  Always'
<1>1. Fits(vault, server, queue, cursor, task, run, clock', minted', serverSeq')
  BY StillFits
<1>2. \A g \in Handler : TaskFit(task'[g], clock', minted')
  BY <1>1 DEF Fits, OnlyTask
<1>3. cursor' <= serverSeq'
  BY <1>1 DEF Fits, TypeOK
<1> QED BY <1>1, <1>2, <1>3 DEF Always, Fits

LEMMA RunMoved ==
  ASSUME TypeOK, TypeOK', Always, Grows, NEW r \in Run, OnlyRun(r),
         task' = task, cursor' <= serverSeq',
         \A i \in Id : Fit(i, vault'[i], clock', minted'),
         \A i \in Id : RecordFit(i, server'[i], clock', minted', serverSeq'),
         \A e \in queue' : EntryFit(e, minted'),
         RunFit(run'[r], clock', minted', serverSeq')
  PROVE  Always'
<1>1. Fits(vault, server, queue, cursor, task, run, clock', minted', serverSeq')
  BY StillFits
<1>2. \A q \in Run : RunFit(run'[q], clock', minted', serverSeq')
  BY <1>1 DEF Fits, OnlyRun
<1> QED BY <1>1, <1>2 DEF Always, Fits

LEMMA StepGrows ==
  ASSUME TypeOK, [Next]_vars
  PROVE  Grows
<1> USE DEF disk, memory, external
<1>0. clock \in Nat /\ serverSeq \in Nat
  BY DEF TypeOK
<1>1. ASSUME clock' = clock, minted' = minted, serverSeq' = serverSeq
      PROVE  Grows
  BY <1>0, <1>1 DEF Grows
<1>2. CASE \E h \in Handler : TaskBegins(h)
  <2>1. /\ clock' \in {clock, clock + 1} /\ minted \subseteq minted'
        /\ serverSeq' = serverSeq
    BY <1>2 DEF TaskBegins, BeginCreate, BeginUpdate, BeginTouch, BeginDelete, BeginReset
  <2> QED BY <1>0, <2>1 DEF Grows
<1>3. CASE \E h \in Handler : TaskStep(h)
  BY <1>1, <1>3 DEF TaskStep, LoadVault, WriteVault, LoadQueue, WriteQueue,
                    WipeItems, WipeIdentities, WipeQueue, WipeCursor
<1>4. CASE StartTimer \/ StartManual \/ \E a \in Account : InstallKeychain(a)
  BY <1>1, <1>4 DEF StartTimer, StartManual, InstallKeychain
<1>5. CASE \E r \in Run : SyncStep(r)
  <2>1. CASE \E r \in Run : Push(r)
    <3>1. serverSeq' \in {serverSeq, serverSeq + 1} /\ clock' = clock /\ minted' = minted
      BY <1>0, <2>1 DEF Push
    <3> QED BY <1>0, <3>1 DEF Grows
  <2>2. CASE ~\E r \in Run : Push(r)
    BY <1>1, <1>5, <2>2 DEF SyncStep, ReadQueue, ReadKeys, LoadItems, LoadIdentities, LoadCursor, SaveEcho, Pull, SaveCursor,
                      SaveItems, SaveIdentities, ClearQueue
  <2> QED BY <2>1, <2>2
<1>6. CASE Remote
  <2>1. /\ clock' \in {clock, clock + 1} /\ minted \subseteq minted'
        /\ serverSeq' = serverSeq + 1
    BY <1>6 DEF Remote, RemoteWrite, RemoteDelete
  <2> QED BY <1>0, <2>1 DEF Grows
<1>7. CASE Fault
  BY <1>1, <1>7 DEF Fault, Offline, SyncStorageFails, QueueStorageFails,
                    TaskStorageFails, Evict
<1>8. CASE UNCHANGED vars
  BY <1>1, <1>8 DEF vars
<1> QED BY <1>2, <1>3, <1>4, <1>5, <1>6, <1>7, <1>8 DEF Next

LEMMA AlwaysInit == Init => Always
<1> SUFFICES ASSUME Init PROVE Always
  OBVIOUS
<1>1. \A i \in Id : Fit(i, vault[i], clock, minted)
  BY BlankFits DEF Init
<1>2. \A i \in Id : RecordFit(i, server[i], clock, minted, serverSeq)
  BY DEF Init, RecordFit, NoRecord, Id
<1>3. \A h \in Handler : TaskFit(task[h], clock, minted)
  BY IdleFits DEF Init
<1>4. \A r \in Run : RunFit(run[r], clock, minted, serverSeq)
  <2>1. /\ IdleRun.snap = EmptyVault /\ IdleRun.tombs = {} /\ IdleRun.deletedAt = 0
        /\ IdleRun.from = 0 /\ IdleRun.upto = 0
    BY DEF IdleRun
  <2> QED BY <2>1, BlankFits DEF Init, RunFit
<1> QED BY <1>1, <1>2, <1>3, <1>4 DEF Always, Fits, Init

LEMMA AlwaysBegins ==
  ASSUME TypeOK, TypeOK', Always, Grows, NEW h \in Handler, TaskBegins(h)
  PROVE  Always'
<1> USE DEF disk, memory, external
<1>0. /\ clock \in Nat /\ clock' \in Nat /\ keychain \in Signer
      /\ Fits(vault, server, queue, cursor, task, run, clock', minted', serverSeq')
  BY StillFits DEF TypeOK
<1>a. ASSUME NEW op \in {"create", "update", "touch", "delete"}, NEW i \in Id,
             NEW e \in Envelope, Begin(h, op, i, e),
             Fit(i, e, clock', minted'), i \in minted',
             op = "delete" <=> e = Absent, op = "delete" => i \in Deletable,
             UNCHANGED <<disk, run, server>>
      PROVE  Always'
  <2>1. /\ OnlyTask(h)
        /\ task'[h].pc = "loadVault" /\ task'[h].op = op /\ task'[h].id = i
        /\ task'[h].env = e /\ task'[h].view = EmptyVault /\ task'[h].seen = {}
    BY <1>a, BeginEffect
  <2>2. TaskFit(task'[h], clock', minted')
    BY <1>0, <1>a, <2>1, BlankFits DEF TaskFit, Wiping, Editing, Queueing
  <2> QED BY <1>0, <1>a, <2>1, <2>2, TaskMoved DEF Fits
<1>s. clock + 1 \in Nat /\ Sealed(keychain).at = clock + 1
      /\ Sealed(keychain).by = keychain /\ Sealed(keychain) \in Envelope
  BY <1>0 DEF Sealed, Envelope
<1>1. ASSUME NEW i \in Id, BeginCreate(h, i) PROVE Always'
  <2>1. /\ clock' = clock + 1 /\ keychain # None /\ i \in minted'
        /\ Begin(h, "create", i, Sealed(keychain))
        /\ UNCHANGED <<disk, run, server>>
    BY <1>1 DEF BeginCreate
  <2>2. Fit(i, Sealed(keychain), clock', minted') /\ Sealed(keychain) # Absent
    BY <1>0, <1>s, <2>1 DEF Fit, Present, Absent
  <2> QED BY <1>a, <1>s, <2>1, <2>2
<1>2. ASSUME NEW i \in Id, BeginUpdate(h, i) PROVE Always'
  <2>1. /\ clock' = clock + 1 /\ keychain # None
        /\ vault[i].by = keychain \/ i \in minted
        /\ minted' = minted /\ Begin(h, "update", i, Sealed(keychain))
        /\ UNCHANGED <<disk, run, server>>
    BY <1>2 DEF BeginUpdate
  <2>2. i \in minted'
    BY <1>0, <2>1 DEF Fits, Fit
  <2>3. Fit(i, Sealed(keychain), clock', minted') /\ Sealed(keychain) # Absent
    BY <1>0, <1>s, <2>1, <2>2 DEF Fit, Present, Absent
  <2> QED BY <1>a, <1>s, <2>1, <2>2, <2>3
<1>3. ASSUME NEW i \in Id, BeginTouch(h, i) PROVE Always'
  <2>1. /\ keychain # None /\ vault[i].by = keychain
        /\ minted' = minted /\ Begin(h, "touch", i, vault[i])
        /\ UNCHANGED <<disk, run, server>>
    BY <1>3 DEF BeginTouch
  <2>2. i \in minted' /\ Fit(i, vault[i], clock', minted')
        /\ vault[i] \in Envelope /\ vault[i] # Absent
    BY <1>0, <2>1 DEF Fits, Fit, TypeOK, Vault, Absent
  <2> QED BY <1>a, <2>1, <2>2
<1>4. ASSUME NEW i \in Id, BeginDelete(h, i) PROVE Always'
  <2>1. /\ i \in Deletable /\ i \in minted
        /\ minted' = minted /\ Begin(h, "delete", i, Absent)
        /\ UNCHANGED <<disk, run, server>>
    BY <1>4 DEF BeginDelete
  <2>2. i \in minted'
    BY <2>1
  <2> QED BY <1>0, <1>a, <2>1, <2>2, AbsentFits
<1>5. ASSUME BeginReset(h) PROVE Always'
  <2>1. /\ OnlyTask(h)
        /\ task'[h].pc = "wipeItems" /\ task'[h].op = "reset"
        /\ task'[h].view = EmptyVault /\ task'[h].seen = {}
    BY <1>5, BeginResetEffect
  <2>2. TaskFit(task'[h], clock', minted')
    BY <1>0, <2>1, BlankFits DEF TaskFit, Wiping, Editing, Queueing
  <2>3. UNCHANGED <<vault, queue, cursor, run, server>>
    BY <1>5 DEF BeginReset
  <2> QED BY <1>0, <2>1, <2>2, <2>3, TaskMoved DEF Fits
<1> QED BY <1>1, <1>2, <1>3, <1>4, <1>5 DEF TaskBegins

LEMMA AlwaysTaskStep ==
  ASSUME TypeOK, TypeOK', TaskShape, Always, Grows, NEW h \in Handler, TaskStep(h)
  PROVE  Always'
<1> USE DEF disk, memory, external
<1>0. /\ clock' \in Nat
      /\ Fits(vault, server, queue, cursor, task, run, clock', minted', serverSeq')
  BY StillFits DEF TypeOK
<1>t. TaskFit(task[h], clock', minted') /\ TaskFit(IdleTask, clock', minted')
  BY <1>0, IdleFits DEF Fits
<1>b. \A i \in Id : Fit(i, EmptyVault[i], clock', minted')
  BY <1>0, BlankFits
<1>1. ASSUME LoadVault(h) PROVE Always'
  <2>1. TaskFit(task'[h], clock', minted')
    BY <1>0, <1>1, <1>t, LoadVaultEffect DEF Fits, TaskFit, Wiping, Editing, Queueing
  <2> QED BY <1>0, <1>1, <2>1, LoadVaultEffect, TaskMoved DEF LoadVault, Fits
<1>2. ASSUME WriteVault(h) PROVE Always'
  <2>1. TaskFit(task'[h], clock', minted')
    <3>1. CASE task[h].op = "touch"
      BY <1>2, <1>t, <3>1, WriteVaultEffect
    <3>2. CASE task[h].op # "touch"
      BY <1>2, <1>t, <3>2, WriteVaultEffect DEF TaskFit, Wiping, Editing, Queueing
    <3> QED BY <3>1, <3>2
  <2>2. \A i \in Id : Fit(i, vault'[i], clock', minted')
    <3>1. Fit(task[h].id, task[h].env, clock', minted')
          /\ \A i \in Id : Fit(i, task[h].view[i], clock', minted')
      BY <1>2, <1>t, WriteVaultEffect DEF TaskFit, Editing
    <3> QED BY <1>0, <1>2, <3>1, WriteVaultEffect DEF Fits
  <2>3. UNCHANGED <<queue, cursor, run, server>>
    BY <1>2 DEF WriteVault
  <2> QED BY <1>0, <1>2, <2>1, <2>2, <2>3, WriteVaultEffect, TaskMoved DEF Fits
<1>3. ASSUME LoadQueue(h) PROVE Always'
  <2>1. TaskFit(task'[h], clock', minted')
    BY <1>0, <1>3, <1>t, LoadQueueEffect DEF Fits, TaskFit, Wiping, Editing, Queueing
  <2> QED BY <1>0, <1>3, <2>1, LoadQueueEffect, TaskMoved DEF LoadQueue, Fits
<1>4. ASSUME WriteQueue(h) PROVE Always'
  <2>1. /\ task[h].pc = "writeQueue" /\ queue' = Enqueued(task[h].seen, task[h].op, task[h].id)
        /\ task' = [task EXCEPT ![h] = IdleTask]
        /\ UNCHANGED <<vault, cursor, run, server>>
    BY <1>4 DEF WriteQueue
  <2>2. OnlyTask(h) /\ task'[h] = IdleTask
    BY <2>1, TaskIdle
  <2>3. \A e \in task[h].seen : EntryFit(e, minted')
    BY <1>t DEF TaskFit
  <2>4. task[h].id \in minted' /\ (task[h].op = "delete" => task[h].id \in Deletable)
        /\ task[h].op \in Op
    BY <1>t, <2>1 DEF TaskFit, Queueing, TaskShape
  <2>5. \A e \in queue' : EntryFit(e, minted')
    BY <2>1, <2>3, <2>4 DEF Enqueued, EntryFit, Op
  <2> QED BY <1>0, <1>t, <2>1, <2>2, <2>5, TaskMoved DEF Fits
<1>5. ASSUME NEW pc \in {"wipeIdentities", "wipeQueue", "wipeCursor"},
             task[h].pc \in Wiping, task' = [task EXCEPT ![h].pc = pc],
             \A i \in Id : vault'[i] \in {vault[i], EmptyVault[i]},
             queue' \in {queue, {}}, UNCHANGED <<cursor, run, server>>
      PROVE Always'
  <2>1. TaskFit(task'[h], clock', minted') /\ OnlyTask(h)
    BY <1>5, <1>t, StageEffect DEF TaskFit, Wiping, Editing, Queueing
  <2>2. \A i \in Id : Fit(i, vault'[i], clock', minted')
    BY <1>0, <1>5, <1>b DEF Fits
  <2> QED BY <1>0, <1>5, <2>1, <2>2, TaskMoved DEF Fits
<1>6. ASSUME WipeItems(h) PROVE Always'
  BY <1>5, <1>6 DEF WipeItems, Stage, Overwrite, Wiping
<1>7. ASSUME WipeIdentities(h) PROVE Always'
  BY <1>5, <1>7 DEF WipeIdentities, Stage, Overwrite, Wiping
<1>8. ASSUME WipeQueue(h) PROVE Always'
  BY <1>5, <1>8 DEF WipeQueue, Stage, Wiping
<1>9. ASSUME WipeCursor(h) PROVE Always'
  BY <1>0, <1>t, <1>9, TaskIdle, TaskMoved DEF WipeCursor, Fits
<1> QED BY <1>1, <1>2, <1>3, <1>4, <1>6, <1>7, <1>8, <1>9 DEF TaskStep

\* What the server makes of a record it is sent an envelope or a tombstone for.
LEMMA AcceptFits ==
  ASSUME NEW i \in Id, NEW rec \in Record, NEW env \in Envelope, NEW c \in Nat,
         NEW m, NEW n \in Nat, RecordFit(i, rec, c, m, n), Fit(i, env, c, m)
  PROVE  /\ RecordFit(i, Accept(rec, env, n + 1), c, m, n + 1)
         /\ Accept(rec, env, n + 1) \in Record
  BY DEF Accept, RecordFit, Fit, Record, Envelope, Present

LEMMA BuryFits ==
  ASSUME NEW i \in Deletable, NEW rec \in Record, NEW t \in Nat, NEW c \in Nat,
         NEW m, NEW n \in Nat, RecordFit(i, rec, c, m, n + 1), i \in m, t <= c
  PROVE  RecordFit(i, Bury(rec, t, n + 1), c, m, n + 1)
  BY DEF Bury, RecordFit, Record

LEMMA ReceivedFits ==
  ASSUME TypeOK, Always, NEW s \in SyncRun, RunFit(s, clock, minted, serverSeq),
         NEW i \in Id
  PROVE  RecordFit(i, Received(s.snap, s.tombs, s.deletedAt, serverSeq + 1)[i],
                   clock, minted, serverSeq + 1)
<1>0. /\ s.snap[i] \in Envelope /\ s.deletedAt \in Nat /\ server[i] \in Record
      /\ clock \in Nat /\ serverSeq \in Nat
  BY DEF SyncRun, Vault, TypeOK
<1>1. /\ RecordFit(i, server[i], clock, minted, serverSeq)
      /\ Fit(i, s.snap[i], clock, minted)
  BY DEF Always, Fits, RunFit
<1>2. PICK rec : rec = Accept(server[i], s.snap[i], serverSeq + 1)
  OBVIOUS
<1>3. RecordFit(i, rec, clock, minted, serverSeq + 1) /\ rec \in Record
  BY <1>0, <1>1, <1>2, AcceptFits
<1>4. Received(s.snap, s.tombs, s.deletedAt, serverSeq + 1)[i]
        = IF i \in s.tombs THEN Bury(rec, s.deletedAt, serverSeq + 1) ELSE rec
  BY <1>2 DEF Received
<1>5. i \in s.tombs => i \in Deletable /\ i \in minted /\ s.deletedAt <= clock
  BY DEF RunFit
<1> QED BY <1>0, <1>3, <1>4, <1>5, BuryFits

LEMMA MergedFits ==
  ASSUME TypeOK, Always, NEW s \in SyncRun, RunFit(s, clock, minted, serverSeq),
         NEW i \in Id
  PROVE  Fit(i, Merged(s)[i], clock, minted)
<1>0. /\ s.snap[i] \in Envelope /\ server[i] \in Record
      /\ clock \in Nat /\ serverSeq \in Nat
  BY DEF SyncRun, Vault, TypeOK
<1>1. /\ RecordFit(i, server[i], clock, minted, serverSeq)
      /\ Fit(i, s.snap[i], clock, minted)
  BY DEF Always, Fits, RunFit
<1>2. PICK e : e = MergeOne(i, s.snap[i], server[i], s.key)
  OBVIOUS
<1>3. Merged(s)[i] = IF server[i].seq > s.from THEN e ELSE s.snap[i]
  BY <1>2 DEF Merged
<1>4. \/ e = Absent \/ e = s.snap[i]
      \/ /\ ~server[i].dead /\ server[i].at > s.snap[i].at
         /\ e = [at |-> server[i].at, by |-> server[i].by]
  BY <1>2 DEF MergeOne
<1>5. ~server[i].dead /\ server[i].at > s.snap[i].at => server[i].seq > 0
  BY <1>0, <1>1 DEF RecordFit, NoRecord, Envelope, Record
<1>6. ASSUME ~server[i].dead, server[i].at > s.snap[i].at,
             e = [at |-> server[i].at, by |-> server[i].by]
      PROVE  Fit(i, e, clock, minted)
  BY <1>0, <1>1, <1>5, <1>6 DEF RecordFit, Fit, Present, Record
<1> QED BY <1>0, <1>1, <1>3, <1>4, <1>6, AbsentFits

LEMMA BlankedFits ==
  ASSUME NEW r \in Run, Blanked(r), NEW c \in Nat, NEW m, NEW n \in Nat
  PROVE  RunFit(run'[r], c, m, n) /\ OnlyRun(r)
  BY BlankFits DEF Blanked, RunFit

LEMMA AlwaysBlanked ==
  ASSUME TypeOK, TypeOK', Always, Grows, NEW r \in Run, Blanked(r),
         UNCHANGED <<task, vault, server, queue, cursor>>
  PROVE  Always'
<1>0. /\ clock' \in Nat /\ serverSeq' \in Nat
      /\ Fits(vault, server, queue, cursor, task, run, clock', minted', serverSeq')
  BY StillFits DEF TypeOK
<1>1. RunFit(run'[r], clock', minted', serverSeq')
  BY <1>0, BlankedFits
<1> QED BY <1>0, <1>1, BlankedFits, RunMoved DEF Fits

LEMMA AlwaysSyncStep ==
  ASSUME TypeOK, TypeOK', Always, Grows, NEW r \in Run, SyncStep(r)
  PROVE  Always'
<1> USE DEF disk, memory, external
<1>0. /\ clock' \in Nat /\ serverSeq \in Nat /\ serverSeq' \in Nat /\ run[r] \in SyncRun
      /\ Fits(vault, server, queue, cursor, task, run, clock', minted', serverSeq')
  BY StillFits DEF TypeOK
<1>r. RunFit(run[r], clock', minted', serverSeq')
  BY <1>0 DEF Fits
<1>1. ASSUME ReadQueue(r) PROVE Always'
  <2>1. Deletes(queue) \subseteq minted' /\ Deletes(queue) \subseteq Deletable
    BY <1>0 DEF Fits, EntryFit, Deletes
  <2>2. clock' = clock /\ UNCHANGED <<task, vault, server, queue, cursor>>
    BY <1>1 DEF ReadQueue
  <2>3. RunFit(run'[r], clock', minted', serverSeq')
    BY <1>0, <1>1, <1>r, <2>1, <2>2, ReadQueueEffect DEF RunFit
  <2> QED BY <1>0, <1>1, <2>2, <2>3, ReadQueueEffect, RunMoved DEF Fits
<1>2. ASSUME ReadKeys(r) PROVE Always'
  <2>1. UNCHANGED <<task, vault, server, queue, cursor>>
    BY <1>2 DEF ReadKeys
  <2>2. CASE keychain # None
    <3>1. run' = [run EXCEPT ![r].pc = "loadItems", ![r].key = keychain]
      BY <1>2, <2>2 DEF ReadKeys
    <3>2. RunFit(run'[r], clock', minted', serverSeq') /\ OnlyRun(r)
      BY <1>r, <3>1, KeysEffect DEF RunFit
    <3> QED BY <1>0, <2>1, <3>2, RunMoved DEF Fits
  <2>3. CASE keychain = None
    BY <1>2, <2>1, <2>3, FailsEffect, AlwaysBlanked DEF ReadKeys
  <2> QED BY <2>2, <2>3
<1>3. ASSUME LoadItems(r) \/ LoadIdentities(r) PROVE Always'
  <2>1. UNCHANGED <<task, vault, server, queue, cursor>>
    BY <1>3 DEF LoadItems, LoadIdentities
  <2>2. /\ OnlyRun(r) /\ run'[r].tombs = run[r].tombs
        /\ run'[r].deletedAt = run[r].deletedAt
        /\ run'[r].from = run[r].from /\ run'[r].upto = run[r].upto
    BY <1>3, LoadItemsEffect, LoadIdentitiesEffect
  <2>3. \A i \in Id : run'[r].snap[i] \in {vault[i], Absent, run[r].snap[i]}
    BY <1>3, LoadItemsEffect, LoadIdentitiesEffect
  <2>4. \A i \in Id : Fit(i, run'[r].snap[i], clock', minted')
    BY <1>0, <1>r, <2>3, AbsentFits DEF Fits, RunFit
  <2>5. RunFit(run'[r], clock', minted', serverSeq') /\ OnlyRun(r)
    BY <1>r, <2>2, <2>4 DEF RunFit
  <2> QED BY <1>0, <2>1, <2>5, RunMoved DEF Fits
<1>3c. ASSUME LoadCursor(r) PROVE Always'
  <2>1. UNCHANGED <<task, vault, server, queue, cursor>>
    BY <1>3c DEF LoadCursor
  <2>2. RunFit(run'[r], clock', minted', serverSeq') /\ OnlyRun(r)
    BY <1>0, <1>3c, <1>r, LoadCursorEffect DEF RunFit, Fits
  <2> QED BY <1>0, <2>1, <2>2, RunMoved DEF Fits
<1>4. ASSUME Push(r) PROVE Always'
  <2>1. /\ run' = [run EXCEPT ![r].pc = "saveEcho"]
        /\ server' = Received(run[r].snap, run[r].tombs, run[r].deletedAt, serverSeq + 1)
        /\ serverSeq' = serverSeq + (IF server' = server THEN 0 ELSE 1)
        /\ UNCHANGED <<task, vault, queue, cursor, clock, minted>>
    BY <1>4 DEF Push
  <2>2. RunFit(run'[r], clock', minted', serverSeq') /\ OnlyRun(r)
    BY <1>r, <2>1, RunStageEffect DEF RunFit
  <2>3. \A i \in Id : RecordFit(i, server'[i], clock', minted', serverSeq')
    <3>1. CASE server' = server
      BY <1>0, <3>1 DEF Fits
    <3>2. CASE server' # server
      <4>1. serverSeq' = serverSeq + 1
        BY <1>0, <2>1, <3>2
      <4>2. RunFit(run[r], clock, minted, serverSeq)
        BY DEF Always, Fits
      <4> QED BY <1>0, <2>1, <4>1, <4>2, ReceivedFits
    <3> QED BY <3>1, <3>2
  <2> QED BY <1>0, <2>1, <2>2, <2>3, RunMoved DEF Fits
<1>5. ASSUME SaveEcho(r) PROVE Always'
  <2>1. /\ run' = [run EXCEPT ![r].pc = "pull"] /\ cursor' = run[r].from
        /\ UNCHANGED <<task, vault, server, queue>>
    BY <1>5 DEF SaveEcho
  <2>2. RunFit(run'[r], clock', minted', serverSeq') /\ OnlyRun(r)
        /\ cursor' <= serverSeq'
    BY <1>r, <2>1, RunStageEffect DEF RunFit
  <2> QED BY <1>0, <2>1, <2>2, RunMoved DEF Fits
<1>6. ASSUME Pull(r) PROVE Always'
  <2>1. UNCHANGED <<task, vault, server, queue, cursor, clock, minted, serverSeq>>
    BY <1>6 DEF Pull
  <2>2. \A i \in Id : Fit(i, Merged(run[r])[i], clock', minted')
    BY <1>0, <1>r, <2>1, MergedFits
  <2>3. RunFit(run'[r], clock', minted', serverSeq')
    BY <1>0, <1>6, <1>r, <2>1, <2>2, PullEffect DEF RunFit
  <2> QED BY <1>0, <1>6, <2>1, <2>3, PullEffect, RunMoved DEF Fits
<1>7. ASSUME SaveCursor(r) PROVE Always'
  <2>1. /\ run' = [run EXCEPT ![r].pc = "saveItems"] /\ cursor' = run[r].upto
        /\ UNCHANGED <<task, vault, server, queue>>
    BY <1>7 DEF SaveCursor
  <2>2. RunFit(run'[r], clock', minted', serverSeq') /\ OnlyRun(r)
        /\ cursor' <= serverSeq'
    BY <1>r, <2>1, RunStageEffect DEF RunFit
  <2> QED BY <1>0, <2>1, <2>2, RunMoved DEF Fits
<1>8. ASSUME SaveItems(r) PROVE Always'
  <2>1. /\ run' = [run EXCEPT ![r].pc = "saveIdentities"]
        /\ vault' = Overwrite(Item, run[r].snap)
        /\ UNCHANGED <<task, server, queue, cursor>>
    BY <1>8 DEF SaveItems
  <2>2. RunFit(run'[r], clock', minted', serverSeq') /\ OnlyRun(r)
    BY <1>r, <2>1, RunStageEffect DEF RunFit
  <2>3. \A i \in Id : Fit(i, vault'[i], clock', minted')
    BY <1>0, <1>r, <2>1 DEF Overwrite, RunFit, Fits
  <2> QED BY <1>0, <2>1, <2>2, <2>3, RunMoved DEF Fits
<1>9. ASSUME SaveIdentities(r) PROVE Always'
  <2>1. /\ Returns(r, TRUE) /\ vault' = Overwrite(Identity, run[r].snap)
        /\ UNCHANGED <<task, server, queue, cursor>>
    BY <1>9 DEF SaveIdentities
  <2>2. RunFit(run'[r], clock', minted', serverSeq') /\ OnlyRun(r)
    <3>1. CASE run[r].drain
      BY <1>r, <2>1, <3>1, SucceedsEffect DEF RunFit
    <3>2. CASE ~run[r].drain
      BY <1>0, <2>1, <3>2, SucceedsEffect, BlankedFits
    <3> QED BY <3>1, <3>2
  <2>3. \A i \in Id : Fit(i, vault'[i], clock', minted')
    BY <1>0, <1>r, <2>1 DEF Overwrite, RunFit, Fits
  <2> QED BY <1>0, <2>1, <2>2, <2>3, RunMoved DEF Fits
<1>10. ASSUME ClearQueue(r) PROVE Always'
  <2>1. /\ run' = [run EXCEPT ![r] = AfterDrain(r)] /\ queue' = {}
        /\ UNCHANGED <<task, server, vault, cursor>>
    BY <1>10 DEF ClearQueue
  <2>2. RunFit(run'[r], clock', minted', serverSeq') /\ OnlyRun(r)
    BY <1>0, <2>1, AfterDrainEffect, BlankedFits
  <2> QED BY <1>0, <2>1, <2>2, RunMoved DEF Fits
<1> QED
  BY <1>1, <1>2, <1>3, <1>3c, <1>4, <1>5, <1>6, <1>7, <1>8, <1>9, <1>10 DEF SyncStep

LEMMA AlwaysRemote ==
  ASSUME TypeOK, TypeOK', Always, Grows, Remote
  PROVE  Always'
<1> USE DEF disk, memory, external
<1>0. /\ clock \in Nat /\ serverSeq \in Nat
      /\ Fits(vault, server, queue, cursor, task, run, clock', minted', serverSeq')
  BY StillFits DEF TypeOK
<1>r. \A i \in Id : /\ server[i] \in Record
                    /\ RecordFit(i, server[i], clock, minted, serverSeq)
  BY DEF Always, Fits, TypeOK
<1>a. ASSUME NEW i \in Id, NEW rec, server' = [server EXCEPT ![i] = rec],
             RecordFit(i, rec, clock', minted', serverSeq'),
             UNCHANGED <<disk, memory>>
      PROVE  Always'
  <2>1. \A j \in Id : server'[j] = IF j = i THEN rec ELSE server[j]
    BY <1>a DEF TypeOK
  <2>2. \A j \in Id : RecordFit(j, server'[j], clock', minted', serverSeq')
    BY <1>0, <1>a, <2>1 DEF Fits
  <2> QED BY <1>0, <1>a, <2>2 DEF Fits, Always
<1>1. ASSUME NEW i \in Id, RemoteDelete(i) PROVE Always'
  <2>1. PICK rec : rec = Bury(server[i], clock, serverSeq + 1)
    OBVIOUS
  <2>2. /\ i \in Deletable /\ server[i].seq > 0
        /\ serverSeq' = serverSeq + 1 /\ clock' = clock /\ minted' = minted
        /\ server' = [server EXCEPT ![i] = rec] /\ UNCHANGED <<disk, memory>>
    BY <1>1, <2>1 DEF RemoteDelete
  <2>3. RecordFit(i, server[i], clock', minted', serverSeq')
    BY <1>0 DEF Fits
  <2>4. RecordFit(i, rec, clock', minted', serverSeq')
    <3>1. i \in minted'
      BY <1>r, <2>2 DEF RecordFit
    <3> QED BY <1>0, <1>r, <2>1, <2>2, <2>3, <3>1, BuryFits
  <2> QED BY <1>a, <2>2, <2>4
<1>2. ASSUME NEW i \in Id, NEW a \in Account, RemoteWrite(i, a) PROVE Always'
  <2>1. PICK rec : rec = Accept(server[i], Sealed(a), serverSeq + 1)
    OBVIOUS
  <2>2. /\ i \in minted'
        /\ serverSeq' = serverSeq + 1 /\ clock' = clock + 1
        /\ minted' = minted \cup {i}
        /\ server' = [server EXCEPT ![i] = rec] /\ UNCHANGED <<disk, memory>>
    BY <1>2, <2>1 DEF RemoteWrite
  <2>3. RecordFit(i, server[i], clock', minted', serverSeq)
    BY <1>0, <1>r, <2>2 DEF RecordFit, Record
  <2>4. Fit(i, Sealed(a), clock', minted') /\ Sealed(a) \in Envelope
    BY <1>0, <2>2, ConstantsAssumption DEF Sealed, Fit, Present, Envelope, Signer
  <2>5. RecordFit(i, rec, clock', minted', serverSeq + 1)
    <3>1. clock' \in Nat /\ server[i] \in Record
      BY <1>0, <1>r, <2>2
    <3> QED BY <1>0, <2>1, <2>3, <2>4, <3>1, AcceptFits
  <2> QED BY <1>a, <2>2, <2>5
<1> QED BY <1>1, <1>2 DEF Remote

LEMMA AlwaysFault ==
  ASSUME TypeOK, TypeOK', Always, Grows, Fault
  PROVE  Always'
<1> USE DEF disk, memory, external
<1>0. /\ clock' \in Nat /\ serverSeq' \in Nat
      /\ Fits(vault, server, queue, cursor, task, run, clock', minted', serverSeq')
  BY StillFits DEF TypeOK
<1>1. ASSUME NEW r \in Run,
             Offline(r) \/ SyncStorageFails(r) \/ QueueStorageFails(r)
      PROVE  Always'
  <2>1. Blanked(r)
    BY <1>1, FailsEffect, BlankedEffect DEF Offline, SyncStorageFails, QueueStorageFails
  <2>2. UNCHANGED <<task, vault, server, queue, cursor>>
    BY <1>1 DEF Offline, SyncStorageFails, QueueStorageFails
  <2> QED BY <2>1, <2>2, AlwaysBlanked
<1>2. ASSUME NEW h \in Handler, TaskStorageFails(h) PROVE Always'
  <2>1. /\ task' = [task EXCEPT ![h] = IdleTask]
        /\ UNCHANGED <<vault, server, queue, cursor, run>>
    BY <1>2 DEF TaskStorageFails
  <2> QED BY <1>0, <2>1, TaskIdle, IdleFits, TaskMoved DEF Fits
<1>3. ASSUME Evict PROVE Always'
  <2>1. /\ task' = [h \in Handler |-> IdleTask] /\ run' = [r \in Run |-> IdleRun]
        /\ UNCHANGED <<vault, server, queue, cursor>>
    BY <1>3 DEF Evict
  <2>2. RunFit(IdleRun, clock', minted', serverSeq')
    <3>1. /\ IdleRun.snap = EmptyVault /\ IdleRun.tombs = {} /\ IdleRun.deletedAt = 0
          /\ IdleRun.from = 0 /\ IdleRun.upto = 0
      BY DEF IdleRun
    <3> QED BY <1>0, <3>1, BlankFits DEF RunFit
  <2> QED BY <1>0, <2>1, <2>2, IdleFits DEF Fits, Always
<1> QED BY <1>1, <1>2, <1>3 DEF Fault

LEMMA AlwaysNext ==
  ASSUME IInv, IInv', Always, [Next]_vars
  PROVE  Always'
<1> USE DEF disk, memory, external
<1>0. TypeOK /\ TypeOK' /\ TaskShape /\ Grows
  BY StepGrows DEF IInv
<1>f. Fits(vault, server, queue, cursor, task, run, clock', minted', serverSeq')
  BY <1>0, StillFits
<1>1. ASSUME NEW a \in Account, InstallKeychain(a) PROVE Always'
  BY <1>1, <1>f DEF InstallKeychain, Always
<1>2. CASE StartTimer \/ StartManual
  <2>1. /\ "timer" \in Run /\ "manual" \in Run
        /\ UNCHANGED <<task, vault, server, queue, cursor>>
    BY <1>2 DEF StartTimer, StartManual, Run
  <2>2. Blanked("timer") \/ Blanked("manual")
    BY <1>0, <1>2, <2>1, BlankedEffect DEF StartTimer, StartManual
  <2> QED BY <1>0, <2>1, <2>2, AlwaysBlanked
<1>3. CASE UNCHANGED vars
  BY <1>3, <1>f DEF vars, Always
<1> QED
  BY <1>0, <1>1, <1>2, <1>3, AlwaysBegins, AlwaysTaskStep, AlwaysSyncStep,
     AlwaysRemote, AlwaysFault DEF Next

-----------------------------------------------------------------------------
(***************************************************************************)
(* Order: with no two pieces of work in progress at once, a handler writes *)
(* back what is stored now, and what a sync is about to store differs from *)
(* it only by what the server justifies: a deletion, a newer envelope, the *)
(* removal of another account's.                                           *)
(***************************************************************************)
OneAtATime(ts, rs) ==
  /\ \A h, g \in Handler : ts[h].pc # "idle" /\ ts[g].pc # "idle" => h = g
  /\ \A r, q \in Run : rs[r].pc # "idle" /\ rs[q].pc # "idle" => r = q
  /\ \A h \in Handler, r \in Run : ts[h].pc = "idle" \/ rs[r].pc = "idle"

HandlerKnows(t, v, q, k) ==
  /\ t.pc = "writeVault" => t.view = v
  /\ t.pc = "writeQueue" => t.seen = q
  /\ t.pc \in Editing /\ t.op # "delete" =>
       k # None /\ t.env.by = k /\ t.env.at >= v[t.id].at
  /\ t.pc \in Wiping => k = None

\* Envelope e may replace the one stored, of account a, given the record.
MayTake(a, e, old, rec) ==
  \/ e = old
  \/ e = Absent /\ (rec.dead \/ old.by # a)
  \/ e.by = a /\ (old.by = a => old.at < e.at) /\ e.at <= rec.at

SyncKnows(s, v, sv, q, k) ==
  /\ s.pc \notin Fresh => s.key = k /\ k # None
  /\ s.pc = "loadIdentities" =>
       \A i \in Item : s.snap[i] = IF v[i].by = k THEN v[i] ELSE Absent
  /\ s.pc \in {"loadCursor"} \cup Sending =>
       \A i \in Id : s.snap[i] = IF v[i].by = k THEN v[i] ELSE Absent
  /\ s.pc \in Saving \cup {"saveEcho", "pull"} =>
       \A i \in Id : s.snap[i].at <= sv[i].at
  /\ s.pc \in Saving => \A i \in Id : MayTake(k, s.snap[i], v[i], sv[i])
  /\ s.drain /\ s.pc \notin {"idle", "readQueue"} => s.tombs = Deletes(q)
  /\ s.drain /\ s.pc \in Pushed =>
       \A i \in s.tombs : sv[i].dead \/ sv[i].at > s.deletedAt

Order ==
  Orderly =>
    /\ OneAtATime(task, run)
    /\ \A h \in Handler : HandlerKnows(task[h], vault, queue, keychain)
    /\ \A r \in Run : SyncKnows(run[r], vault, server, queue, keychain)

LEMMA OrderInit == Init => Order
<1> SUFFICES ASSUME Init PROVE Order
  OBVIOUS
<1>1. /\ \A h \in Handler : task[h].pc = "idle"
      /\ \A r \in Run : run[r].pc = "idle"
  BY DEF Init, IdleTask, IdleRun
<1> QED BY <1>1 DEF Order, OneAtATime, HandlerKnows, SyncKnows, Fresh, Saving,
                   Sending, Pushed, Editing, Wiping

LEMMA IdleKnows ==
  ASSUME NEW t, t.pc = "idle", NEW v, NEW q, NEW k
  PROVE  HandlerKnows(t, v, q, k)
  BY DEF HandlerKnows, Editing, Wiping

LEMMA FreshKnows ==
  ASSUME NEW s, s.pc \in Fresh, s.drain => s.pc \in {"idle", "readQueue"},
         NEW v, NEW sv, NEW q, NEW k
  PROVE  SyncKnows(s, v, sv, q, k)
<1>1. s.pc \notin Saving \cup Sending \cup Pushed
  BY DEF Fresh, Saving, Sending, Pushed
<1> QED BY <1>1 DEF SyncKnows, Fresh, Saving, Sending, Pushed

LEMMA IdleSyncKnows ==
  ASSUME NEW s, s.pc = "idle", NEW v, NEW sv, NEW q, NEW k
  PROVE  SyncKnows(s, v, sv, q, k)
  BY FreshKnows DEF Fresh

\* Nothing else is in progress: the handler that moves is all there is to see.
LEMMA HandlerAlone ==
  ASSUME Order, Orderly, allowed' = allowed, NEW h \in Handler, OnlyTask(h),
         run' = run, task[h].pc # "idle" \/ (NoTask /\ NoSync),
         HandlerKnows(task'[h], vault', queue', keychain')
  PROVE  Order'
<1>1. /\ \A r \in Run : run'[r].pc = "idle"
      /\ \A g \in Handler : g # h => task'[g].pc = "idle"
  BY DEF Order, OneAtATime, NoTask, NoSync, OnlyTask
<1>2. OneAtATime(task', run')
  BY <1>1 DEF OneAtATime
<1> QED BY <1>1, <1>2, IdleKnows, IdleSyncKnows DEF Order

LEMMA SyncAlone ==
  ASSUME Order, Orderly, allowed' = allowed, NEW r \in Run, OnlyRun(r),
         task' = task, run[r].pc # "idle" \/ (NoTask /\ NoSync),
         SyncKnows(run'[r], vault', server', queue', keychain')
  PROVE  Order'
<1>1. /\ \A h \in Handler : task'[h].pc = "idle"
      /\ \A q \in Run : q # r => run'[q].pc = "idle"
  BY DEF Order, OneAtATime, NoTask, NoSync, OnlyRun
<1>2. OneAtATime(task', run')
  BY <1>1 DEF OneAtATime
<1> QED BY <1>1, <1>2, IdleKnows, IdleSyncKnows DEF Order

LEMMA AllowedStays == [Next]_vars => allowed' = allowed
<1> SUFFICES ASSUME [Next]_vars PROVE allowed' = allowed
  OBVIOUS
<1> USE DEF disk, memory, external
<1>1. ASSUME NEW h \in Handler, TaskBegins(h) \/ TaskStep(h)
      PROVE  allowed' = allowed
  BY <1>1 DEF TaskBegins, BeginCreate, BeginUpdate, BeginTouch, BeginDelete, BeginReset,
              TaskStep, LoadVault, WriteVault, LoadQueue, WriteQueue,
              WipeItems, WipeIdentities, WipeQueue, WipeCursor
<1>2. ASSUME NEW r \in Run, SyncStep(r) PROVE allowed' = allowed
  BY <1>2 DEF SyncStep, ReadQueue, ReadKeys, LoadItems, LoadIdentities, LoadCursor, Push, SaveEcho, Pull, SaveCursor,
              SaveItems, SaveIdentities, ClearQueue
<1>3. CASE Remote \/ StartTimer \/ StartManual \/ \E a \in Account : InstallKeychain(a)
  BY <1>3 DEF Remote, RemoteWrite, RemoteDelete, StartTimer, StartManual, InstallKeychain
<1>4. CASE Fault
  BY <1>4 DEF Fault, Offline, SyncStorageFails, QueueStorageFails, TaskStorageFails, Evict
<1>5. CASE UNCHANGED vars
  BY <1>5 DEF vars
<1> QED BY <1>1, <1>2, <1>3, <1>4, <1>5 DEF Next

LEMMA OrderBegins ==
  ASSUME TypeOK, Always, Order, Orderly, allowed' = allowed,
         NEW h \in Handler, TaskBegins(h)
  PROVE  Order'
<1> USE DEF disk, memory, external
<1>0. /\ clock \in Nat /\ keychain \in Signer /\ \A i \in Id : vault[i].at \in Nat
      /\ \A i \in Id : Fit(i, vault[i], clock, minted)
  BY DEF TypeOK, Vault, Envelope, Always, Fits
<1>m. MayBegin(h) => NoTask /\ NoSync
  BY DEF MayBegin, Orderly
<1>a. ASSUME NEW op, NEW i \in Id, NEW e, Begin(h, op, i, e), MayBegin(h),
             op # "delete" => keychain # None /\ e.by = keychain /\ e.at >= vault[i].at,
             UNCHANGED <<disk, run>>
      PROVE  Order'
  <2>1. /\ OnlyTask(h)
        /\ task'[h].pc = "loadVault" /\ task'[h].op = op /\ task'[h].id = i
        /\ task'[h].env = e
    BY <1>a, BeginEffect
  <2>2. HandlerKnows(task'[h], vault', queue', keychain')
    BY <1>a, <2>1 DEF HandlerKnows, Editing, Wiping
  <2> QED BY <1>a, <1>m, <2>1, <2>2, HandlerAlone
<1>s. Sealed(keychain).at = clock + 1 /\ Sealed(keychain).by = keychain
      /\ \A i \in Id : clock + 1 >= vault[i].at
  BY <1>0 DEF Sealed, Fit
<1>1. ASSUME NEW i \in Id, BeginCreate(h, i) PROVE Order'
  BY <1>1, <1>a, <1>s DEF BeginCreate
<1>2. ASSUME NEW i \in Id, BeginUpdate(h, i) PROVE Order'
  BY <1>2, <1>a, <1>s DEF BeginUpdate
<1>3. ASSUME NEW i \in Id, BeginTouch(h, i) PROVE Order'
  BY <1>0, <1>3, <1>a DEF BeginTouch
<1>4. ASSUME NEW i \in Id, BeginDelete(h, i) PROVE Order'
  BY <1>4, <1>a DEF BeginDelete
<1>5. ASSUME BeginReset(h) PROVE Order'
  <2>1. OnlyTask(h) /\ task'[h].pc = "wipeItems" /\ keychain' = None /\ run' = run
        /\ MayBegin(h)
    BY <1>5, BeginResetEffect DEF BeginReset
  <2>2. HandlerKnows(task'[h], vault', queue', keychain')
    BY <2>1 DEF HandlerKnows, Editing, Wiping
  <2> QED BY <1>m, <2>1, <2>2, HandlerAlone
<1> QED BY <1>1, <1>2, <1>3, <1>4, <1>5 DEF TaskBegins

LEMMA OrderTaskStep ==
  ASSUME TypeOK, TaskShape, Order, Orderly, allowed' = allowed,
         NEW h \in Handler, TaskStep(h)
  PROVE  Order'
<1> USE DEF disk, memory, external
<1>k. HandlerKnows(task[h], vault, queue, keychain)
  BY DEF Order
<1>1. ASSUME LoadVault(h) PROVE Order'
  <2>1. UNCHANGED <<vault, queue, keychain, run>>
    BY <1>1 DEF LoadVault
  <2>2. HandlerKnows(task'[h], vault', queue', keychain')
    BY <1>1, <1>k, <2>1, LoadVaultEffect DEF HandlerKnows, Editing, Wiping
  <2> QED BY <1>1, <2>1, <2>2, LoadVaultEffect, HandlerAlone
<1>2. ASSUME WriteVault(h) PROVE Order'
  <2>0. run' = run
    BY <1>2 DEF WriteVault
  <2>1. task'[h].pc \in {"idle", "loadQueue"}
    BY <1>2, WriteVaultEffect DEF IdleTask
  <2>2. HandlerKnows(task'[h], vault', queue', keychain')
    BY <2>1 DEF HandlerKnows, Editing, Wiping
  <2> QED BY <1>2, <2>0, <2>2, WriteVaultEffect, HandlerAlone
<1>3. ASSUME LoadQueue(h) PROVE Order'
  <2>1. UNCHANGED <<vault, queue, keychain, run>>
    BY <1>3 DEF LoadQueue
  <2>2. HandlerKnows(task'[h], vault', queue', keychain')
    BY <1>3, <2>1, LoadQueueEffect DEF HandlerKnows, Editing, Wiping
  <2> QED BY <1>3, <2>1, <2>2, LoadQueueEffect, HandlerAlone
<1>4. ASSUME WriteQueue(h) \/ WipeCursor(h) PROVE Order'
  <2>1. /\ OnlyTask(h) /\ task'[h].pc = "idle" /\ run' = run /\ task[h].pc # "idle"
    BY <1>4, TaskIdle DEF WriteQueue, WipeCursor, IdleTask
  <2> QED BY <2>1, IdleKnows, HandlerAlone
<1>5. ASSUME WipeItems(h) \/ WipeIdentities(h) \/ WipeQueue(h) PROVE Order'
  <2>1. PICK pc \in Wiping : task' = [task EXCEPT ![h].pc = pc]
    BY <1>5 DEF WipeItems, WipeIdentities, WipeQueue, Stage, Wiping
  <2>2. /\ OnlyTask(h) /\ task'[h].pc = pc /\ run' = run /\ task[h].pc \in Wiping
        /\ keychain' = keychain
    BY <1>5, <2>1, StageEffect DEF WipeItems, WipeIdentities, WipeQueue, Stage, Wiping
  <2>3. HandlerKnows(task'[h], vault', queue', keychain')
    BY <1>k, <2>2 DEF HandlerKnows, Editing, Wiping
  <2>4. task[h].pc # "idle"
    BY <2>2 DEF Wiping
  <2> QED BY <2>2, <2>3, <2>4, HandlerAlone
<1> QED BY <1>1, <1>2, <1>3, <1>4, <1>5 DEF TaskStep

\* The server takes the batch in: nothing goes back in time, and a tombstone
\* is heard unless an edit made after it was stamped is there.
LEMMA ReceivedKnows ==
  ASSUME TypeOK, NEW s \in SyncRun, NEW i \in Id, NEW n,
         NEW rec, rec = Received(s.snap, s.tombs, s.deletedAt, n)[i]
  PROVE  /\ s.snap[i].at <= rec.at /\ server[i].at <= rec.at
         /\ i \in s.tombs => rec.dead \/ rec.at > s.deletedAt
         /\ rec = server[i] \/ rec.seq = n
         /\ rec.by \in {server[i].by, s.snap[i].by}
<1>0. /\ s.snap[i].at \in Nat /\ s.deletedAt \in Nat
      /\ server[i].at \in Nat /\ server[i] \in Record
  BY DEF SyncRun, Vault, Envelope, TypeOK, Record
<1>1. PICK a : a = Accept(server[i], s.snap[i], n)
  OBVIOUS
<1>2. rec = IF i \in s.tombs THEN Bury(a, s.deletedAt, n) ELSE a
  BY <1>1 DEF Received
<1>3. /\ s.snap[i].at <= a.at /\ server[i].at <= a.at /\ a.at \in Nat
      /\ a = server[i] \/ a.seq = n
      /\ a.by \in {server[i].by, s.snap[i].by}
  BY <1>0, <1>1 DEF Accept
<1>4. CASE ~a.dead /\ s.deletedAt >= a.at /\ i \in s.tombs
  <2>1. rec = [at |-> s.deletedAt, by |-> a.by, seq |-> n, dead |-> TRUE]
    BY <1>2, <1>4 DEF Bury
  <2> QED BY <1>0, <1>3, <1>4, <2>1
<1>5. CASE ~(~a.dead /\ s.deletedAt >= a.at /\ i \in s.tombs)
  <2>1. rec = a
    BY <1>2, <1>5 DEF Bury
  <2> QED BY <1>0, <1>3, <1>5, <2>1
<1> QED BY <1>4, <1>5

\* What the answer of the server makes of an envelope.
LEMMA MergedKnows ==
  ASSUME TypeOK, Always, NEW s \in SyncRun, NEW i \in Id,
         NEW e, e = Merged(s)[i]
  PROVE  \/ e = s.snap[i] /\ (server[i].seq > s.from =>
              \/ server[i].dead /\ i \notin Item
              \/ ~server[i].dead /\ (server[i].by # s.key \/ server[i].at <= s.snap[i].at))
         \/ e = Absent /\ server[i].dead /\ server[i].seq > s.from
         \/ /\ e.at = server[i].at /\ e.by = s.key /\ e.at > s.snap[i].at
            /\ ~server[i].dead /\ server[i].by = s.key /\ server[i].seq > s.from
<1>0. /\ s.snap[i].at \in Nat /\ server[i].at \in Nat /\ server[i].dead \in BOOLEAN
  BY DEF SyncRun, Vault, Envelope, TypeOK, Record
<1>1. PICK f : f = MergeOne(i, s.snap[i], server[i], s.key)
  OBVIOUS
<1>2. e = IF server[i].seq > s.from THEN f ELSE s.snap[i]
  BY <1>1 DEF Merged
<1>3. CASE server[i].dead /\ i \in Item
  BY <1>1, <1>2, <1>3 DEF MergeOne
<1>4. CASE ~server[i].dead /\ server[i].by = s.key /\ server[i].at > s.snap[i].at
  <2>1. f = [at |-> server[i].at, by |-> server[i].by]
    BY <1>1, <1>4 DEF MergeOne
  <2> QED BY <1>2, <1>4, <2>1
<1>5. CASE /\ ~(server[i].dead /\ i \in Item)
           /\ ~(~server[i].dead /\ server[i].by = s.key /\ server[i].at > s.snap[i].at)
  <2>1. f = s.snap[i]
    BY <1>1, <1>5 DEF MergeOne
  <2> QED BY <1>0, <1>2, <1>5, <2>1
<1> QED BY <1>3, <1>4, <1>5

LEMMA OrderSyncStep ==
  ASSUME TypeOK, SyncInv, Always, Order, Orderly, allowed' = allowed,
         NEW r \in Run, SyncStep(r)
  PROVE  Order'
<1> USE DEF disk, memory, external
<1>0. /\ run[r] \in SyncRun /\ \A i \in Id : server[i] \in Record /\ vault[i] \in Envelope
      /\ \A i \in Id : run[r].snap[i] \in Envelope
  BY DEF TypeOK, Vault, SyncRun
<1>k. SyncKnows(run[r], vault, server, queue, keychain)
  BY DEF Order
<1>b. ASSUME Blanked(r), run[r].pc # "idle", task' = task
      PROVE  Order'
  <2>1. SyncKnows(run'[r], vault', server', queue', keychain')
    BY <1>b, FreshKnows DEF Blanked
  <2> QED BY <1>b, <2>1, SyncAlone DEF Blanked
<1>1. ASSUME ReadQueue(r) PROVE Order'
  <2>1. SyncKnows(run'[r], vault', server', queue', keychain')
    <3>1. queue' = queue
      BY <1>1 DEF ReadQueue
    <3> QED BY <1>1, <3>1, ReadQueueEffect DEF SyncKnows, Fresh, Sending, Saving, Pushed
  <2>2. task' = task
    BY <1>1 DEF ReadQueue
  <2> QED BY <1>1, <2>1, <2>2, ReadQueueEffect, SyncAlone
<1>2. ASSUME ReadKeys(r) PROVE Order'
  <2>1. /\ UNCHANGED <<task, vault, server, queue, keychain>>
        /\ run[r].pc = "readKeys"
    BY <1>2 DEF ReadKeys
  <2>2. CASE keychain # None
    <3>1. run' = [run EXCEPT ![r].pc = "loadItems", ![r].key = keychain]
      BY <1>2, <2>2 DEF ReadKeys
    <3>2. SyncKnows(run'[r], vault', server', queue', keychain') /\ OnlyRun(r)
      BY <1>k, <2>1, <2>2, <3>1, KeysEffect DEF SyncKnows, Fresh, Sending, Saving, Pushed
    <3> QED BY <2>1, <3>2, SyncAlone
  <2>3. CASE keychain = None
    BY <1>2, <1>b, <2>1, <2>3, FailsEffect DEF ReadKeys
  <2> QED BY <2>2, <2>3
<1>3. ASSUME LoadItems(r) PROVE Order'
  <2>1. /\ UNCHANGED <<task, vault, server, queue, keychain>> /\ run[r].pc = "loadItems"
        /\ run' = [run EXCEPT ![r].pc = "loadIdentities", ![r].snap = Gathered(run[r], Item)]
    BY <1>3 DEF LoadItems
  <2>2. /\ OnlyRun(r) /\ run'[r].pc = "loadIdentities"
        /\ run'[r].drain = run[r].drain /\ run'[r].key = run[r].key
        /\ run'[r].tombs = run[r].tombs
        /\ \A i \in Item : run'[r].snap[i] = IF vault[i].by = run[r].key THEN vault[i] ELSE Absent
    BY <1>3, LoadItemsEffect DEF Id
  <2>3. run[r].key = keychain /\ keychain # None
    BY <1>k, <2>1 DEF SyncKnows, Fresh
  <2>4. SyncKnows(run'[r], vault', server', queue', keychain')
    BY <1>k, <2>1, <2>2, <2>3 DEF SyncKnows, Fresh, Sending, Saving, Pushed
  <2> QED BY <2>1, <2>2, <2>4, SyncAlone
<1>3b. ASSUME LoadIdentities(r) PROVE Order'
  <2>1. /\ UNCHANGED <<task, vault, server, queue, keychain>> /\ run[r].pc = "loadIdentities"
        /\ run' = [run EXCEPT ![r].pc = "loadCursor", ![r].snap = Gathered(run[r], Identity)]
    BY <1>3b DEF LoadIdentities
  <2>2. /\ OnlyRun(r) /\ run'[r].pc = "loadCursor"
        /\ run'[r].drain = run[r].drain /\ run'[r].key = run[r].key
        /\ run'[r].tombs = run[r].tombs
        /\ \A i \in Id : run'[r].snap[i] =
             IF i \in Identity THEN (IF vault[i].by = run[r].key THEN vault[i] ELSE Absent)
             ELSE run[r].snap[i]
    BY <1>3b, LoadIdentitiesEffect
  <2>3. /\ run[r].key = keychain /\ keychain # None
        /\ \A i \in Item : run[r].snap[i] = IF vault[i].by = keychain THEN vault[i] ELSE Absent
    BY <1>k, <2>1 DEF SyncKnows, Fresh
  <2>4. \A i \in Id : run'[r].snap[i] = IF vault[i].by = keychain THEN vault[i] ELSE Absent
    BY <2>2, <2>3 DEF Id
  <2>5. SyncKnows(run'[r], vault', server', queue', keychain')
    BY <1>k, <2>1, <2>2, <2>3, <2>4 DEF SyncKnows, Fresh, Sending, Saving, Pushed
  <2> QED BY <2>1, <2>2, <2>5, SyncAlone
<1>3c. ASSUME LoadCursor(r) PROVE Order'
  <2>1. UNCHANGED <<task, vault, server, queue, keychain>> /\ run[r].pc = "loadCursor"
    BY <1>3c DEF LoadCursor
  <2>2. /\ run[r].key = keychain /\ keychain # None
        /\ run[r].drain => run[r].tombs = Deletes(queue)
        /\ \A i \in Id : run[r].snap[i] = IF vault[i].by = keychain THEN vault[i] ELSE Absent
    BY <1>k, <2>1 DEF SyncKnows, Fresh
  <2>3. SyncKnows(run'[r], vault', server', queue', keychain')
    BY <1>3c, <2>1, <2>2, LoadCursorEffect DEF SyncKnows, Fresh, Sending, Saving, Pushed
  <2> QED BY <1>3c, <2>1, <2>3, LoadCursorEffect, SyncAlone
<1>4. ASSUME Push(r) PROVE Order'
  <2>1. /\ run[r].pc = "push" /\ run' = [run EXCEPT ![r].pc = "saveEcho"]
        /\ server' = Received(run[r].snap, run[r].tombs, run[r].deletedAt, serverSeq + 1)
        /\ UNCHANGED <<task, vault, queue, keychain>>
    BY <1>4 DEF Push
  <2>2. \A i \in Id : /\ run[r].snap[i].at <= server'[i].at
                      /\ i \in run[r].tombs =>
                           server'[i].dead \/ server'[i].at > run[r].deletedAt
    BY <1>0, <2>1, ReceivedKnows
  <2>3. run[r].tombs \subseteq Id
    BY <1>0 DEF SyncRun
  <2>4. /\ OnlyRun(r) /\ run'[r].pc = "saveEcho"
        /\ run'[r].drain = run[r].drain /\ run'[r].key = run[r].key
        /\ run'[r].snap = run[r].snap /\ run'[r].tombs = run[r].tombs
        /\ run'[r].deletedAt = run[r].deletedAt
    BY <2>1, RunStageEffect
  <2>5. SyncKnows(run'[r], vault', server', queue', keychain')
    BY <1>k, <2>1, <2>2, <2>3, <2>4 DEF SyncKnows, Fresh, Sending, Saving, Pushed
  <2> QED BY <2>1, <2>4, <2>5, SyncAlone
<1>5. ASSUME SaveEcho(r) PROVE Order'
  <2>1. /\ run[r].pc = "saveEcho" /\ run' = [run EXCEPT ![r].pc = "pull"]
        /\ UNCHANGED <<task, vault, server, queue, keychain>>
    BY <1>5 DEF SaveEcho
  <2>2. /\ OnlyRun(r) /\ run'[r].pc = "pull"
        /\ run'[r].drain = run[r].drain /\ run'[r].key = run[r].key
        /\ run'[r].snap = run[r].snap /\ run'[r].tombs = run[r].tombs
        /\ run'[r].deletedAt = run[r].deletedAt
    BY <2>1, RunStageEffect
  <2>3. SyncKnows(run'[r], vault', server', queue', keychain')
    BY <1>k, <2>1, <2>2 DEF SyncKnows, Fresh, Sending, Saving, Pushed
  <2> QED BY <2>1, <2>2, <2>3, SyncAlone
<1>6. ASSUME Pull(r) PROVE Order'
  <2>1. /\ UNCHANGED <<task, vault, server, queue, keychain>>
        /\ run[r].key = keychain /\ keychain # None
        /\ \A i \in Id : run[r].snap[i] = IF vault[i].by = keychain THEN vault[i] ELSE Absent
        /\ \A i \in Id : run[r].snap[i].at <= server[i].at
    BY <1>6, <1>k, PullEffect DEF Pull, SyncKnows, Fresh, Sending
  <2>2. ASSUME NEW i \in Id, NEW e, e = Merged(run[r])[i]
        PROVE  e.at <= server[i].at /\ MayTake(keychain, e, vault[i], server[i])
    <3>0. server[i].at \in Nat
      BY <1>0 DEF Record
    <3>a. /\ run[r].snap[i] = IF vault[i].by = keychain THEN vault[i] ELSE Absent
          /\ run[r].snap[i].at <= server[i].at
      BY <2>1
    <3>1. CASE e = run[r].snap[i]
      BY <3>a, <3>1 DEF MayTake
    <3>2. CASE e = Absent /\ server[i].dead
      BY <3>0, <3>2 DEF MayTake, Absent
    <3>3. CASE e.at = server[i].at /\ e.by = run[r].key /\ e.at > run[r].snap[i].at
      BY <2>1, <3>0, <3>a, <3>3 DEF MayTake
    <3> QED BY <1>0, <2>2, <3>1, <3>2, <3>3, MergedKnows
  <2>3. SyncKnows(run'[r], vault', server', queue', keychain')
    BY <1>6, <1>k, <2>1, <2>2, PullEffect DEF SyncKnows, Fresh, Sending, Saving, Pushed
  <2> QED BY <1>6, <2>1, <2>3, PullEffect, SyncAlone
<1>7. ASSUME SaveCursor(r) PROVE Order'
  <2>1. /\ run[r].pc = "saveCursor" /\ run' = [run EXCEPT ![r].pc = "saveItems"]
        /\ UNCHANGED <<task, vault, server, queue, keychain>>
    BY <1>7 DEF SaveCursor
  <2>2. /\ OnlyRun(r) /\ run'[r].pc = "saveItems"
        /\ run'[r].drain = run[r].drain /\ run'[r].key = run[r].key
        /\ run'[r].snap = run[r].snap /\ run'[r].tombs = run[r].tombs
        /\ run'[r].deletedAt = run[r].deletedAt
    BY <2>1, RunStageEffect
  <2>3. SyncKnows(run'[r], vault', server', queue', keychain')
    BY <1>k, <2>1, <2>2 DEF SyncKnows, Fresh, Sending, Saving, Pushed
  <2> QED BY <2>1, <2>2, <2>3, SyncAlone
<1>8. ASSUME SaveItems(r) PROVE Order'
  <2>1. /\ run[r].pc = "saveItems" /\ run' = [run EXCEPT ![r].pc = "saveIdentities"]
        /\ vault' = Overwrite(Item, run[r].snap)
        /\ UNCHANGED <<task, server, queue, keychain>>
    BY <1>8 DEF SaveItems
  <2>2. \A i \in Id : vault'[i] \in {vault[i], run[r].snap[i]}
    BY <2>1 DEF Overwrite
  <2>3. \A i \in Id : MayTake(keychain, run[r].snap[i], vault'[i], server[i])
    BY <1>k, <2>1, <2>2 DEF SyncKnows, Saving, MayTake
  <2>4. /\ OnlyRun(r) /\ run'[r].pc = "saveIdentities"
        /\ run'[r].drain = run[r].drain /\ run'[r].key = run[r].key
        /\ run'[r].snap = run[r].snap /\ run'[r].tombs = run[r].tombs
        /\ run'[r].deletedAt = run[r].deletedAt
    BY <2>1, RunStageEffect
  <2>5. SyncKnows(run'[r], vault', server', queue', keychain')
    BY <1>k, <2>1, <2>3, <2>4 DEF SyncKnows, Fresh, Sending, Saving, Pushed
  <2> QED BY <2>1, <2>4, <2>5, SyncAlone
<1>9. ASSUME SaveIdentities(r) PROVE Order'
  <2>1. /\ run[r].pc = "saveIdentities" /\ Returns(r, TRUE)
        /\ UNCHANGED <<task, server, queue, keychain>>
    BY <1>9 DEF SaveIdentities
  <2>2. CASE run[r].drain
    <3>1. SyncKnows(run'[r], vault', server', queue', keychain') /\ OnlyRun(r)
      BY <1>k, <2>1, <2>2, SucceedsEffect DEF SyncKnows, Fresh, Sending, Saving, Pushed
    <3> QED BY <2>1, <3>1, SyncAlone
  <2>3. CASE ~run[r].drain
    BY <1>b, <2>1, <2>3, SucceedsEffect
  <2> QED BY <2>2, <2>3
<1>10. ASSUME ClearQueue(r) PROVE Order'
  BY <1>10, <1>b, AfterDrainEffect DEF ClearQueue
<1> QED
  BY <1>1, <1>2, <1>3, <1>3b, <1>3c, <1>4, <1>5, <1>6, <1>7, <1>8, <1>9, <1>10 DEF SyncStep

\* Other devices only move the server on, and bring no buried id back.
LEMMA RemoteKnows ==
  ASSUME TypeOK, Always, Remote, NEW i \in Id
  PROVE  /\ server[i].at <= server'[i].at
         /\ server[i].dead => server'[i].dead
         /\ server'[i] = server[i] \/ server'[i].seq = serverSeq + 1
         /\ server'[i].by = server[i].by \/ i \notin minted
<1>0. /\ clock \in Nat
      /\ \A j \in Id : server[j] \in Record /\ RecordFit(j, server[j], clock, minted, serverSeq)
  BY DEF TypeOK, Always, Fits
<1>1. ASSUME NEW j \in Id, RemoteDelete(j)
      PROVE  /\ server[i].at <= server'[i].at
             /\ server[i].dead => server'[i].dead
             /\ server'[i] = server[i] \/ server'[i].seq = serverSeq + 1
             /\ server'[i].by = server[i].by
  <2>1. PICK rec : rec = Bury(server[j], clock, serverSeq + 1)
    OBVIOUS
  <2>2. server'[i] = IF i = j THEN rec ELSE server[i]
    BY <1>1, <2>1 DEF RemoteDelete, TypeOK
  <2>3. \/ rec = server[j]
        \/ rec.at = clock /\ rec.dead /\ rec.seq = serverSeq + 1 /\ rec.by = server[j].by
    BY <2>1 DEF Bury
  <2>4. server[i].at \in Nat /\ server[i].at <= clock
    BY <1>0 DEF Record, RecordFit
  <2> QED BY <1>0, <2>2, <2>3, <2>4
<1>2. ASSUME NEW j \in Id, NEW a \in Account, RemoteWrite(j, a)
      PROVE  /\ server[i].at <= server'[i].at
             /\ server[i].dead => server'[i].dead
             /\ server'[i] = server[i] \/ server'[i].seq = serverSeq + 1
             /\ server'[i].by = server[i].by \/ i \notin minted
  <2>1. PICK rec : rec = Accept(server[j], Sealed(a), serverSeq + 1)
    OBVIOUS
  <2>2. /\ server'[i] = IF i = j THEN rec ELSE server[i]
        /\ j \notin minted \/ (server[j].by = a /\ ~server[j].dead)
    BY <1>2, <2>1 DEF RemoteWrite, TypeOK
  <2>3. rec.at = clock + 1 /\ rec.seq = serverSeq + 1 /\ rec.by = a
    <3>1. server[j].at \in Nat /\ server[j].at <= clock
      BY <1>0 DEF Record, RecordFit
    <3>2. Sealed(a).at > server[j].at /\ Sealed(a).at = clock + 1 /\ Sealed(a).by = a
      BY <1>0, <3>1 DEF Sealed
    <3> QED BY <2>1, <3>2 DEF Accept
  <2>4. server[i].at \in Nat /\ server[i].at <= clock
    BY <1>0 DEF Record, RecordFit
  <2>5. j \notin minted => ~server[j].dead
    BY <1>0 DEF Record, RecordFit, NoRecord
  <2> QED BY <1>0, <2>2, <2>3, <2>4, <2>5
<1> QED BY <1>1, <1>2 DEF Remote

LEMMA OrderRemote ==
  ASSUME TypeOK, TypeOK', Always, Order, Orderly, allowed' = allowed, Remote
  PROVE  Order'
<1> USE DEF disk, memory, external
<1>1. UNCHANGED <<keychain, vault, queue, task, run>>
  BY DEF Remote, RemoteWrite, RemoteDelete
<1>2. \A i \in Id : /\ server[i].at <= server'[i].at
                    /\ server[i].dead => server'[i].dead
                    /\ server[i].at \in Nat /\ server'[i].at \in Nat
  BY RemoteKnows DEF TypeOK, Record
<1>3. ASSUME NEW r \in Run
      PROVE  SyncKnows(run[r], vault, server', queue, keychain)
  <2>0. SyncKnows(run[r], vault, server, queue, keychain)
    BY DEF Order
  <2>1. run[r].tombs \subseteq Id /\ run[r].deletedAt \in Nat
        /\ \A i \in Id : run[r].snap[i].at \in Nat
    BY DEF TypeOK, SyncRun, Vault, Envelope
  <2>2. \A i \in Id : MayTake(keychain, run[r].snap[i], vault[i], server[i])
                        => MayTake(keychain, run[r].snap[i], vault[i], server'[i])
    BY <1>2, <2>1 DEF MayTake
  <2>3. \A i \in Id : run[r].snap[i].at <= server[i].at => run[r].snap[i].at <= server'[i].at
    BY <1>2, <2>1
  <2>4. \A i \in run[r].tombs : server[i].dead \/ server[i].at > run[r].deletedAt
                => server'[i].dead \/ server'[i].at > run[r].deletedAt
    BY <1>2, <2>1
  <2> QED BY <2>0, <2>2, <2>3, <2>4 DEF SyncKnows
<1>4. Orderly /\ OneAtATime(task, run)
      /\ \A h \in Handler : HandlerKnows(task[h], vault, queue, keychain)
  BY DEF Order
<1> QED BY <1>1, <1>3, <1>4 DEF Order

LEMMA OrderFault ==
  ASSUME TypeOK, SyncInv, Order, Orderly, allowed' = allowed, Fault
  PROVE  Order'
<1> USE DEF disk, memory, external
<1>1. ASSUME NEW r \in Run,
             Offline(r) \/ SyncStorageFails(r) \/ QueueStorageFails(r)
      PROVE  Order'
  <2>1. Blanked(r)
    BY <1>1, FailsEffect, BlankedEffect DEF Offline, SyncStorageFails, QueueStorageFails
  <2>2. run[r].pc # "idle" /\ task' = task
    BY <1>1 DEF Offline, SyncStorageFails, QueueStorageFails
  <2>3. SyncKnows(run'[r], vault', server', queue', keychain')
    BY <2>1, FreshKnows DEF Blanked
  <2> QED BY <2>1, <2>2, <2>3, SyncAlone DEF Blanked
<1>2. ASSUME NEW h \in Handler, TaskStorageFails(h) PROVE Order'
  <2>1. /\ task' = [task EXCEPT ![h] = IdleTask] /\ task[h].pc # "idle" /\ run' = run
    BY <1>2 DEF TaskStorageFails
  <2>2. OnlyTask(h) /\ task'[h] = IdleTask
    BY <2>1, TaskIdle
  <2>3. task'[h].pc = "idle"
    BY <2>2 DEF IdleTask
  <2> QED BY <2>1, <2>2, <2>3, IdleKnows, HandlerAlone
<1>3. ASSUME Evict PROVE Order'
  <2>1. /\ \A h \in Handler : task'[h].pc = "idle"
        /\ \A r \in Run : run'[r].pc = "idle"
    BY <1>3 DEF Evict, IdleTask, IdleRun
  <2> QED BY <2>1, IdleKnows, IdleSyncKnows DEF Order, OneAtATime
<1> QED BY <1>1, <1>2, <1>3 DEF Fault

LEMMA OrderStart ==
  ASSUME TypeOK, Order, Orderly, allowed' = allowed, StartTimer \/ StartManual
  PROVE  Order'
<1> USE DEF disk, memory, external
<1>1. PICK r \in Run : /\ MaySync(r) /\ task' = task
                       /\ \/ run' = [run EXCEPT ![r] = Drain]
                          \/ run' = [run EXCEPT ![r] = PlainRun]
  <2>1. CASE StartTimer
    BY <2>1 DEF StartTimer, Run
  <2>2. CASE StartManual
    BY <2>2 DEF StartManual, Run
  <2> QED BY <2>1, <2>2
<1>2. NoTask /\ NoSync
  BY <1>1 DEF MaySync, Orderly
<1>3. Blanked(r)
  BY <1>1, BlankedEffect
<1>4. SyncKnows(run'[r], vault', server', queue', keychain')
  BY <1>3, FreshKnows DEF Blanked
<1> QED BY <1>1, <1>2, <1>3, <1>4, SyncAlone DEF Blanked

LEMMA OrderNext ==
  ASSUME IInv, IInv', Always, Order, [Next]_vars
  PROVE  Order'
<1> USE DEF disk, memory, external
<1>0. TypeOK /\ TypeOK' /\ TaskShape /\ SyncInv /\ allowed' = allowed
  BY AllowedStays DEF IInv
<1>o. SUFFICES ASSUME Orderly PROVE Order'
  BY <1>0 DEF Order, Orderly
<1>1. ASSUME NEW a \in Account, InstallKeychain(a) PROVE Order'
  <2>1. NoTask /\ NoSync /\ task' = task /\ run' = run
    BY <1>o, <1>1 DEF InstallKeychain, Orderly
  <2>2. /\ \A h \in Handler : task'[h].pc = "idle"
        /\ \A r \in Run : run'[r].pc = "idle"
    BY <2>1 DEF NoTask, NoSync
  <2> QED BY <2>2, IdleKnows, IdleSyncKnows DEF Order, OneAtATime
<1>2. CASE UNCHANGED vars
  BY <1>2, <1>o DEF vars, Order
<1> QED
  BY <1>0, <1>o, <1>1, <1>2, OrderBegins, OrderTaskStep, OrderSyncStep, OrderStart,
     OrderRemote, OrderFault DEF Next

\* The three layers that hold in all surroundings.
OInv == IInv /\ Always /\ Order

LEMMA OInvInit == Init => OInv
  BY IInvInit, AlwaysInit, OrderInit DEF OInv

LEMMA OInvNext == OInv /\ [Next]_vars => OInv'
  BY IInvNext, AlwaysNext, OrderNext DEF OInv

\* All that ever happens to an envelope while nothing overlaps.
LEMMA VaultStep ==
  ASSUME OInv, Orderly, [Next]_vars, NEW i \in Id
  PROVE  \/ vault'[i] = vault[i]
         \/ \E h \in Handler : /\ task[h].pc = "writeVault" /\ task[h].id = i
                               /\ vault'[i] = task[h].env
         \/ /\ vault'[i] = Absent
            /\ \E h \in Handler : task[h].pc \in Wiping
         \/ /\ keychain # None /\ MayTake(keychain, vault'[i], vault[i], server[i])
            /\ \E r \in Run : run[r].pc \in Saving /\ vault'[i] = run[r].snap[i]
<1> DEFINE Goal ==
      \/ vault'[i] = vault[i]
      \/ \E h \in Handler : /\ task[h].pc = "writeVault" /\ task[h].id = i
                            /\ vault'[i] = task[h].env
      \/ /\ vault'[i] = Absent
         /\ \E h \in Handler : task[h].pc \in Wiping
      \/ /\ keychain # None /\ MayTake(keychain, vault'[i], vault[i], server[i])
         /\ \E r \in Run : run[r].pc \in Saving /\ vault'[i] = run[r].snap[i]
<1> USE DEF disk, memory, external
<1>0. /\ TypeOK /\ TaskShape
      /\ \A h \in Handler : HandlerKnows(task[h], vault, queue, keychain)
      /\ \A r \in Run : SyncKnows(run[r], vault, server, queue, keychain)
  BY DEF OInv, IInv, Order
<1>1. ASSUME NEW h \in Handler, WriteVault(h) PROVE Goal
  <2>1. task[h].view = vault
    BY <1>0, <1>1, WriteVaultEffect DEF HandlerKnows
  <2> QED BY <1>0, <1>1, <2>1, WriteVaultEffect
<1>2. ASSUME NEW h \in Handler, WipeItems(h) \/ WipeIdentities(h) PROVE Goal
  <2>1. task[h].pc \in Wiping
    BY <1>2 DEF WipeItems, WipeIdentities, Stage, Wiping
  <2>2. vault'[i] \in {vault[i], Absent}
    BY <1>2 DEF WipeItems, WipeIdentities, Overwrite, EmptyVault
  <2> QED BY <2>1, <2>2
<1>3. ASSUME NEW r \in Run, SaveItems(r) \/ SaveIdentities(r) PROVE Goal
  <2>1. run[r].pc \in Saving /\ run[r].pc \notin Fresh
    BY <1>3 DEF SaveItems, SaveIdentities, Saving, Fresh
  <2>2. vault'[i] \in {vault[i], run[r].snap[i]}
    BY <1>3 DEF SaveItems, SaveIdentities, Overwrite
  <2>3. keychain # None /\ MayTake(keychain, run[r].snap[i], vault[i], server[i])
    BY <1>0, <2>1 DEF SyncKnows
  <2> QED BY <2>1, <2>2, <2>3
<1>4. CASE vault' = vault
  BY <1>4
<1>5. ASSUME NEW h \in Handler, TaskBegins(h) PROVE vault' = vault
  BY <1>5 DEF TaskBegins, BeginCreate, BeginUpdate, BeginTouch, BeginDelete, BeginReset
<1>6. ASSUME NEW h \in Handler, TaskStep(h) PROVE Goal
  BY <1>1, <1>2, <1>4, <1>6 DEF TaskStep, LoadVault, LoadQueue, WriteQueue,
                                WipeQueue, WipeCursor
<1>7. ASSUME NEW r \in Run, SyncStep(r) PROVE Goal
  BY <1>3, <1>4, <1>7 DEF SyncStep, ReadQueue, ReadKeys, LoadItems, LoadIdentities, LoadCursor, Push, SaveEcho, Pull,
                          SaveCursor, ClearQueue
<1>8. CASE Remote \/ StartTimer \/ StartManual \/ \E a \in Account : InstallKeychain(a)
  BY <1>4, <1>8 DEF Remote, RemoteWrite, RemoteDelete, StartTimer, StartManual,
                    InstallKeychain
<1>9. CASE Fault
  BY <1>4, <1>9 DEF Fault, Offline, SyncStorageFails, QueueStorageFails,
                    TaskStorageFails, Evict
<1>10. CASE UNCHANGED vars
  BY <1>4, <1>10 DEF vars
<1> QED BY <1>4, <1>5, <1>6, <1>7, <1>8, <1>9, <1>10 DEF Next

\* What a handler is about to write is there, unless it deletes.
LEMMA Written ==
  ASSUME OInv, Orderly, NEW h \in Handler, task[h].pc = "writeVault"
  PROVE  /\ task[h].op = "delete" => task[h].env = Absent
         /\ task[h].op # "delete" =>
              /\ keychain # None /\ Present(task[h].env) /\ task[h].env.by = keychain
              /\ task[h].env.at >= vault[task[h].id].at
<1>1. TaskFit(task[h], clock, minted) /\ HandlerKnows(task[h], vault, queue, keychain)
  BY DEF OInv, Always, Fits, Order
<1> QED BY <1>1 DEF TaskFit, HandlerKnows, Editing, Fit

\* The merge of fullSync and the handlers' writes: last write wins.  An envelope
\* is never replaced by an older one of its account, as long as no two pieces of
\* work overlap, and whatever is lost, evicted, reset or re-keyed meanwhile.
THEOREM LastWriteWins == Spec => NeverOlder
<1>1. ASSUME OInv, OInv', [Next]_vars, Orderly, NEW i \in Id,
             Present(vault'[i]), vault'[i].by = vault[i].by
      PROVE  vault'[i].at >= vault[i].at
  <2>0. /\ vault[i].at \in Nat /\ vault'[i].at \in Nat /\ ~Present(Absent)
        /\ Fit(i, vault'[i], clock', minted')
    BY <1>1 DEF OInv, IInv, TypeOK, Vault, Envelope, Always, Fits, Present, Absent
  <2>1. ASSUME NEW h \in Handler, task[h].pc = "writeVault", task[h].id = i,
               vault'[i] = task[h].env
        PROVE  vault'[i].at >= vault[i].at
    BY <1>1, <2>0, <2>1, Written
  <2>2. ASSUME keychain # None, MayTake(keychain, vault'[i], vault[i], server[i])
        PROVE  vault'[i].at >= vault[i].at
    BY <1>1, <2>0, <2>2 DEF MayTake
  <2> QED BY <1>1, <2>0, <2>1, <2>2, VaultStep
<1>2. OInv /\ OInv' /\ [Next]_vars =>
        [Orderly => \A i \in Id : Present(vault'[i]) /\ vault'[i].by = vault[i].by
                                    => vault'[i].at >= vault[i].at]_vars
  BY <1>1
<1> QED BY <1>2, OInvInit, OInvNext, PTL DEF Spec, NeverOlder

\* An item of the account this device holds is gone only because it was deleted
\* here or elsewhere or in a reset: no failed, evicted or repeated sync takes it.
THEOREM NothingIsLost == Spec => NothingVanishes
<1>1. ASSUME OInv, OInv', [Next]_vars, NEW i \in Id, Orderly, Present(vault[i]),
             vault[i].by = keychain, ~Present(vault'[i])
      PROVE  \/ server[i].dead
             \/ \E h \in Handler : task[h].op = "delete" /\ task[h].id = i
             \/ \E h \in Handler : task[h].op = "reset"
  <2>0. Fit(i, vault'[i], clock', minted')
    BY <1>1 DEF OInv, Always, Fits
  <2>1. ASSUME NEW h \in Handler, task[h].pc = "writeVault", task[h].id = i,
               vault'[i] = task[h].env
        PROVE  task[h].op = "delete"
    BY <1>1, <2>1, Written
  <2>2. ASSUME NEW h \in Handler, task[h].pc \in Wiping
        PROVE  task[h].op = "reset"
    BY <1>1, <2>2 DEF OInv, Always, Fits, TaskFit
  <2>3. ASSUME keychain # None, MayTake(keychain, vault'[i], vault[i], server[i])
        PROVE  server[i].dead
    BY <1>1, <2>0, <2>3 DEF MayTake, Fit
  <2> QED BY <1>1, <2>1, <2>2, <2>3, VaultStep
<1>2. OInv /\ OInv' /\ [Next]_vars =>
        [\A i \in Id : Orderly /\ Present(vault[i]) /\ vault[i].by = keychain
                         /\ ~Present(vault'[i])
           => \/ server[i].dead
              \/ \E h \in Handler : task[h].op = "delete" /\ task[h].id = i
              \/ \E h \in Handler : task[h].op = "reset"]_vars
  BY <1>1
<1> QED BY <1>2, OInvInit, OInvNext, PTL DEF Spec, NothingVanishes

\* A queued deletion is dropped undelivered at one place only: where another
\* deletion is queued, whose handler takes every deletion out of the queue.
LostOnlyToAnother ==
  [][Orderly => \A i \in Deletes(queue) \ Deletes(queue') :
       \/ server[i].dead
       \/ \E r \in Run : i \in run[r].tombs /\ server[i].at > run[r].deletedAt
       \/ \E h \in Handler : task[h].op = "reset"
       \/ \E h \in Handler : task[h].op = "delete" /\ task[h].id # i
                             /\ task[h].id \in Deletable]_vars

LEMMA QueueStep ==
  ASSUME OInv, Orderly, [Next]_vars, NEW i \in Deletes(queue) \ Deletes(queue')
  PROVE  \/ server[i].dead
         \/ \E r \in Run : i \in run[r].tombs /\ server[i].at > run[r].deletedAt
         \/ \E h \in Handler : task[h].op = "reset"
         \/ \E h \in Handler : task[h].op = "delete" /\ task[h].id # i
                               /\ task[h].id \in Deletable
<1> DEFINE Goal ==
      \/ server[i].dead
      \/ \E r \in Run : i \in run[r].tombs /\ server[i].at > run[r].deletedAt
      \/ \E h \in Handler : task[h].op = "reset"
      \/ \E h \in Handler : task[h].op = "delete" /\ task[h].id # i
                            /\ task[h].id \in Deletable
<1> USE DEF disk, memory, external
<1>0. /\ TypeOK /\ TaskShape
      /\ \A h \in Handler : /\ HandlerKnows(task[h], vault, queue, keychain)
                            /\ TaskFit(task[h], clock, minted)
      /\ \A r \in Run : /\ SyncKnows(run[r], vault, server, queue, keychain)
                        /\ RunShape(run[r])
  BY DEF OInv, IInv, SyncInv, Order, Always, Fits
<1>1. ASSUME NEW h \in Handler, WriteQueue(h) PROVE Goal
  <2>1. /\ task[h].pc = "writeQueue" /\ task[h].seen = queue
        /\ queue' = Enqueued(queue, task[h].op, task[h].id)
        /\ task[h].op \in Op
    BY <1>0, <1>1 DEF WriteQueue, HandlerKnows, TaskShape
  <2>2. CASE task[h].op # "delete"
    <3>1. queue \subseteq queue'
      BY <2>1, <2>2 DEF Enqueued, Op
    <3>2. Deletes(queue) \subseteq Deletes(queue')
      BY <3>1 DEF Deletes
    <3> QED BY <3>2
  <2>3. CASE task[h].op = "delete"
    <3>1. [op |-> "delete", id |-> task[h].id] \in queue'
      BY <2>1, <2>3 DEF Enqueued
    <3>2. task[h].id \in Deletes(queue')
      BY <3>1 DEF Deletes
    <3>3. task[h].id \in Deletable
      BY <1>0, <2>1, <2>3 DEF TaskFit, Queueing
    <3> QED BY <2>3, <3>2, <3>3
  <2> QED BY <2>2, <2>3
<1>2. ASSUME NEW h \in Handler, WipeQueue(h) PROVE Goal
  <2>1. task[h].pc \in Wiping
    BY <1>2 DEF WipeQueue, Stage, Wiping
  <2> QED BY <1>0, <2>1 DEF TaskFit
<1>3. ASSUME NEW r \in Run, ClearQueue(r) PROVE Goal
  <2>1. run[r].pc = "clearQueue" /\ run[r].drain
    BY <1>0, <1>3 DEF ClearQueue, RunShape
  <2>2. /\ run[r].tombs = Deletes(queue)
        /\ \A j \in run[r].tombs : server[j].dead \/ server[j].at > run[r].deletedAt
    BY <1>0, <2>1 DEF SyncKnows, Pushed
  <2> QED BY <2>2
<1>4. CASE queue' = queue
  BY <1>4
<1>5. ASSUME NEW h \in Handler, TaskBegins(h) PROVE queue' = queue
  BY <1>5 DEF TaskBegins, BeginCreate, BeginUpdate, BeginTouch, BeginDelete, BeginReset
<1>6. ASSUME NEW h \in Handler, TaskStep(h) PROVE Goal
  BY <1>1, <1>2, <1>4, <1>6 DEF TaskStep, LoadVault, WriteVault, LoadQueue, WipeItems,
                                WipeIdentities, WipeCursor
<1>7. ASSUME NEW r \in Run, SyncStep(r) PROVE Goal
  BY <1>3, <1>4, <1>7 DEF SyncStep, ReadQueue, ReadKeys, LoadItems, LoadIdentities, LoadCursor, Push, SaveEcho, Pull,
                          SaveCursor, SaveItems, SaveIdentities
<1>8. CASE Remote \/ StartTimer \/ StartManual \/ \E a \in Account : InstallKeychain(a)
  BY <1>4, <1>8 DEF Remote, RemoteWrite, RemoteDelete, StartTimer, StartManual,
                    InstallKeychain
<1>9. CASE Fault
  BY <1>4, <1>9 DEF Fault, Offline, SyncStorageFails, QueueStorageFails,
                    TaskStorageFails, Evict
<1>10. CASE UNCHANGED vars
  BY <1>4, <1>10 DEF vars
<1> QED BY <1>4, <1>5, <1>6, <1>7, <1>8, <1>9, <1>10 DEF Next

\* addToSyncQueue and processQueue: whatever fails or is evicted, a sync clears a
\* deletion out of the queue only when the server has buried the id or holds a
\* later edit.  The one way to lose a deletion is to queue another.
THEOREM OnlyADeletionLosesOne == Spec => LostOnlyToAnother
<1>1. OInv /\ [Next]_vars =>
        [Orderly => \A i \in Deletes(queue) \ Deletes(queue') :
           \/ server[i].dead
           \/ \E r \in Run : i \in run[r].tombs /\ server[i].at > run[r].deletedAt
           \/ \E h \in Handler : task[h].op = "reset"
           \/ \E h \in Handler : task[h].op = "delete" /\ task[h].id # i
                                 /\ task[h].id \in Deletable]_vars
  BY QueueStep
<1> QED BY <1>1, OInvInit, OInvNext, PTL DEF Spec, LostOnlyToAnother

\* So a device that ever deletes one id only delivers every deletion.  With two
\* the property fails, as the run VaultSyncTwoDeletes shows.
THEOREM DeletionsAreDelivered ==
  ASSUME \A i, j \in Deletable : i = j
  PROVE  Spec => DeletionDelivered
<1>1. ASSUME OInv, [Next]_vars, NEW i \in Deletes(queue) \ Deletes(queue'), Orderly
      PROVE  \/ server[i].dead
             \/ \E r \in Run : i \in run[r].tombs /\ server[i].at > run[r].deletedAt
             \/ \E h \in Handler : task[h].op = "reset"
  <2>1. i \in Deletable
    BY <1>1 DEF OInv, Always, Fits, EntryFit, Deletes
  <2> QED BY <1>1, <2>1, QueueStep
<1>2. OInv /\ [Next]_vars =>
        [\A i \in Deletes(queue) \ Deletes(queue') :
           \/ ~Orderly
           \/ server[i].dead \/ server[i].seq = 0
           \/ \E r \in Run : i \in run[r].tombs /\ server[i].at > run[r].deletedAt
           \/ \E h \in Handler : task[h].op = "reset"]_vars
  BY <1>1
<1> QED BY <1>2, OInvInit, OInvNext, PTL DEF Spec, DeletionDelivered


-----------------------------------------------------------------------------
(***************************************************************************)
(* Replica: what holds when the worker is not stopped, its storage works   *)
(* and the account changes in a reset only.  A device without a keychain   *)
(* is blank but for deletions, or being wiped; what it holds is its own    *)
(* account's; and a sync that has pulled leaves the vault as it merged it. *)
(***************************************************************************)
After == Saving \cup {"clearQueue"}

\* Without a keychain only a deletion or a reset is at work, and once nothing is
\* being wiped only deletions are queued and nothing is stored.
Blank(k, v, q, c, ts) ==
  /\ k = None => \A h \in Handler :
       ts[h].pc \in Editing \cup Queueing => ts[h].op = "delete"
  /\ k = None /\ (\A h \in Handler : ts[h].pc \notin Wiping) =>
       (\A i \in Id : v[i] = Absent) /\ (\A e \in q : e.op = "delete") /\ c = 0
  /\ \A h \in Handler :
       /\ ts[h].pc = "wipeIdentities" => \A i \in Item : v[i] = Absent
       /\ ts[h].pc \in {"wipeQueue", "wipeCursor"} => \A i \in Id : v[i] = Absent
       /\ ts[h].pc = "wipeCursor" => q = {}

Mine(k, v) == k # None => \A i \in Id : v[i].by \in {None, k}

SyncHolds(s, v, sv, c) ==
  /\ s.drain /\ s.pc \in {"readKeys"} \cup Loading \cup Sending =>
       \A i \in Id : sv[i].seq <= c => sv[i].at <= s.deletedAt
  /\ s.pc \in Sending => s.from = c
  /\ s.pc \in {"saveItems", "saveIdentities", "clearQueue"} => c = s.upto
  /\ s.pc = "saveIdentities" => \A i \in Item : v[i] = s.snap[i]
  /\ s.pc = "clearQueue" => \A i \in Id : v[i] = s.snap[i]
  /\ s.pc \in After => \A i \in Id : s.snap[i].at <= sv[i].at
  /\ s.pc \in After /\ s.drain =>
       \A i \in s.tombs : sv[i].dead \/ Present(s.snap[i]) \/ sv[i].by # s.key

Replica ==
  Benign =>
    /\ Blank(keychain, vault, queue, cursor, task)
    /\ Mine(keychain, vault)
    /\ \A r \in Run : SyncHolds(run[r], vault, server, cursor)

\* The steps there are then, and what they run alongside: nothing.
LEMMA BenignStep ==
  ASSUME OInv, Benign, Next
  PROVE  /\ Orderly /\ Benign'
         /\ \/ \E h \in Handler : NoSync /\ (TaskBegins(h) \/ TaskStep(h))
            \/ \E a \in Account : keychain = None /\ NoTask /\ NoSync /\ InstallKeychain(a)
            \/ (StartTimer \/ StartManual) /\ NoTask /\ NoSync
            \/ \E r \in Run : NoTask /\ SyncStep(r) /\ \A q \in Run : q # r => run[q].pc = "idle"
            \/ Remote
            \/ \E r \in Run : NoTask /\ Offline(r) /\ \A q \in Run : q # r => run[q].pc = "idle"
<1>1. Orderly /\ Benign'
  BY AllowedStays DEF Benign, Orderly
<1>2. /\ "eviction" \notin allowed /\ "storage" \notin allowed /\ "rekey" \notin allowed
      /\ "opDuringSync" \notin allowed /\ "twoSyncs" \notin allowed /\ "twoOps" \notin allowed
  BY DEF Benign
<1>3. OneAtATime(task, run)
  BY <1>1 DEF OInv, Order
<1>4. ASSUME NEW h \in Handler, TaskBegins(h) PROVE NoSync
  BY <1>2, <1>4 DEF TaskBegins, BeginCreate, BeginUpdate, BeginTouch, BeginDelete,
                    BeginReset, MayBegin
<1>5. ASSUME NEW h \in Handler, TaskStep(h) PROVE NoSync
  <2>1. task[h].pc # "idle"
    BY <1>5 DEF TaskStep, LoadVault, WriteVault, LoadQueue, WriteQueue, Stage,
                WipeItems, WipeIdentities, WipeQueue, WipeCursor
  <2> QED BY <1>3, <2>1 DEF OneAtATime, NoSync
<1>6. ASSUME NEW r \in Run, SyncStep(r) \/ Offline(r)
      PROVE  NoTask /\ \A q \in Run : q # r => run[q].pc = "idle"
  <2>1. run[r].pc # "idle"
    BY <1>6 DEF SyncStep, ReadQueue, ReadKeys, LoadItems, LoadIdentities, LoadCursor, Push, SaveEcho, Pull, SaveCursor,
                SaveItems, SaveIdentities, ClearQueue, Offline
  <2> QED BY <1>3, <2>1 DEF OneAtATime, NoTask
<1>7. ASSUME NEW a \in Account, InstallKeychain(a)
      PROVE  keychain = None /\ NoTask /\ NoSync
  BY <1>2, <1>7 DEF InstallKeychain
<1>8. StartTimer \/ StartManual => NoTask /\ NoSync
  BY <1>2 DEF StartTimer, StartManual, MaySync
<1>9. Fault => \E r \in Run : Offline(r)
  BY <1>2 DEF Fault, SyncStorageFails, QueueStorageFails, TaskStorageFails, Evict
<1> QED BY <1>1, <1>4, <1>5, <1>6, <1>7, <1>8, <1>9 DEF Next

LEMMA IdleHolds ==
  ASSUME NEW s, s.pc = "idle" \/ (s.pc \in Fresh /\ (s.drain => s.pc = "readQueue")),
         NEW v, NEW sv, NEW c
  PROVE  SyncHolds(s, v, sv, c)
<1>1. /\ s.pc \notin Sending \cup After
      /\ s.drain => s.pc \notin {"readKeys"} \cup Loading
      /\ s.pc \notin {"saveItems", "saveIdentities", "clearQueue"}
  BY DEF Fresh, Loading, Sending, After, Saving
<1> QED BY <1>1 DEF SyncHolds

LEMMA ReplicaInit == Init => Replica
<1> SUFFICES ASSUME Init PROVE Replica
  OBVIOUS
<1>1. /\ \A h \in Handler : task[h].pc = "idle"
      /\ \A r \in Run : run[r].pc = "idle" /\ run[r].snap = EmptyVault
      /\ \A i \in Id : EmptyVault[i] = Absent
  BY DEF Init, IdleTask, IdleRun, EmptyVault
<1>2. Blank(keychain, vault, queue, cursor, task)
  BY <1>1 DEF Init, Blank, Editing, Queueing
<1>3. Mine(keychain, vault)
  BY <1>1 DEF Init, Mine, Absent
<1> QED BY <1>1, <1>2, <1>3, IdleHolds DEF Replica

LEMMA BlankNext ==
  ASSUME OInv, OInv', Replica, Benign, Next
  PROVE  Blank(keychain', vault', queue', cursor', task')
<1> DEFINE Goal == Blank(keychain', vault', queue', cursor', task')
<1> USE DEF disk, memory, external
<1>0. /\ TypeOK /\ TaskShape /\ Orderly /\ OneAtATime(task, run)
      /\ Blank(keychain, vault, queue, cursor, task)
      /\ \A h \in Handler : HandlerKnows(task[h], vault, queue, keychain)
  BY BenignStep DEF OInv, IInv, Order, Replica
<1>i. /\ IdleTask.pc = "idle" /\ \A i \in Id : EmptyVault[i] = Absent
  BY DEF IdleTask, EmptyVault
\* A handler that edits on a device with a keychain: nothing is blank.
<1>a. ASSUME NEW h \in Handler, OnlyTask(h), task'[h].pc \in {"idle"} \cup Editing \cup Queueing,
             keychain # None, keychain' = keychain,
             task[h].pc = "idle" => NoTask
      PROVE  Goal
  <2>1. \A g \in Handler : task'[g].pc \notin Wiping
    <3>1. \A g \in Handler : g # h => task'[g].pc = "idle"
      BY <1>0, <1>a DEF OnlyTask, OneAtATime, NoTask
    <3> QED BY <1>a, <3>1 DEF Wiping, Editing, Queueing
  <2> QED BY <1>a, <2>1 DEF Blank, Wiping
\* A deletion without one: what is blank stays so.
<1>c. ASSUME NEW h \in Handler, OnlyTask(h), keychain = None, keychain' = keychain,
             \A g \in Handler : g # h => task[g].pc = "idle",
             task[h].pc \notin Wiping,
             task'[h].pc \in {"idle"} \cup Editing \cup Queueing,
             task'[h].pc # "idle" => task'[h].op = "delete",
             cursor' = cursor, \A i \in Id : vault[i] = Absent => vault'[i] = Absent,
             \A e \in queue' : e \in queue \/ e.op = "delete"
      PROVE  Goal
  <2>1. \A g \in Handler : task'[g].pc \notin Wiping /\ task[g].pc \notin Wiping
    BY <1>c DEF OnlyTask, Wiping, Editing, Queueing
  <2>2. \A g \in Handler : task'[g].pc \in Editing \cup Queueing => task'[g].op = "delete"
    BY <1>c DEF OnlyTask, Editing, Queueing
  <2>3. /\ \A i \in Id : vault[i] = Absent
        /\ (\A e \in queue : e.op = "delete") /\ cursor = 0
    BY <1>0, <1>c, <2>1 DEF Blank
  <2> QED BY <1>c, <2>1, <2>2, <2>3 DEF Blank, Wiping
<1>b. ASSUME UNCHANGED <<keychain, vault, queue, cursor, task>> PROVE Goal
  BY <1>0, <1>b
<1>1. ASSUME NEW h \in Handler, TaskBegins(h) PROVE Goal
  <2>1. CASE BeginReset(h)
    <3>1. OnlyTask(h) /\ task'[h].pc = "wipeItems" /\ MayBegin(h)
      BY <1>0, <2>1, BeginResetEffect DEF BeginReset
    <3>2. \A g \in Handler : g # h => task'[g].pc = "idle"
      BY <1>0, <3>1 DEF OnlyTask, MayBegin, Orderly, NoTask
    <3> QED BY <3>1, <3>2 DEF Blank, Wiping, Editing, Queueing
  <2>2. CASE ~BeginReset(h)
    <3>1. PICK i, op, e : /\ i \in Id /\ Begin(h, op, i, e)
                          /\ UNCHANGED <<keychain, vault, queue, cursor>>
                          /\ MayBegin(h) /\ (keychain # None \/ op = "delete")
      BY <1>1, <2>2 DEF TaskBegins, BeginCreate, BeginUpdate, BeginTouch, BeginDelete
    <3>2. OnlyTask(h) /\ task'[h].pc = "loadVault" /\ task'[h].op = op
      BY <1>0, <3>1, BeginEffect
    <3>3. NoTask
      BY <1>0, <3>1 DEF MayBegin, Orderly
    <3>4. CASE keychain # None
      BY <1>a, <3>1, <3>2, <3>3, <3>4 DEF Editing
    <3>5. CASE keychain = None
      <4>1. \A g \in Handler : task[g].pc = "idle"
        BY <3>3 DEF NoTask
      <4>2. task[h].pc \notin Wiping /\ task'[h].pc \in Editing
        BY <3>2, <4>1 DEF Wiping, Editing
      <4> QED BY <1>c, <3>1, <3>2, <3>5, <4>1, <4>2
    <3> QED BY <3>4, <3>5
  <2> QED BY <2>1, <2>2
<1>2. ASSUME NEW h \in Handler, TaskStep(h), task[h].pc \notin Wiping PROVE Goal
  <2>1. /\ OnlyTask(h) /\ task'[h].pc \in {"idle"} \cup Editing \cup Queueing
        /\ task[h].pc \in Editing \cup Queueing
        /\ task'[h].pc # "idle" => task'[h].op = task[h].op
    <3>1. CASE LoadVault(h)
      BY <1>0, <3>1, LoadVaultEffect DEF Editing
    <3>2. CASE WriteVault(h)
      BY <1>0, <1>i, <3>2, WriteVaultEffect DEF Queueing, Editing
    <3>3. CASE LoadQueue(h)
      BY <1>0, <3>3, LoadQueueEffect DEF Queueing
    <3>4. CASE WriteQueue(h)
      BY <1>0, <1>i, <3>4, TaskIdle DEF WriteQueue, Queueing
    <3> QED BY <1>2, <3>1, <3>2, <3>3, <3>4 DEF TaskStep, WipeItems, WipeIdentities,
                                              WipeQueue, WipeCursor, Stage, Wiping
  <2>2. keychain' = keychain
    BY <1>2 DEF TaskStep, LoadVault, WriteVault, LoadQueue, WriteQueue,
                WipeItems, WipeIdentities, WipeQueue, WipeCursor
  <2>3. task[h].pc # "idle"
    BY <2>1 DEF Editing, Queueing
  <2>4. CASE keychain # None
    BY <1>a, <2>1, <2>2, <2>3, <2>4
  <2>5. CASE keychain = None
    <3>1. task[h].op = "delete" /\ cursor' = cursor
      BY <1>0, <1>2, <2>1, <2>5 DEF Blank, TaskStep, LoadVault, WriteVault, LoadQueue,
         WriteQueue, WipeItems, WipeIdentities, WipeQueue, WipeCursor, Stage, Wiping
    <3>2. \A g \in Handler : g # h => task[g].pc = "idle"
      BY <1>0, <2>3 DEF OneAtATime
    <3>3. \A i \in Id : vault[i] = Absent => vault'[i] = Absent
      <4>1. CASE WriteVault(h)
        <5>1. task[h].pc = "writeVault"
          BY <4>1 DEF WriteVault
        <5>2. task[h].view = vault
          BY <1>0, <5>1 DEF HandlerKnows
        <5>3. task[h].env = Absent
          BY <3>1, <5>1 DEF OInv, Always, Fits, TaskFit, Editing
        <5>4. \A i \in Id : vault'[i] \in {vault[i], Absent}
          BY <1>0, <4>1, <5>2, <5>3, WriteVaultEffect
        <5> QED BY <5>4
      <4>2. CASE ~WriteVault(h)
        BY <1>2, <4>2 DEF TaskStep, LoadVault, LoadQueue, WriteQueue, WipeItems,
                          WipeIdentities, WipeQueue, WipeCursor, Stage, Wiping
      <4> QED BY <4>1, <4>2
    <3>4. \A e \in queue' : e \in queue \/ e.op = "delete"
      <4>1. CASE WriteQueue(h)
        <5>1. task[h].pc = "writeQueue" /\ queue' = Enqueued(task[h].seen, "delete", task[h].id)
          BY <3>1, <4>1 DEF WriteQueue
        <5>2. task[h].seen = queue
          BY <1>0, <5>1 DEF HandlerKnows
        <5> QED BY <5>1, <5>2 DEF Enqueued
      <4>2. CASE ~WriteQueue(h)
        BY <1>2, <4>2 DEF TaskStep, LoadVault, WriteVault, LoadQueue, WipeItems,
                          WipeIdentities, WipeQueue, WipeCursor, Stage, Wiping
      <4> QED BY <4>1, <4>2
    <3> QED BY <1>2, <1>c, <2>1, <2>2, <2>5, <3>1, <3>2, <3>3, <3>4
  <2> QED BY <2>4, <2>5
<1>3. ASSUME NEW h \in Handler, TaskStep(h), task[h].pc \in Wiping PROVE Goal
  <2>0. /\ keychain = None /\ keychain' = keychain
        /\ \A g \in Handler : g # h => task[g].pc = "idle"
    <3>1. keychain' = keychain
      BY <1>3 DEF TaskStep, LoadVault, WriteVault, LoadQueue, WriteQueue,
                  WipeItems, WipeIdentities, WipeQueue, WipeCursor
    <3>2. keychain = None /\ task[h].pc # "idle"
      BY <1>0, <1>3 DEF HandlerKnows, Wiping
    <3> QED BY <1>0, <3>1, <3>2 DEF OneAtATime
  <2>1. CASE WipeItems(h)
    <3>1. OnlyTask(h) /\ task'[h].pc = "wipeIdentities"
      BY <1>0, <2>1, StageEffect DEF WipeItems, Stage
    <3>2. \A i \in Item : vault'[i] = Absent
      BY <1>i, <2>1 DEF WipeItems, Overwrite, Id
    <3> QED BY <2>0, <3>1, <3>2 DEF Blank, OnlyTask, Wiping, Editing, Queueing
  <2>2. CASE WipeIdentities(h)
    <3>1. OnlyTask(h) /\ task'[h].pc = "wipeQueue" /\ task[h].pc = "wipeIdentities"
      BY <1>0, <2>2, StageEffect DEF WipeIdentities, Stage
    <3>2. \A i \in Item : vault[i] = Absent
      BY <1>0, <3>1 DEF Blank
    <3>3. \A i \in Id : vault'[i] = Absent
      BY <1>i, <2>2, <3>2 DEF WipeIdentities, Overwrite, Id
    <3> QED BY <2>0, <3>1, <3>3 DEF Blank, OnlyTask, Wiping, Editing, Queueing
  <2>3. CASE WipeQueue(h)
    <3>1. /\ OnlyTask(h) /\ task'[h].pc = "wipeCursor" /\ task[h].pc = "wipeQueue"
          /\ queue' = {} /\ vault' = vault
      BY <1>0, <2>3, StageEffect DEF WipeQueue, Stage
    <3>2. \A i \in Id : vault'[i] = Absent
      BY <1>0, <3>1 DEF Blank
    <3> QED BY <2>0, <3>1, <3>2 DEF Blank, OnlyTask, Wiping, Editing, Queueing
  <2>4. CASE WipeCursor(h)
    <3>1. /\ OnlyTask(h) /\ task'[h].pc = "idle" /\ task[h].pc = "wipeCursor"
          /\ queue' = queue /\ vault' = vault /\ cursor' = 0
      BY <1>0, <1>i, <2>4, TaskIdle DEF WipeCursor
    <3>2. (\A i \in Id : vault'[i] = Absent) /\ queue' = {}
      BY <1>0, <3>1 DEF Blank
    <3> QED BY <2>0, <3>1, <3>2 DEF Blank, OnlyTask, Wiping, Editing, Queueing
  <2> QED BY <1>3, <2>1, <2>2, <2>3, <2>4 DEF TaskStep, LoadVault, WriteVault, LoadQueue,
                                             WriteQueue, Wiping
<1>4. ASSUME NEW a \in Account, InstallKeychain(a), NoTask PROVE Goal
  <2>1. keychain' = a /\ task' = task /\ a # None
    BY <1>4, ConstantsAssumption DEF InstallKeychain
  <2> QED BY <1>4, <2>1 DEF Blank, NoTask
<1>5. ASSUME StartTimer \/ StartManual \/ Remote \/ \E r \in Run : Offline(r) PROVE Goal
  BY <1>b, <1>5 DEF StartTimer, StartManual, Remote, RemoteWrite, RemoteDelete, Offline
<1>6. ASSUME NEW r \in Run, SyncStep(r), NoTask PROVE Goal
  <2>1. task' = task /\ keychain' = keychain
    BY <1>6 DEF SyncStep, ReadQueue, ReadKeys, LoadItems, LoadIdentities, LoadCursor, Push, SaveEcho, Pull, SaveCursor,
                SaveItems, SaveIdentities, ClearQueue
  <2>2. CASE keychain # None
    BY <1>6, <2>1, <2>2 DEF Blank, NoTask
  <2>3. CASE keychain = None
    <3>1. run[r].pc \in Fresh
      BY <1>0, <2>3 DEF OInv, Order, SyncKnows
    <3>2. UNCHANGED <<keychain, vault, queue, cursor, task>>
      BY <1>6, <3>1 DEF SyncStep, ReadQueue, ReadKeys, LoadItems, LoadIdentities, LoadCursor, Push, SaveEcho, Pull,
                        SaveCursor, SaveItems, SaveIdentities, ClearQueue, Fresh
    <3> QED BY <1>b, <3>2
  <2> QED BY <2>2, <2>3
<1> QED BY <1>1, <1>2, <1>3, <1>4, <1>5, <1>6, BenignStep

\* The account changes only on a device that holds nothing and does nothing.
LEMMA KeychainStep ==
  ASSUME OInv, Replica, Benign, [Next]_vars, keychain' # None
  PROVE  \/ keychain' = keychain
         \/ /\ keychain = None /\ NoTask /\ NoSync
            /\ (\A i \in Id : vault[i] = Absent) /\ cursor = 0
            /\ UNCHANGED <<vault, queue, cursor, task, run, server>>
<1> USE DEF disk, memory, external
<1>1. CASE UNCHANGED vars
  BY <1>1 DEF vars
<1>2. ASSUME NEW a \in Account, InstallKeychain(a), keychain = None, NoTask, NoSync
      PROVE  /\ (\A i \in Id : vault[i] = Absent) /\ cursor = 0
             /\ UNCHANGED <<vault, queue, cursor, task, run, server>>
  BY <1>2 DEF InstallKeychain, Replica, Blank, NoTask, Wiping
<1>3. ASSUME NEW h \in Handler, TaskBegins(h) \/ TaskStep(h) PROVE keychain' = keychain
  BY <1>3 DEF TaskBegins, BeginCreate, BeginUpdate, BeginTouch, BeginDelete, BeginReset,
              TaskStep, LoadVault, WriteVault, LoadQueue, WriteQueue,
              WipeItems, WipeIdentities, WipeQueue, WipeCursor
<1>4. ASSUME NEW r \in Run, SyncStep(r) PROVE keychain' = keychain
  BY <1>4 DEF SyncStep, ReadQueue, ReadKeys, LoadItems, LoadIdentities, LoadCursor, Push, SaveEcho, Pull, SaveCursor,
              SaveItems, SaveIdentities, ClearQueue
<1>5. StartTimer \/ StartManual \/ Remote \/ (\E r \in Run : Offline(r)) => keychain' = keychain
  BY DEF StartTimer, StartManual, Remote, RemoteWrite, RemoteDelete, Offline
<1> QED BY <1>1, <1>2, <1>3, <1>4, <1>5, BenignStep

LEMMA MineNext ==
  ASSUME OInv, OInv', Replica, Benign, Next
  PROVE  Mine(keychain', vault')
<1> SUFFICES ASSUME keychain' # None, NEW i \in Id
             PROVE  vault'[i].by \in {None, keychain'}
  BY DEF Mine
<1>0. Orderly /\ Absent.by = None
  BY BenignStep DEF Absent
<1>1. CASE keychain' = keychain
  <2>1. vault[i].by \in {None, keychain}
    BY <1>1 DEF Replica, Mine
  <2>2. ASSUME NEW h \in Handler, task[h].pc = "writeVault", vault'[i] = task[h].env
        PROVE  vault'[i].by \in {None, keychain}
    BY <1>0, <2>2, Written
  <2>3. ASSUME MayTake(keychain, vault'[i], vault[i], server[i])
        PROVE  vault'[i].by \in {None, keychain}
    BY <1>0, <2>1, <2>3 DEF MayTake
  <2> QED BY <1>0, <1>1, <2>1, <2>2, <2>3, VaultStep
<1>2. CASE keychain' # keychain
  BY <1>0, <1>2, KeychainStep
<1> QED BY <1>1, <1>2

LEMMA SyncStepHolds ==
  ASSUME OInv, Replica, Benign, NEW r \in Run, SyncStep(r)
  PROVE  OnlyRun(r) /\ SyncHolds(run'[r], vault', server', cursor')
<1> DEFINE Goal == OnlyRun(r) /\ SyncHolds(run'[r], vault', server', cursor')
<1> USE DEF disk, memory, external
<1>0. /\ TypeOK /\ SyncInv /\ Orderly /\ run[r] \in SyncRun
      /\ SyncKnows(run[r], vault, server, queue, keychain)
      /\ SyncHolds(run[r], vault, server, cursor)
      /\ cursor \in Nat /\ clock \in Nat /\ serverSeq \in Nat
  BY DEF OInv, IInv, Order, Replica, Benign, Orderly, TypeOK
<1>r. \A i \in Id : RecordFit(i, server[i], clock, minted, serverSeq)
  BY DEF OInv, Always, Fits
<1>b. Blanked(r) => Goal
  <2> SUFFICES ASSUME Blanked(r) PROVE Goal
    OBVIOUS
  <2>1. run'[r].pc \in Fresh /\ (run'[r].drain => run'[r].pc = "readQueue") /\ OnlyRun(r)
    BY DEF Blanked
  <2> QED BY <2>1, IdleHolds
<1>1. ASSUME ReadQueue(r) PROVE Goal
  <2>1. UNCHANGED <<server, cursor>>
    BY <1>1 DEF ReadQueue
  <2>2. \A i \in Id : server'[i].at <= run'[r].deletedAt
    BY <1>0, <1>1, <1>r, <2>1, ReadQueueEffect DEF RecordFit
  <2> QED BY <1>0, <1>1, <2>2, ReadQueueEffect DEF SyncHolds, Loading, Sending, After, Saving
<1>2. ASSUME ReadKeys(r) PROVE Goal
  <2>1. CASE keychain # None
    <3>1. /\ run' = [run EXCEPT ![r].pc = "loadItems", ![r].key = keychain]
          /\ run[r].pc = "readKeys" /\ UNCHANGED <<vault, server, cursor>>
      BY <1>2, <2>1 DEF ReadKeys
    <3>2. run[r].drain => \A i \in Id : server[i].seq <= cursor => server[i].at <= run[r].deletedAt
      BY <1>0, <3>1 DEF SyncHolds
    <3> QED BY <1>0, <3>1, <3>2, KeysEffect DEF SyncHolds, Loading, Sending, After, Saving
  <2>2. CASE keychain = None
    BY <1>0, <1>2, <1>b, <2>2, FailsEffect DEF ReadKeys
  <2> QED BY <2>1, <2>2
<1>3. ASSUME LoadItems(r) \/ LoadIdentities(r) PROVE Goal
  <2>1. UNCHANGED <<vault, server, cursor>> /\ run[r].pc \in Loading
    BY <1>3 DEF LoadItems, LoadIdentities, Loading
  <2>2. run[r].drain => \A i \in Id : server[i].seq <= cursor => server[i].at <= run[r].deletedAt
    BY <1>0, <2>1 DEF SyncHolds
  <2>3. /\ OnlyRun(r) /\ run'[r].pc \in {"loadIdentities", "loadCursor"}
        /\ run'[r].drain = run[r].drain /\ run'[r].deletedAt = run[r].deletedAt
    BY <1>0, <1>3, LoadItemsEffect, LoadIdentitiesEffect
  <2> QED BY <2>1, <2>2, <2>3 DEF SyncHolds, Loading, Sending, After, Saving
<1>3c. ASSUME LoadCursor(r) PROVE Goal
  <2>1. UNCHANGED <<vault, server, cursor>> /\ run[r].pc = "loadCursor"
    BY <1>3c DEF LoadCursor
  <2>2. run[r].drain => \A i \in Id : server[i].seq <= cursor => server[i].at <= run[r].deletedAt
    BY <1>0, <2>1 DEF SyncHolds, Loading
  <2> QED BY <1>0, <1>3c, <2>1, <2>2, LoadCursorEffect DEF SyncHolds, Loading, Sending, After, Saving
<1>4. ASSUME Push(r) PROVE Goal
  <2>1. /\ run[r].pc = "push" /\ run' = [run EXCEPT ![r].pc = "saveEcho"]
        /\ server' = Received(run[r].snap, run[r].tombs, run[r].deletedAt, serverSeq + 1)
        /\ UNCHANGED <<vault, cursor>>
    BY <1>4 DEF Push
  <2>2. /\ OnlyRun(r) /\ run'[r].pc = "saveEcho"
        /\ run'[r].drain = run[r].drain /\ run'[r].deletedAt = run[r].deletedAt
        /\ run'[r].from = run[r].from
    BY <1>0, <2>1, RunStageEffect
  <2>3. ASSUME NEW i \in Id, server'[i].seq <= cursor PROVE server'[i] = server[i]
    <3>1. PICK rec : rec = server'[i]
      OBVIOUS
    <3>2. rec = server[i] \/ rec.seq = serverSeq + 1
      BY <1>0, <2>1, <3>1, ReceivedKnows
    <3>3. ~(serverSeq + 1 <= cursor)
      BY <1>0 DEF OInv, Always, Fits
    <3> QED BY <2>3, <3>1, <3>2, <3>3
  <2>4. run[r].from = cursor /\ (run[r].drain =>
          \A i \in Id : server[i].seq <= cursor => server[i].at <= run[r].deletedAt)
    BY <1>0, <2>1 DEF SyncHolds, Sending
  <2> QED BY <2>1, <2>2, <2>3, <2>4 DEF SyncHolds, Loading, Sending, After, Saving
<1>5. ASSUME SaveEcho(r) PROVE Goal
  <2>1. /\ run[r].pc = "saveEcho" /\ run' = [run EXCEPT ![r].pc = "pull"]
        /\ cursor' = run[r].from /\ UNCHANGED <<vault, server>>
    BY <1>5 DEF SaveEcho
  <2>2. /\ OnlyRun(r) /\ run'[r].pc = "pull"
        /\ run'[r].drain = run[r].drain /\ run'[r].deletedAt = run[r].deletedAt
        /\ run'[r].from = run[r].from
    BY <1>0, <2>1, RunStageEffect
  <2>4. run[r].from = cursor /\ (run[r].drain =>
          \A i \in Id : server[i].seq <= cursor => server[i].at <= run[r].deletedAt)
    BY <1>0, <2>1 DEF SyncHolds, Sending
  <2> QED BY <2>1, <2>2, <2>4 DEF SyncHolds, Loading, Sending, After, Saving
<1>6. ASSUME Pull(r) PROVE Goal
  <2>1. /\ UNCHANGED <<vault, server, queue, keychain, cursor>>
        /\ run[r].key = keychain /\ keychain # None
        /\ \A i \in Id : run[r].snap[i].at <= server[i].at
        /\ run[r].from = cursor
        /\ run[r].drain =>
             /\ \A i \in Id : server[i].seq <= cursor => server[i].at <= run[r].deletedAt
             /\ run[r].tombs = Deletes(queue)
             /\ \A i \in run[r].tombs : server[i].dead \/ server[i].at > run[r].deletedAt
    BY <1>0, <1>6, PullEffect DEF Pull, SyncKnows, SyncHolds, Fresh, Sending, Pushed
  <2>2. ASSUME NEW i \in Id, NEW e, e = Merged(run[r])[i]
        PROVE  /\ e.at <= server[i].at
               /\ run[r].drain /\ i \in run[r].tombs =>
                    server[i].dead \/ Present(e) \/ server[i].by # run[r].key
    <3>0. /\ server[i].at \in Nat /\ server[i].seq \in Nat
          /\ run[r].snap[i].at \in Nat /\ run[r].deletedAt \in Nat
      BY <1>0 DEF TypeOK, Record, SyncRun, Vault, Envelope
    <3>1. e.at <= server[i].at
      BY <1>0, <2>1, <2>2, <3>0, MergedKnows DEF OInv, Absent
    <3>2. ASSUME run[r].drain, i \in run[r].tombs, ~server[i].dead,
                 server[i].by = run[r].key
          PROVE  Present(e)
      <4>1. /\ server[i].at > run[r].deletedAt /\ ~(server[i].seq <= cursor)
        BY <2>1, <3>0, <3>2
      <4>2. server[i].seq > 0 /\ server[i].seq > run[r].from
        BY <1>0, <2>1, <3>0, <4>1
      <4>3. server[i].by # None /\ server[i].at > 0
        BY <1>r, <3>2, <4>2 DEF RecordFit
      <4>4. server[i].by = keychain
        BY <2>1, <3>2
      <4>5. e.at >= server[i].at
        BY <1>0, <2>1, <2>2, <3>0, <3>2, <4>2, <4>4, MergedKnows DEF OInv
      <4>6. e.at \in Nat
        BY <1>0, <2>2, <3>0, MergedKnows DEF OInv, Absent
      <4> QED BY <3>0, <4>3, <4>5, <4>6 DEF Present
    <3> QED BY <3>1, <3>2
  <2>3. run[r].tombs \subseteq Id
    BY <1>0 DEF SyncRun
  <2> QED BY <1>0, <1>6, <2>1, <2>2, <2>3, PullEffect DEF SyncHolds, Loading, Sending, After, Saving
<1>7. ASSUME SaveCursor(r) PROVE Goal
  <2>1. /\ run[r].pc = "saveCursor" /\ run' = [run EXCEPT ![r].pc = "saveItems"]
        /\ cursor' = run[r].upto /\ UNCHANGED <<vault, server>>
    BY <1>7 DEF SaveCursor
  <2>2. /\ OnlyRun(r) /\ run'[r].pc = "saveItems"
        /\ run'[r].drain = run[r].drain /\ run'[r].snap = run[r].snap
        /\ run'[r].tombs = run[r].tombs /\ run'[r].upto = run[r].upto
        /\ run'[r].key = run[r].key
    BY <1>0, <2>1, RunStageEffect
  <2> QED BY <1>0, <2>1, <2>2 DEF SyncHolds, Loading, Sending, After, Saving
<1>8. ASSUME SaveItems(r) PROVE Goal
  <2>1. /\ run[r].pc = "saveItems" /\ run' = [run EXCEPT ![r].pc = "saveIdentities"]
        /\ vault' = Overwrite(Item, run[r].snap) /\ UNCHANGED <<server, cursor>>
    BY <1>8 DEF SaveItems
  <2>2. /\ OnlyRun(r) /\ run'[r].pc = "saveIdentities"
        /\ run'[r].drain = run[r].drain /\ run'[r].snap = run[r].snap
        /\ run'[r].tombs = run[r].tombs /\ run'[r].upto = run[r].upto
        /\ run'[r].key = run[r].key
    BY <1>0, <2>1, RunStageEffect
  <2>3. \A i \in Item : vault'[i] = run[r].snap[i]
    BY <2>1 DEF Overwrite, Id
  <2> QED BY <1>0, <2>1, <2>2, <2>3 DEF SyncHolds, Loading, Sending, After, Saving
<1>9. ASSUME SaveIdentities(r) PROVE Goal
  <2>1. /\ run[r].pc = "saveIdentities" /\ Returns(r, TRUE)
        /\ vault' = Overwrite(Identity, run[r].snap) /\ UNCHANGED <<server, cursor>>
    BY <1>9 DEF SaveIdentities
  <2>2. CASE run[r].drain
    <3>1. \A i \in Item : vault[i] = run[r].snap[i]
      BY <1>0, <2>1 DEF SyncHolds
    <3>2. \A i \in Id : vault'[i] = run[r].snap[i]
      BY <2>1, <3>1 DEF Overwrite, Id
    <3>3. /\ cursor = run[r].upto /\ run[r].pc \in After
          /\ \A i \in Id : run[r].snap[i].at <= server[i].at
          /\ \A i \in run[r].tombs : server[i].dead \/ Present(run[r].snap[i])
                                     \/ server[i].by # run[r].key
      BY <1>0, <2>1, <2>2 DEF SyncHolds, After, Saving
    <3>4. /\ OnlyRun(r) /\ run'[r].pc = "clearQueue" /\ run'[r].drain
          /\ run'[r].snap = run[r].snap /\ run'[r].tombs = run[r].tombs
          /\ run'[r].upto = run[r].upto /\ run'[r].key = run[r].key
      BY <1>0, <2>1, <2>2, SucceedsEffect
    <3> QED BY <2>1, <3>2, <3>3, <3>4 DEF SyncHolds, Loading, Sending, After, Saving
  <2>3. CASE ~run[r].drain
    BY <1>0, <1>b, <2>1, <2>3, SucceedsEffect
  <2> QED BY <2>2, <2>3
<1>10. ASSUME ClearQueue(r) PROVE Goal
  BY <1>0, <1>10, <1>b, AfterDrainEffect DEF ClearQueue
<1> QED
  BY <1>1, <1>2, <1>3, <1>3c, <1>4, <1>5, <1>6, <1>7, <1>8, <1>9, <1>10 DEF SyncStep

\* Other devices' changes come after every cursor.
LEMMA RemoteHolds ==
  ASSUME OInv, OInv', Replica, Benign, Remote, NEW r \in Run
  PROVE  SyncHolds(run[r], vault, server', cursor)
<1>0. /\ TypeOK /\ TypeOK' /\ Always /\ SyncHolds(run[r], vault, server, cursor)
      /\ cursor \in Nat /\ serverSeq \in Nat /\ cursor <= serverSeq
  BY DEF OInv, IInv, Replica, TypeOK, Always, Fits
<1>1. ASSUME NEW i \in Id
      PROVE  /\ server[i].at <= server'[i].at
             /\ server[i].dead => server'[i].dead
             /\ server'[i].seq <= cursor => server'[i] = server[i]
             /\ run[r].snap[i].at <= server[i].at => run[r].snap[i].at <= server'[i].at
  <2>1. server[i].at \in Nat /\ server'[i].at \in Nat /\ run[r].snap[i].at \in Nat
    BY <1>0 DEF TypeOK, Record, SyncRun, Vault, Envelope
  <2> QED BY <1>0, <2>1, RemoteKnows
<1>2. ASSUME NEW i \in run[r].tombs, server[i].by # run[r].key
      PROVE  server'[i].by # run[r].key
  <2>1. i \in Id /\ i \in minted
    BY <1>0 DEF TypeOK, SyncRun, Always, Fits, RunFit
  <2> QED BY <1>0, <1>2, <2>1, RemoteKnows
<1>3. run[r].tombs \subseteq Id
  BY <1>0 DEF TypeOK, SyncRun
<1> QED BY <1>0, <1>1, <1>2, <1>3 DEF SyncHolds

LEMMA ReplicaNext ==
  ASSUME OInv, OInv', Replica, [Next]_vars
  PROVE  Replica'
<1> USE DEF disk, memory, external
<1>1. CASE UNCHANGED vars
  BY <1>1 DEF vars, Replica, Benign
<1>2. CASE Next
  <2> SUFFICES ASSUME Benign PROVE Replica'
    BY <1>2, AllowedStays DEF Replica, Benign
  <2>0. TypeOK /\ TypeOK'
    BY DEF OInv, IInv
  <2>1. ASSUME NoSync, run' = run
        PROVE  \A q \in Run : SyncHolds(run'[q], vault', server', cursor')
    BY <2>1, IdleHolds DEF NoSync
  <2>2. ASSUME NEW r \in Run, OnlyRun(r), \A q \in Run : q # r => run[q].pc = "idle",
               SyncHolds(run'[r], vault', server', cursor')
        PROVE  \A q \in Run : SyncHolds(run'[q], vault', server', cursor')
    BY <2>2, IdleHolds DEF OnlyRun
  <2>3. ASSUME NEW r \in Run, Blanked(r), \A q \in Run : q # r => run[q].pc = "idle"
        PROVE  \A q \in Run : SyncHolds(run'[q], vault', server', cursor')
    <3>1. run'[r].pc \in Fresh /\ (run'[r].drain => run'[r].pc = "readQueue") /\ OnlyRun(r)
      BY <2>3 DEF Blanked
    <3> QED BY <2>2, <2>3, <3>1, IdleHolds
  <2>4. ASSUME NEW h \in Handler, TaskBegins(h) \/ TaskStep(h) PROVE run' = run
    BY <2>4 DEF TaskBegins, BeginCreate, BeginUpdate, BeginTouch, BeginDelete, BeginReset,
                TaskStep, LoadVault, WriteVault, LoadQueue, WriteQueue,
                WipeItems, WipeIdentities, WipeQueue, WipeCursor
  <2>5. ASSUME NEW a \in Account, InstallKeychain(a) PROVE run' = run
    BY <2>5 DEF InstallKeychain
  <2>6. ASSUME StartTimer \/ StartManual, NoSync
        PROVE  \A q \in Run : SyncHolds(run'[q], vault', server', cursor')
    <3>1. \E r \in Run : Blanked(r)
      BY <2>0, <2>6, BlankedEffect DEF StartTimer, StartManual, Run
    <3> QED BY <2>3, <2>6, <3>1 DEF NoSync
  <2>7. ASSUME NEW r \in Run, Offline(r) PROVE Blanked(r)
    BY <2>0, <2>7, FailsEffect DEF Offline
  <2>8. ASSUME Remote PROVE \A q \in Run : SyncHolds(run'[q], vault', server', cursor')
    <3>1. UNCHANGED <<run, vault, cursor>>
      BY <2>8 DEF Remote, RemoteWrite, RemoteDelete
    <3> QED BY <2>8, <3>1, RemoteHolds
  <2>9. \A q \in Run : SyncHolds(run'[q], vault', server', cursor')
    BY <1>2, <2>1, <2>2, <2>3, <2>4, <2>5, <2>6, <2>7, <2>8, BenignStep, SyncStepHolds
  <2> QED BY <1>2, <2>9, BlankNext, MineNext DEF Replica
<1> QED BY <1>1, <1>2

RInv == OInv /\ Replica

LEMMA RInvInit == Init => RInv
  BY OInvInit, ReplicaInit DEF RInv

LEMMA RInvNext == RInv /\ [Next]_vars => RInv'
  BY OInvNext, ReplicaNext DEF RInv

\* handleResetDevice wipes everything before the device can be given a keychain
\* again: no sync, answered or not, puts an envelope or the cursor back, and no
\* edit is left queued - only deletions, which pages that were open can still ask
\* for on the blank device.
THEOREM ResetIsComplete == Spec => []ResetLeavesNothing
<1>1. RInv => ResetLeavesNothing
  <2> SUFFICES ASSUME RInv, Benign, keychain = None, NoTask
               PROVE  /\ vault = EmptyVault /\ cursor = 0
                      /\ \A e \in queue : e.op = "delete" /\ e.id \in Deletable
    BY DEF ResetLeavesNothing
  <2>1. (\A i \in Id : vault[i] = Absent) /\ (\A e \in queue : e.op = "delete") /\ cursor = 0
    BY DEF RInv, Replica, Blank, NoTask, Wiping
  <2>2. vault \in [Id -> Envelope]
    BY DEF RInv, OInv, IInv, TypeOK, Vault
  <2>3. \A e \in queue : EntryFit(e, minted)
    BY DEF RInv, OInv, Always, Fits
  <2> QED BY <2>1, <2>2, <2>3 DEF EmptyVault, EntryFit
<1> QED BY <1>1, RInvInit, RInvNext, PTL DEF Spec

-----------------------------------------------------------------------------
(***************************************************************************)
(* Honest: what the cursor says was fetched is held, seen id by id.  While *)
(* a sync saves what it merged, that holds of its copy.  An id may be      *)
(* deleted only if it is an item, whose tombstones are obeyed, and the     *)
(* only one ever deleted, whose queue entry no other deletion drops.       *)
(***************************************************************************)
CaughtUp(e, rec, c, k, excused) ==
  rec.seq \in 1..c =>
    /\ ~rec.dead /\ rec.by = k => e.at >= rec.at \/ excused
    /\ rec.dead => ~Present(e)

Deleting(i, q, ts) ==
  i \in Deletes(q) \/ \E h \in Handler : ts[h].op = "delete" /\ ts[h].id = i

HonestFor(i, k, v, sv, q, c, ts, rs) ==
  /\ (\A r \in Run : rs[r].pc \notin After) =>
       CaughtUp(v[i], sv[i], c, k, Deleting(i, q, ts))
  /\ \A h \in Handler :
       ts[h].pc \in Editing /\ ts[h].op # "delete" /\ ts[h].id = i =>
         ~(sv[i].dead /\ sv[i].seq <= c)
  /\ \A r \in Run : rs[r].pc \in After =>
       CaughtUp(rs[r].snap[i], sv[i], rs[r].upto, k, ~rs[r].drain /\ Deleting(i, q, ts))

Sole(i) == i \in Deletable => i \in Item /\ \A j \in Deletable : j = i

Honest ==
  Benign /\ keychain # None =>
    \A i \in Id : Sole(i) =>
      HonestFor(i, keychain, vault, server, queue, cursor, task, run)

LEMMA HonestInit == Init => Honest
<1> SUFFICES ASSUME Init, NEW i \in Id
             PROVE  HonestFor(i, keychain, vault, server, queue, cursor, task, run)
  BY DEF Honest
<1>1. /\ \A h \in Handler : task[h].pc = "idle"
      /\ \A r \in Run : run[r].pc = "idle"
      /\ cursor = 0 /\ server[i].seq = 0
  BY DEF Init, IdleTask, IdleRun, NoRecord
<1> QED BY <1>1 DEF HonestFor, CaughtUp, After, Saving, Editing

\* What is known while an id is served, without the quantifiers.
LEMMA HonestHandler ==
  ASSUME OInv, Replica, Benign, Orderly, keychain # None, keychain' = keychain,
         NEW i \in Id, NEW h \in Handler, OnlyTask(h), NoSync,
         UNCHANGED <<run, server, cursor>>,
         HonestFor(i, keychain, vault, server, queue, cursor, task, run),
         CaughtUp(vault[i], server[i], cursor, keychain, Deleting(i, queue, task)) =>
           CaughtUp(vault'[i], server[i], cursor, keychain, Deleting(i, queue', task')),
         task'[h].pc \in Editing /\ task'[h].op # "delete" /\ task'[h].id = i =>
           ~(server[i].dead /\ server[i].seq <= cursor)
  PROVE  HonestFor(i, keychain', vault', server', queue', cursor', task', run')
<1>1. \A r \in Run : run'[r].pc \notin After /\ run[r].pc \notin After
  BY DEF NoSync, After, Saving
<1>2. \A g \in Handler : g # h => task'[g] = task[g]
  BY DEF OnlyTask
<1>3. CaughtUp(vault'[i], server'[i], cursor', keychain', Deleting(i, queue', task'))
  BY <1>1 DEF HonestFor
<1>4. \A g \in Handler :
       task'[g].pc \in Editing /\ task'[g].op # "delete" /\ task'[g].id = i =>
         ~(server'[i].dead /\ server'[i].seq <= cursor')
  BY <1>2 DEF HonestFor
<1> QED BY <1>1, <1>3, <1>4 DEF HonestFor

LEMMA HonestBegins ==
  ASSUME OInv, Replica, Benign, keychain # None, keychain' = keychain,
         NEW i \in Id, Sole(i), NEW h \in Handler, TaskBegins(h), NoSync,
         HonestFor(i, keychain, vault, server, queue, cursor, task, run)
  PROVE  HonestFor(i, keychain', vault', server', queue', cursor', task', run')
<1> USE DEF disk, memory, external
<1>0. /\ TypeOK /\ Orderly
      /\ RecordFit(i, server[i], clock, minted, serverSeq)
      /\ Fit(i, vault[i], clock, minted) /\ server[i].seq \in Nat /\ cursor \in Nat
  BY DEF OInv, IInv, Benign, Orderly, Always, Fits, TypeOK, Record
<1>1. ~BeginReset(h)
  BY DEF BeginReset
<1>2. PICK j, op, e :
        /\ j \in Id /\ Begin(h, op, j, e) /\ MayBegin(h)
        /\ UNCHANGED <<vault, queue, cursor, run, server>>
        /\ op # "delete" => vault[j].by # None \/ j \notin minted \/ j \notin Item
  BY <1>1 DEF TaskBegins, BeginCreate, BeginUpdate, BeginTouch, BeginDelete
<1>3. OnlyTask(h) /\ task'[h].op = op /\ task'[h].id = j
  BY <1>0, <1>2, BeginEffect
<1>4. task[h].pc = "idle" /\ TaskFit(task[h], clock, minted)
  BY <1>2 DEF MayBegin, OInv, Always, Fits
<1>5. task[h].op # "delete"
  BY <1>4 DEF TaskFit, IdleTask
<1>6. Deleting(i, queue, task) => Deleting(i, queue', task')
  BY <1>2, <1>3, <1>5 DEF Deleting, OnlyTask
<1>7. CaughtUp(vault[i], server[i], cursor, keychain, Deleting(i, queue, task)) =>
        CaughtUp(vault'[i], server[i], cursor, keychain, Deleting(i, queue', task'))
  BY <1>2, <1>6 DEF CaughtUp
<1>8. CaughtUp(vault[i], server[i], cursor, keychain, Deleting(i, queue, task))
  BY DEF HonestFor, NoSync, After, Saving
<1>9. op # "delete" /\ j = i => ~(server[i].dead /\ server[i].seq <= cursor)
  <2> SUFFICES ASSUME op # "delete", j = i, server[i].dead, server[i].seq <= cursor
               PROVE  FALSE
    OBVIOUS
  <2>1. server[i].seq # 0 /\ i \in minted /\ i \in Item
    BY <1>0 DEF RecordFit, NoRecord, Sole
  <2>2. Present(vault[i])
    BY <1>0, <1>2, <2>1 DEF Fit
  <2> QED BY <1>0, <1>8, <2>1, <2>2 DEF CaughtUp
<1> QED BY <1>0, <1>2, <1>3, <1>7, <1>9, HonestHandler

LEMMA HonestTaskStep ==
  ASSUME OInv, Replica, Benign, keychain # None, keychain' = keychain,
         NEW i \in Id, Sole(i), NEW h \in Handler, TaskStep(h), NoSync,
         HonestFor(i, keychain, vault, server, queue, cursor, task, run)
  PROVE  HonestFor(i, keychain', vault', server', queue', cursor', task', run')
<1> DEFINE t == task[h]
           Goal == HonestFor(i, keychain', vault', server', queue', cursor', task', run')
           Was  == CaughtUp(vault[i], server[i], cursor, keychain, Deleting(i, queue, task))
           Is   == CaughtUp(vault'[i], server[i], cursor, keychain, Deleting(i, queue', task'))
<1> USE DEF disk, memory, external
<1>0. /\ TypeOK /\ TaskShape /\ Orderly /\ OneAtATime(task, run)
      /\ HandlerKnows(t, vault, queue, keychain) /\ TaskFit(t, clock, minted)
      /\ vault[i].at \in Nat /\ server[i].at \in Nat
      /\ t.pc \in Editing => t.env.at \in Nat
      /\ \A e \in queue : EntryFit(e, minted)
      /\ RecordFit(i, server[i], clock, minted, serverSeq)
  BY DEF OInv, IInv, Benign, Orderly, Order, Always, Fits, TypeOK, Vault, Envelope, Task,
         Record
<1>n. t.pc \notin Wiping
  BY <1>0 DEF HandlerKnows
<1>k. ASSUME NEW g \in Handler, task[g].op = "delete", t.pc # "idle" PROVE g = h
  <2>1. TaskFit(task[g], clock, minted) /\ IdleTask.op # "delete"
    BY DEF OInv, Always, Fits, IdleTask
  <2> QED BY <1>0, <1>k, <2>1 DEF TaskFit, OneAtATime
<1>e. t.pc \in Editing /\ t.op # "delete" /\ t.id = i => ~(server[i].dead /\ server[i].seq <= cursor)
  BY DEF HonestFor
<1>u. Deleting(i, queue, task) => i \in Deletable
  <2>1. i \in Deletes(queue) => i \in Deletable
    BY <1>0 DEF Deletes, EntryFit
  <2>2. ASSUME NEW g \in Handler, task[g].op = "delete", task[g].id = i PROVE i \in Deletable
    <3>1. TaskFit(task[g], clock, minted) /\ IdleTask.op # "delete"
      BY DEF OInv, Always, Fits, IdleTask
    <3>2. task[g].pc \in Editing \cup Queueing
      BY <1>0, <2>2, <3>1 DEF TaskFit, TypeOK, Task, TaskStage, Editing, Queueing, Wiping
    <3> QED BY <2>2, <3>1, <3>2 DEF TaskFit
  <2> QED BY <2>1, <2>2 DEF Deleting
<1>1. ASSUME LoadVault(h) PROVE Goal
  <2>1. UNCHANGED <<vault, queue, cursor, run, server>>
    BY <1>1 DEF LoadVault
  <2>2. /\ OnlyTask(h) /\ t.pc \in Editing /\ task'[h].op = t.op /\ task'[h].id = t.id
    BY <1>0, <1>1, LoadVaultEffect DEF Editing
  <2>3. Deleting(i, queue, task) => Deleting(i, queue', task')
    BY <2>1, <2>2 DEF Deleting, OnlyTask
  <2>4. Was => Is
    BY <2>1, <2>3 DEF CaughtUp
  <2> QED BY <1>0, <1>e, <2>1, <2>2, <2>4, HonestHandler
<1>2. ASSUME WriteVault(h) PROVE Goal
  <2>1. UNCHANGED <<queue, cursor, run, server>>
    BY <1>2 DEF WriteVault
  <2>2. /\ OnlyTask(h) /\ t.pc = "writeVault" /\ t.pc \in Editing /\ t.pc # "idle"
        /\ t.view = vault /\ vault'[t.id] = t.env
        /\ i # t.id => vault'[i] = vault[i]
        /\ task'[h].pc \notin Editing
        /\ t.op # "touch" => task'[h].op = t.op /\ task'[h].id = t.id
    <3>1. t.pc = "writeVault" /\ t.view = vault
      BY <1>0, <1>2, WriteVaultEffect DEF HandlerKnows
    <3>2. IdleTask.pc = "idle"
      BY DEF IdleTask
    <3> QED BY <1>0, <1>2, <3>1, <3>2, WriteVaultEffect DEF Editing
  <2>3. Deleting(i, queue, task) => Deleting(i, queue', task')
    BY <1>k, <2>1, <2>2 DEF Deleting, OnlyTask
  <2>4. Was => Is
    <3>1. CASE i # t.id
      BY <2>2, <2>3, <3>1 DEF CaughtUp
    <3>2. CASE i = t.id /\ t.op = "delete"
      <4>1. t.env = Absent
        BY <1>0, <2>2, <3>2 DEF TaskFit
      <4>2. Deleting(i, queue', task')
        BY <2>2, <3>2 DEF Deleting
      <4> QED BY <2>2, <3>2, <4>1, <4>2, AbsentFits DEF CaughtUp, Present, Absent
    <3>3. CASE i = t.id /\ t.op # "delete"
      <4>1. t.env.at >= vault[i].at
        BY <1>0, <2>2, <3>3 DEF HandlerKnows
      <4>2. server[i].seq \in 1..cursor => ~server[i].dead
        BY <1>0, <1>e, <2>2, <3>3
      <4>3. t.env.at \in Nat /\ vault'[i] = t.env
        BY <1>0, <2>2, <3>3
      <4> QED BY <1>0, <2>3, <4>1, <4>2, <4>3 DEF CaughtUp
    <3> QED BY <3>1, <3>2, <3>3
  <2> QED BY <1>0, <2>1, <2>2, <2>4, HonestHandler
<1>3. ASSUME LoadQueue(h) PROVE Goal
  <2>1. UNCHANGED <<vault, queue, cursor, run, server>>
    BY <1>3 DEF LoadQueue
  <2>2. /\ OnlyTask(h) /\ task'[h].pc \notin Editing
        /\ task'[h].op = t.op /\ task'[h].id = t.id
    BY <1>0, <1>3, LoadQueueEffect DEF Editing
  <2>3. Deleting(i, queue, task) => Deleting(i, queue', task')
    BY <2>1, <2>2 DEF Deleting, OnlyTask
  <2>4. Was => Is
    BY <2>1, <2>3 DEF CaughtUp
  <2> QED BY <1>0, <2>1, <2>2, <2>4, HonestHandler
<1>4. ASSUME WriteQueue(h) PROVE Goal
  <2>1. /\ UNCHANGED <<vault, cursor, run, server>> /\ task' = [task EXCEPT ![h] = IdleTask]
        /\ t.pc = "writeQueue" /\ t.seen = queue /\ t.op \in Op
        /\ queue' = Enqueued(queue, t.op, t.id)
    BY <1>0, <1>4 DEF WriteQueue, HandlerKnows, TaskShape
  <2>2. OnlyTask(h) /\ task'[h].pc \notin Editing
    <3>1. IdleTask.pc \notin Editing
      BY DEF IdleTask, Editing
    <3>2. OnlyTask(h) /\ task'[h] = IdleTask
      BY <1>0, <2>1, TaskIdle
    <3> QED BY <3>1, <3>2
  <2>3. Deleting(i, queue, task) => i \in Deletes(queue')
    <3> SUFFICES ASSUME Deleting(i, queue, task) PROVE i \in Deletes(queue')
      OBVIOUS
    <3>1. i \in Deletes(queue) \/ (t.op = "delete" /\ t.id = i)
      BY <1>k, <2>1 DEF Deleting
    <3>2. CASE t.op = "delete"
      <4>1. t.id = i
        BY <1>0, <1>u, <2>1, <3>2 DEF TaskFit, Queueing, Sole
      <4>2. [op |-> "delete", id |-> t.id] \in queue'
        BY <2>1, <3>2 DEF Enqueued
      <4> QED BY <4>1, <4>2 DEF Deletes
    <3>3. CASE t.op # "delete"
      <4>1. queue \subseteq queue'
        BY <2>1, <3>3 DEF Enqueued, Op
      <4> QED BY <3>1, <3>3, <4>1 DEF Deletes
    <3> QED BY <3>2, <3>3
  <2>4. Was => Is
    BY <2>1, <2>3 DEF CaughtUp, Deleting
  <2> QED BY <1>0, <2>1, <2>2, <2>4, HonestHandler
<1> QED BY <1>n, <1>1, <1>2, <1>3, <1>4 DEF TaskStep, WipeItems, WipeIdentities, WipeQueue,
                                           WipeCursor, Stage, Wiping

\* A sync that has saved nothing yet, and a server that only moves on: what the
\* cursor covers is as it was.
LEMMA HonestMoves ==
  ASSUME OInv, Replica, Benign, keychain # None, keychain' = keychain,
         NEW i \in Id, cursor' = cursor, UNCHANGED <<vault, queue, task>>,
         server'[i].seq <= cursor => server'[i] = server[i],
         \A r \in Run : run[r].pc \notin After /\ run'[r].pc \notin After,
         HonestFor(i, keychain, vault, server, queue, cursor, task, run)
  PROVE  HonestFor(i, keychain', vault', server', queue', cursor', task', run')
<1>0. cursor \in Nat
  BY DEF OInv, IInv, TypeOK
<1>1. CaughtUp(vault[i], server[i], cursor, keychain, Deleting(i, queue, task))
  BY DEF HonestFor
<1>2. CaughtUp(vault[i], server'[i], cursor, keychain, Deleting(i, queue, task))
  <2> SUFFICES ASSUME server'[i].seq \in 1..cursor
               PROVE  server'[i] = server[i]
    BY <1>1 DEF CaughtUp
  <2> QED BY <1>0
<1> QED BY <1>2 DEF HonestFor

\* A sync that is saving: only its copy has to be up to date.
LEMMA HonestSaving ==
  ASSUME NEW i \in Id, NEW r \in Run, NEW k, NEW v, NEW sv, NEW q, NEW c, NEW ts, NEW rs,
         rs[r].pc \in After, \A x \in Run : x # r => rs[x].pc = "idle",
         \A h \in Handler : ts[h].pc = "idle",
         CaughtUp(rs[r].snap[i], sv[i], rs[r].upto, k, ~rs[r].drain /\ Deleting(i, q, ts))
  PROVE  HonestFor(i, k, v, sv, q, c, ts, rs)
  BY DEF HonestFor, After, Saving, Editing

LEMMA HonestPull ==
  ASSUME OInv, Replica, Benign, keychain # None,
         NEW i \in Id, Sole(i), NEW r \in Run, Pull(r), NoTask,
         CaughtUp(vault[i], server[i], cursor, keychain, Deleting(i, queue, task)),
         NEW e, e = Merged(run[r])[i]
  PROVE  CaughtUp(e, server[i], serverSeq, keychain,
                  ~run[r].drain /\ Deleting(i, queue, task))
<1>0. /\ TypeOK /\ Always /\ Orderly /\ run[r] \in SyncRun
      /\ RecordFit(i, server[i], clock, minted, serverSeq)
      /\ server[i].at \in Nat /\ server[i].seq \in Nat /\ server[i].dead \in BOOLEAN
      /\ vault[i].at \in Nat /\ run[r].deletedAt \in Nat /\ run[r].snap[i].at \in Nat
      /\ cursor \in Nat
  BY DEF OInv, IInv, Benign, Orderly, Always, Fits, TypeOK, Record, Vault, Envelope, SyncRun
<1>1. /\ run[r].key = keychain /\ run[r].from = cursor
      /\ run[r].snap[i] = IF vault[i].by = keychain THEN vault[i] ELSE Absent
      /\ run[r].drain =>
           /\ server[i].seq <= cursor => server[i].at <= run[r].deletedAt
           /\ i \in Deletes(queue) => server[i].dead \/ server[i].at > run[r].deletedAt
  <2>1. /\ SyncKnows(run[r], vault, server, queue, keychain)
        /\ SyncHolds(run[r], vault, server, cursor)
        /\ run[r].pc = "pull"
    BY <1>0, PullEffect DEF OInv, Order, Replica
  <2> QED BY <2>1 DEF SyncKnows, SyncHolds, Fresh, Sending, Pushed
<1>2. \/ e = run[r].snap[i] /\ (server[i].seq > cursor =>
              \/ server[i].dead /\ i \notin Item
              \/ ~server[i].dead /\ (server[i].by # keychain \/ server[i].at <= run[r].snap[i].at))
      \/ e = Absent /\ server[i].dead /\ server[i].seq > cursor
      \/ /\ e.at = server[i].at /\ e.by = keychain /\ ~server[i].dead
  BY <1>0, <1>1, MergedKnows
<1>3. ASSUME server[i].dead, server[i].seq \in 1..serverSeq PROVE ~Present(e)
  <2>1. i \in Item
    BY <1>0, <1>3 DEF RecordFit, Sole
  <2>2. CASE server[i].seq > cursor
    BY <1>0, <1>2, <1>3, <2>1, <2>2, AbsentFits
  <2>3. CASE ~(server[i].seq > cursor)
    <3>1. server[i].seq \in 1..cursor
      BY <1>0, <1>3, <2>3
    <3>2. ~Present(vault[i])
      BY <1>3, <3>1 DEF CaughtUp
    <3> QED BY <1>1, <1>2, <1>3, <2>1, <2>3, <3>2, AbsentFits
  <2> QED BY <2>2, <2>3
<1>4. ASSUME ~server[i].dead, server[i].by = keychain, server[i].seq \in 1..serverSeq
      PROVE  e.at >= server[i].at \/ (~run[r].drain /\ Deleting(i, queue, task))
  <2>1. CASE server[i].seq > cursor
    BY <1>0, <1>2, <1>4, <2>1
  <2>2. CASE ~(server[i].seq > cursor)
    <3>1. server[i].seq \in 1..cursor /\ server[i].seq <= cursor
      BY <1>0, <1>4, <2>2
    <3>2. vault[i].at >= server[i].at \/ Deleting(i, queue, task)
      BY <1>4, <3>1 DEF CaughtUp
    <3>3. e = run[r].snap[i] \/ e.at = server[i].at
      BY <1>2, <1>4
    <3>4. ASSUME vault[i].at >= server[i].at PROVE e.at >= server[i].at
      <4>1. server[i].at > 0
        BY <1>0, <1>4, <3>1 DEF RecordFit
      <4>2. vault[i].by = keychain
        <5>1. Present(vault[i])
          BY <1>0, <3>4, <4>1 DEF Present
        <5> QED BY <5>1 DEF Replica, Mine, OInv, Always, Fits, Fit
      <4> QED BY <1>0, <1>1, <3>3, <3>4, <4>2
    <3>5. ASSUME run[r].drain, Deleting(i, queue, task) PROVE FALSE
      <4>1. ~\E h \in Handler : task[h].op = "delete"
        <5>1. \A h \in Handler : TaskFit(task[h], clock, minted)
          BY DEF OInv, Always, Fits
        <5>2. IdleTask.op # "delete"
          BY DEF IdleTask
        <5> QED BY <5>1, <5>2 DEF NoTask, TaskFit
      <4> QED BY <1>0, <1>1, <1>4, <3>1, <3>5, <4>1 DEF Deleting
    <3> QED BY <3>2, <3>4, <3>5
  <2> QED BY <2>1, <2>2
<1> QED BY <1>3, <1>4 DEF CaughtUp

LEMMA HonestSyncStep ==
  ASSUME OInv, Replica, Benign, keychain # None, keychain' = keychain,
         NEW i \in Id, Sole(i), NEW r \in Run, SyncStep(r), NoTask,
         \A q \in Run : q # r => run[q].pc = "idle",
         HonestFor(i, keychain, vault, server, queue, cursor, task, run)
  PROVE  HonestFor(i, keychain', vault', server', queue', cursor', task', run')
<1> DEFINE Goal == HonestFor(i, keychain', vault', server', queue', cursor', task', run')
           Kept == CaughtUp(run[r].snap[i], server[i], run[r].upto, keychain,
                            ~run[r].drain /\ Deleting(i, queue, task))
<1> USE DEF disk, memory, external
<1>0. /\ TypeOK /\ SyncInv /\ Orderly /\ run[r] \in SyncRun
      /\ SyncHolds(run[r], vault, server, cursor)
      /\ cursor \in Nat /\ serverSeq \in Nat /\ cursor <= serverSeq
  BY DEF OInv, IInv, Benign, Orderly, Replica, TypeOK, Always, Fits
<1>1. ASSUME run[r].pc \notin After
      PROVE  /\ CaughtUp(vault[i], server[i], cursor, keychain, Deleting(i, queue, task))
             /\ \A q \in Run : run[q].pc \notin After
  BY <1>1 DEF HonestFor, After, Saving
<1>2. run[r].pc \in After => Kept
  BY DEF HonestFor
<1>a. ASSUME OnlyRun(r), run[r].pc \notin After, run'[r].pc \notin After, cursor' = cursor,
             UNCHANGED <<vault, queue, task>>,
             server'[i].seq <= cursor => server'[i] = server[i]
      PROVE  Goal
  <2>1. \A q \in Run : run[q].pc \notin After /\ run'[q].pc \notin After
    BY <1>1, <1>a DEF OnlyRun
  <2> QED BY <1>a, <2>1, HonestMoves
<1>b. ASSUME OnlyRun(r), run[r].pc \in After, run'[r].pc \in After,
             run'[r].snap = run[r].snap, run'[r].upto = run[r].upto,
             run'[r].drain = run[r].drain, UNCHANGED <<queue, task, server>>
      PROVE  Goal
  <2>1. /\ \A q \in Run : q # r => run'[q].pc = "idle"
        /\ \A h \in Handler : task'[h].pc = "idle"
    BY <1>b DEF OnlyRun, NoTask
  <2>2. CaughtUp(run'[r].snap[i], server'[i], run'[r].upto, keychain',
                 ~run'[r].drain /\ Deleting(i, queue', task'))
    BY <1>2, <1>b DEF Deleting
  <2> QED BY <1>b, <2>1, <2>2, HonestSaving
\* The sync is over, and the vault is what it merged.
<1>c. ASSUME Blanked(r), run[r].pc \in After, vault'[i] = run[r].snap[i],
             cursor' = cursor, cursor = run[r].upto, UNCHANGED <<task, server>>,
             run[r].drain \/ queue' = queue
      PROVE  Goal
  <2>1. \A q \in Run : run'[q].pc \notin After
    BY <1>c DEF Blanked, OnlyRun, Fresh, After, Saving
  <2>2. CaughtUp(vault'[i], server'[i], cursor', keychain', Deleting(i, queue', task'))
    BY <1>2, <1>c DEF CaughtUp, Deleting
  <2>3. \A h \in Handler : task'[h].pc \notin Editing
    BY <1>c DEF NoTask, Editing
  <2> QED BY <2>1, <2>2, <2>3 DEF HonestFor
<1>d. ASSUME Blanked(r), run[r].pc \notin After, UNCHANGED <<vault, queue, task, cursor, server>>
      PROVE  Goal
  <2>1. OnlyRun(r) /\ run'[r].pc \notin After
    BY <1>d DEF Blanked, Fresh, After, Saving
  <2> QED BY <1>a, <1>d, <2>1
<1>3. ASSUME ReadQueue(r) PROVE Goal
  <2>1. UNCHANGED <<vault, queue, task, cursor, server>>
    BY <1>3 DEF ReadQueue
  <2>2. OnlyRun(r) /\ run[r].pc \notin After /\ run'[r].pc \notin After
    BY <1>0, <1>3, ReadQueueEffect DEF After, Saving
  <2> QED BY <1>a, <2>1, <2>2
<1>4. ASSUME ReadKeys(r) PROVE Goal
  <2>1. /\ UNCHANGED <<vault, queue, task, cursor, server>>
        /\ run' = [run EXCEPT ![r].pc = "loadItems", ![r].key = keychain]
        /\ run[r].pc = "readKeys"
    BY <1>4 DEF ReadKeys
  <2>2. OnlyRun(r) /\ run[r].pc \notin After /\ run'[r].pc \notin After
    BY <1>0, <2>1, KeysEffect DEF After, Saving
  <2> QED BY <1>a, <2>1, <2>2
<1>5. ASSUME LoadItems(r) \/ LoadIdentities(r) PROVE Goal
  <2>1. UNCHANGED <<vault, queue, task, cursor, server>> /\ run[r].pc \in Loading
    BY <1>5 DEF LoadItems, LoadIdentities, Loading
  <2>2. OnlyRun(r) /\ run'[r].pc \in {"loadIdentities", "loadCursor"}
    BY <1>0, <1>5, LoadItemsEffect, LoadIdentitiesEffect
  <2>3. run[r].pc \notin After /\ run'[r].pc \notin After
    BY <2>1, <2>2 DEF After, Saving, Loading
  <2> QED BY <1>a, <2>1, <2>2, <2>3
<1>5c. ASSUME LoadCursor(r) PROVE Goal
  <2>1. UNCHANGED <<vault, queue, task, cursor, server>>
    BY <1>5c DEF LoadCursor
  <2>2. OnlyRun(r) /\ run[r].pc \notin After /\ run'[r].pc \notin After
    BY <1>0, <1>5c, LoadCursorEffect DEF After, Saving
  <2> QED BY <1>a, <2>1, <2>2
<1>6. ASSUME Push(r) PROVE Goal
  <2>1. /\ run[r].pc = "push" /\ run' = [run EXCEPT ![r].pc = "saveEcho"]
        /\ server' = Received(run[r].snap, run[r].tombs, run[r].deletedAt, serverSeq + 1)
        /\ UNCHANGED <<vault, queue, task, cursor>>
    BY <1>6 DEF Push
  <2>2. OnlyRun(r) /\ run[r].pc \notin After /\ run'[r].pc \notin After
    <3>1. OnlyRun(r) /\ run'[r].pc = "saveEcho"
      BY <1>0, <2>1, RunStageEffect
    <3> QED BY <2>1, <3>1 DEF After, Saving
  <2>3. server'[i].seq <= cursor => server'[i] = server[i]
    <3>1. PICK rec : rec = server'[i]
      OBVIOUS
    <3>2. rec = server[i] \/ rec.seq = serverSeq + 1
      BY <1>0, <2>1, <3>1, ReceivedKnows
    <3>3. ~(serverSeq + 1 <= cursor)
      BY <1>0
    <3> QED BY <3>1, <3>2, <3>3
  <2> QED BY <1>a, <2>1, <2>2, <2>3
<1>7. ASSUME SaveEcho(r) PROVE Goal
  <2>1. /\ run[r].pc = "saveEcho" /\ run' = [run EXCEPT ![r].pc = "pull"]
        /\ cursor' = run[r].from /\ UNCHANGED <<vault, queue, task, server>>
    BY <1>7 DEF SaveEcho
  <2>2. OnlyRun(r) /\ run[r].pc \notin After /\ run'[r].pc \notin After
    <3>1. OnlyRun(r) /\ run'[r].pc = "pull"
      BY <1>0, <2>1, RunStageEffect
    <3> QED BY <2>1, <3>1 DEF After, Saving
  <2>3. cursor' = cursor
    BY <1>0, <2>1 DEF SyncHolds, Sending
  <2> QED BY <1>a, <2>1, <2>2, <2>3
<1>8. ASSUME Pull(r) PROVE Goal
  <2>1. UNCHANGED <<vault, queue, task, server>>
    BY <1>8 DEF Pull
  <2>2. /\ OnlyRun(r) /\ run[r].pc \notin After /\ run'[r].pc \in After
        /\ run'[r].snap = Merged(run[r]) /\ run'[r].upto = serverSeq
        /\ run'[r].drain = run[r].drain
    BY <1>0, <1>8, PullEffect DEF After, Saving
  <2>3. CaughtUp(Merged(run[r])[i], server[i], serverSeq, keychain,
                 ~run[r].drain /\ Deleting(i, queue, task))
    BY <1>1, <1>8, <2>2, HonestPull
  <2>4. CaughtUp(run'[r].snap[i], server'[i], run'[r].upto, keychain',
                 ~run'[r].drain /\ Deleting(i, queue', task'))
    BY <2>1, <2>2, <2>3 DEF Deleting
  <2>5. /\ \A q \in Run : q # r => run'[q].pc = "idle"
        /\ \A h \in Handler : task'[h].pc = "idle"
    BY <2>1, <2>2 DEF OnlyRun, NoTask
  <2> QED BY <2>2, <2>4, <2>5, HonestSaving
<1>9. ASSUME SaveCursor(r) \/ SaveItems(r) PROVE Goal
  <2>1. /\ \E pc \in {"saveItems", "saveIdentities"} : run' = [run EXCEPT ![r].pc = pc]
        /\ run[r].pc \in After /\ UNCHANGED <<queue, task, server>>
    BY <1>9 DEF SaveCursor, SaveItems, After, Saving
  <2>2. /\ OnlyRun(r) /\ run'[r].pc \in After
        /\ run'[r].snap = run[r].snap /\ run'[r].upto = run[r].upto
        /\ run'[r].drain = run[r].drain
    <3>1. PICK pc \in {"saveItems", "saveIdentities"} : run' = [run EXCEPT ![r].pc = pc]
      BY <2>1
    <3>2. /\ OnlyRun(r) /\ run'[r].pc = pc
          /\ run'[r].snap = run[r].snap /\ run'[r].upto = run[r].upto
          /\ run'[r].drain = run[r].drain
      BY <1>0, <3>1, RunStageEffect
    <3>3. pc \in After
      BY DEF After, Saving
    <3> QED BY <3>2, <3>3
  <2> QED BY <1>b, <2>1, <2>2
<1>10. ASSUME SaveIdentities(r) PROVE Goal
  <2>1. /\ run[r].pc = "saveIdentities" /\ run[r].pc \in After /\ Returns(r, TRUE)
        /\ vault' = Overwrite(Identity, run[r].snap)
        /\ UNCHANGED <<queue, task, server, cursor>>
    BY <1>10 DEF SaveIdentities, After, Saving
  <2>2. CASE run[r].drain
    <3>1. /\ OnlyRun(r) /\ run'[r].pc \in After
          /\ run'[r].snap = run[r].snap /\ run'[r].upto = run[r].upto
          /\ run'[r].drain = run[r].drain
      BY <1>0, <2>1, <2>2, SucceedsEffect DEF After
    <3> QED BY <1>b, <2>1, <3>1
  <2>3. CASE ~run[r].drain
    <3>1. /\ \A j \in Item : vault[j] = run[r].snap[j]
          /\ cursor = run[r].upto
      BY <1>0, <2>1 DEF SyncHolds
    <3>2. vault'[i] = run[r].snap[i]
      BY <2>1, <3>1 DEF Overwrite, Id
    <3>3. Blanked(r)
      BY <1>0, <2>1, <2>3, SucceedsEffect
    <3> QED BY <1>c, <2>1, <3>1, <3>2, <3>3
  <2> QED BY <2>2, <2>3
<1>11. ASSUME ClearQueue(r) PROVE Goal
  <2>1. /\ run[r].pc = "clearQueue" /\ run[r].pc \in After
        /\ run' = [run EXCEPT ![r] = AfterDrain(r)]
        /\ UNCHANGED <<vault, task, server, cursor>>
    BY <1>11 DEF ClearQueue, After
  <2>2. /\ vault[i] = run[r].snap[i] /\ cursor = run[r].upto /\ run[r].drain
    BY <1>0, <2>1 DEF SyncHolds, SyncInv, RunShape
  <2>3. Blanked(r)
    BY <1>0, <2>1, AfterDrainEffect
  <2> QED BY <1>c, <2>1, <2>2, <2>3
<1> QED
  BY <1>3, <1>4, <1>5, <1>5c, <1>6, <1>7, <1>8, <1>9, <1>10, <1>11 DEF SyncStep

LEMMA HonestNext ==
  ASSUME RInv, RInv', Honest, [Next]_vars
  PROVE  Honest'
<1> USE DEF disk, memory, external
<1>1. CASE UNCHANGED vars
  BY <1>1 DEF vars, Honest, Benign
<1>2. CASE Next
  <2> SUFFICES ASSUME Benign, keychain' # None, NEW i \in Id, Sole(i)
               PROVE  HonestFor(i, keychain', vault', server', queue', cursor', task', run')
    BY <1>2, AllowedStays DEF Honest, Benign, Sole
  <2> DEFINE Goal == HonestFor(i, keychain', vault', server', queue', cursor', task', run')
  <2>0. /\ OInv /\ OInv' /\ Replica /\ TypeOK /\ server[i].seq \in Nat /\ Orderly
    BY DEF RInv, OInv, IInv, TypeOK, Record, Benign, Orderly
  <2>1. CASE keychain' # keychain
    <3>1. /\ NoTask /\ NoSync /\ cursor = 0 /\ UNCHANGED <<cursor, task, run, server>>
      BY <1>2, <2>0, <2>1, KeychainStep
    <3>2. /\ \A r \in Run : run'[r].pc \notin After
          /\ \A h \in Handler : task'[h].pc \notin Editing
      BY <3>1 DEF NoTask, NoSync, After, Saving, Editing
    <3> QED BY <2>0, <3>1, <3>2 DEF HonestFor, CaughtUp
  <2>2. CASE keychain' = keychain
    <3>0. keychain # None /\ HonestFor(i, keychain, vault, server, queue, cursor, task, run)
      BY <2>2 DEF Honest
    <3>a. ASSUME NEW r \in Run, Blanked(r), UNCHANGED <<vault, queue, task, cursor, server>>,
                 \A q \in Run : run[q].pc \notin After
          PROVE  Goal
      <4>1. \A q \in Run : run[q].pc \notin After /\ run'[q].pc \notin After
        BY <3>a DEF Blanked, OnlyRun, Fresh, After, Saving
      <4> QED BY <2>0, <2>2, <3>0, <3>a, <4>1, HonestMoves
    <3>1. ASSUME StartTimer \/ StartManual, NoSync PROVE Goal
      <4>1. (\E r \in Run : Blanked(r)) /\ UNCHANGED <<vault, queue, task, cursor, server>>
        BY <2>0, <3>1, BlankedEffect DEF StartTimer, StartManual, Run
      <4> QED BY <3>1, <3>a, <4>1 DEF NoSync, After, Saving
    <3>2. ASSUME NEW r \in Run, Offline(r), \A q \in Run : q # r => run[q].pc = "idle"
          PROVE  Goal
      <4>1. Blanked(r) /\ UNCHANGED <<vault, queue, task, cursor, server>>
            /\ run[r].pc \notin After
        BY <2>0, <3>2, FailsEffect DEF Offline, After, Saving
      <4> QED BY <3>2, <3>a, <4>1 DEF After, Saving
    <3>3. ASSUME Remote PROVE Goal
      <4>1. UNCHANGED <<vault, queue, task, cursor, run>>
        BY <3>3 DEF Remote, RemoteWrite, RemoteDelete
      <4>2. /\ server'[i] = server[i] \/ server'[i].seq = serverSeq + 1
            /\ cursor \in Nat /\ serverSeq \in Nat /\ cursor <= serverSeq
            /\ \A r \in Run : run[r].upto \in Nat /\ run[r].upto <= serverSeq
        BY <2>0, <3>3, RemoteKnows DEF OInv, Always, Fits, RunFit, TypeOK, SyncRun
      <4>3. server'[i] = server[i] \/ (/\ ~(server'[i].seq <= cursor)
                                       /\ \A r \in Run : ~(server'[i].seq <= run[r].upto))
        BY <4>2
      <4>4. CASE server'[i] = server[i]
        BY <2>2, <3>0, <4>1, <4>4 DEF HonestFor, Deleting
      <4>5. CASE server'[i] # server[i]
        <5>1. /\ server'[i].seq \notin 1..cursor
              /\ \A r \in Run : server'[i].seq \notin 1..run[r].upto
          BY <4>2, <4>3, <4>5
        <5> QED BY <4>1, <4>3, <4>5, <5>1 DEF HonestFor, CaughtUp
      <4> QED BY <4>4, <4>5
    <3>4. ASSUME NEW a \in Account, InstallKeychain(a) PROVE FALSE
      BY <1>2, <2>0, <2>2, <3>0, <3>4 DEF InstallKeychain, Benign
    <3> QED BY <1>2, <2>0, <2>2, <3>0, <3>1, <3>2, <3>3, <3>4, BenignStep, HonestBegins,
               HonestTaskStep, HonestSyncStep
  <2> QED BY <2>1, <2>2
<1> QED BY <1>1, <1>2

HInv == RInv /\ Honest

LEMMA HInvInit == Init => HInv
  BY RInvInit, HonestInit DEF HInv

LEMMA HInvNext == HInv /\ [Next]_vars => HInv'
  BY RInvNext, HonestNext DEF HInv

\* What HInv says of an id between two syncs.
LEMMA HonestBetween ==
  ASSUME HInv, Benign, NoSync, keychain # None, NEW i \in Id, Sole(i)
  PROVE  CaughtUp(vault[i], server[i], cursor, keychain, DeletingHere(i))
<1>1. \A r \in Run : run[r].pc \notin After
  BY DEF NoSync, After, Saving
<1>2. Deleting(i, queue, task) <=> DeletingHere(i)
  BY DEF Deleting, DeletingHere
<1> QED BY <1>1, <1>2 DEF HInv, Honest, HonestFor, CaughtUp

\* The pull-and-merge of fullSync with its stored cursor: between two syncs, all
\* that the cursor says was fetched is here, deletions too, whatever requests
\* were lost.  Where an instance deletes more than one id, or a persona, this is
\* false: the runs VaultSyncTwoDeletes and VaultSyncPersonaDelete show how.
THEOREM CursorTellsTheTruth ==
  ASSUME Deletable \subseteq Item, \A i, j \in Deletable : i = j
  PROVE  Spec => []CursorIsHonest
<1>1. ASSUME HInv, Benign, NoSync, keychain # None, NEW i \in Id, server[i].seq \in 1..cursor
      PROVE  /\ ~server[i].dead /\ server[i].by = keychain =>
                   vault[i].at >= server[i].at \/ DeletingHere(i)
             /\ server[i].dead => ~Present(vault[i])
  <2>1. Sole(i)
    BY DEF Sole
  <2> QED BY <1>1, <2>1, HonestBetween DEF CaughtUp
<1>2. HInv => CursorIsHonest
  BY <1>1 DEF CursorIsHonest
<1> QED BY <1>2, HInvInit, HInvNext, PTL DEF Spec

\* And whatever else is deleted, an id that never is keeps what was fetched.
FetchedIsHeld ==
  Benign /\ NoSync /\ keychain # None =>
    \A i \in Id \ Deletable :
      server[i].seq \in 1..cursor /\ server[i].by = keychain =>
        vault[i].at >= server[i].at

\* The same of the code with no restriction on what is deleted: deletions of
\* other ids never make the cursor run ahead of an envelope.
THEOREM FetchedStaysHeld == Spec => []FetchedIsHeld
<1>1. ASSUME HInv, Benign, NoSync, keychain # None, NEW i \in Id \ Deletable,
             server[i].seq \in 1..cursor, server[i].by = keychain
      PROVE  vault[i].at >= server[i].at
  <2>1. Sole(i)
    BY DEF Sole
  <2>2. ~server[i].dead
    BY <1>1 DEF HInv, RInv, OInv, Always, Fits, RecordFit
  <2>3. ~DeletingHere(i)
    <3>1. i \notin Deletes(queue)
      BY <1>1 DEF HInv, RInv, OInv, Always, Fits, EntryFit, Deletes
    <3>2. ASSUME NEW h \in Handler, task[h].op = "delete", task[h].id = i PROVE FALSE
      <4>1. TaskFit(task[h], clock, minted) /\ IdleTask.op # "delete"
            /\ HandlerKnows(task[h], vault, queue, keychain)
            /\ task[h].pc \in TaskStage
        BY <1>1 DEF HInv, RInv, OInv, IInv, TypeOK, Task, Always, Fits, IdleTask, Order, Benign, Orderly
      <4>2. task[h].pc \in Editing \cup Queueing
        BY <1>1, <3>2, <4>1 DEF TaskFit, HandlerKnows, TaskStage, Editing, Queueing, Wiping
      <4> QED BY <3>2, <4>1, <4>2 DEF TaskFit
    <3> QED BY <3>1, <3>2 DEF DeletingHere
  <2> QED BY <1>1, <2>1, <2>2, <2>3, HonestBetween DEF CaughtUp
<1>2. HInv => FetchedIsHeld
  BY <1>1 DEF FetchedIsHeld
<1> QED BY <1>2, HInvInit, HInvNext, PTL DEF Spec

-----------------------------------------------------------------------------
(***************************************************************************)
(* The contract: each step of VaultSync is a step of ReplicaContract, or   *)
(* changes nothing it speaks of.                                           *)
(***************************************************************************)

\* The deletions owed, while at most one handler is at work.
LEMMA OwedAlone ==
  ASSUME NEW h \in Handler
  PROVE  /\ (\A g \in Handler : g # h => task[g].pc = "idle") =>
              Owed = Deletes(queue) \cup
                IF task[h].op = "delete" /\ task[h].pc \in Queueing THEN {task[h].id} ELSE {}
         /\ (\A g \in Handler : g # h => task'[g].pc = "idle") =>
              Owed' = Deletes(queue') \cup
                IF task'[h].op = "delete" /\ task'[h].pc \in Queueing THEN {task'[h].id} ELSE {}
  BY DEF Owed, Deletes, Queueing

LEMMA OwedIdle ==
  /\ NoTask => Owed = Deletes(queue)
  /\ (\A h \in Handler : task'[h].pc = "idle") => Owed' = Deletes(queue')
  BY DEF Owed, Deletes, NoTask

LEMMA ContractInit == Init => Contract!Init
<1> SUFFICES ASSUME Init PROVE Contract!Init
  OBVIOUS
<1>1. Shown(keychain, None) \in Account \cup {None}
  BY DEF Init, Shown, Signer
<1>2. Shown(vault, EmptyVault) = [i \in Id |-> Contract!Gone]
  BY DEF Init, Shown, EmptyVault, Absent, Contract!Gone
<1>3. \A i \in Id : /\ Shown(server, [j \in Id |-> NoRecord])[i].at = 0
                    /\ ~Shown(server, [j \in Id |-> NoRecord])[i].dead
  BY DEF Init, Shown, NoRecord
<1>4. Shown(Owed, {}) = {}
  <2>1. \A h \in Handler : task[h].pc = "idle"
    BY DEF Init, IdleTask
  <2> QED BY <2>1 DEF Init, Shown, Owed, Deletes
<1> QED BY <1>1, <1>2, <1>3, <1>4 DEF Contract!Init

\* While the surroundings are benign the contract sees the device itself.
LEMMA SeenAsIs ==
  ASSUME Benign, Benign'
  PROVE  /\ Shown(keychain, None) = keychain /\ Shown(keychain, None)' = keychain'
         /\ Shown(vault, EmptyVault) = vault /\ Shown(vault, EmptyVault)' = vault'
         /\ Shown(server, [i \in Id |-> NoRecord]) = server
         /\ Shown(server, [i \in Id |-> NoRecord])' = server'
         /\ Shown(Owed, {}) = Owed /\ Shown(Owed, {})' = Owed'
  BY DEF Shown

LEMMA StutterOrStep ==
  ASSUME Benign, Benign'
  PROVE  /\ UNCHANGED <<keychain, vault, server, Owed>> => UNCHANGED Contract!vars
         /\ (/\ \E i \in Id : /\ vault'[i].by = keychain /\ vault'[i].at >= vault[i].at
                              /\ \A j \in Id \ {i} : vault'[j] = vault[j]
             /\ UNCHANGED <<keychain, server, Owed>>) => Contract!Edit
         /\ (/\ \E i \in Id : /\ vault' = [vault EXCEPT ![i] = Absent]
                              /\ Owed' = Owed \cup {i}
             /\ UNCHANGED <<keychain, server>>) => Contract!Remove
         /\ (/\ \A i \in Id : server'[i].at >= server[i].at
             /\ UNCHANGED <<keychain, vault, Owed>>) => Contract!ServerMoves
         /\ (/\ \A i \in Id :
                  \/ vault'[i] = vault[i]
                  \/ vault'[i] = Absent /\ (server[i].dead \/ vault[i].by # keychain)
                  \/ /\ vault'[i].by = keychain /\ vault[i].at < vault'[i].at
                     /\ vault'[i].at <= server[i].at
             /\ UNCHANGED <<keychain, server, Owed>>) => Contract!CatchUp
         /\ (/\ Owed' \subseteq Owed
             /\ \A i \in Owed \ Owed' :
                  \/ server[i].dead \/ (Present(vault[i]) /\ vault[i].at <= server[i].at)
                  \/ server[i].by # keychain
             /\ UNCHANGED <<keychain, vault, server>>) => Contract!Settle
         /\ (/\ keychain = None /\ keychain' \in Account
             /\ UNCHANGED <<vault, server, Owed>>) => Contract!Enrol
         /\ (/\ keychain' = None /\ Owed' \subseteq Owed
             /\ \A i \in Id : vault'[i] \in {vault[i], Absent}
             /\ UNCHANGED server) => Contract!Forget
<1>1. Contract!Gone = Absent
  BY DEF Contract!Gone, Absent
<1>2. UNCHANGED <<keychain, vault, server, Owed>> => UNCHANGED Contract!vars
  BY SeenAsIs DEF Contract!vars
<1>3. (/\ \E i \in Id : /\ vault'[i].by = keychain /\ vault'[i].at >= vault[i].at
                        /\ \A j \in Id \ {i} : vault'[j] = vault[j]
       /\ UNCHANGED <<keychain, server, Owed>>) => Contract!Edit
  BY SeenAsIs DEF Contract!Edit
<1>4. (/\ \E i \in Id : /\ vault' = [vault EXCEPT ![i] = Absent]
                        /\ Owed' = Owed \cup {i}
       /\ UNCHANGED <<keychain, server>>) => Contract!Remove
  BY <1>1, SeenAsIs DEF Contract!Remove
<1>5. (/\ \A i \in Id : server'[i].at >= server[i].at
       /\ UNCHANGED <<keychain, vault, Owed>>) => Contract!ServerMoves
  BY SeenAsIs DEF Contract!ServerMoves
<1>6. (/\ \A i \in Id :
            \/ vault'[i] = vault[i]
            \/ vault'[i] = Absent /\ (server[i].dead \/ vault[i].by # keychain)
            \/ /\ vault'[i].by = keychain /\ vault[i].at < vault'[i].at
               /\ vault'[i].at <= server[i].at
       /\ UNCHANGED <<keychain, server, Owed>>) => Contract!CatchUp
  BY <1>1, SeenAsIs DEF Contract!CatchUp, Contract!MayBecome
<1>7. (/\ Owed' \subseteq Owed
       /\ \A i \in Owed \ Owed' :
            \/ server[i].dead \/ (Present(vault[i]) /\ vault[i].at <= server[i].at)
            \/ server[i].by # keychain
       /\ UNCHANGED <<keychain, vault, server>>) => Contract!Settle
  BY SeenAsIs DEF Contract!Settle, Contract!Present, Present
<1>8. (/\ keychain = None /\ keychain' \in Account
       /\ UNCHANGED <<vault, server, Owed>>) => Contract!Enrol
  BY SeenAsIs DEF Contract!Enrol
<1>9. (/\ keychain' = None /\ Owed' \subseteq Owed
       /\ \A i \in Id : vault'[i] \in {vault[i], Absent}
       /\ UNCHANGED server) => Contract!Forget
  BY <1>1, SeenAsIs DEF Contract!Forget
<1> QED BY <1>2, <1>3, <1>4, <1>5, <1>6, <1>7, <1>8, <1>9

LEMMA ContractTask ==
  ASSUME RInv, RInv', Benign, Benign', NEW h \in Handler, TaskBegins(h) \/ TaskStep(h),
         \A i, j \in Deletable : i = j
  PROVE  Contract!Next \/ UNCHANGED Contract!vars
<1> DEFINE t == task[h]
           Goal == Contract!Next \/ UNCHANGED Contract!vars
           Owing(q, x) == Deletes(q) \cup
                            IF x.op = "delete" /\ x.pc \in Queueing THEN {x.id} ELSE {}
<1> USE DEF disk, memory, external
<1>0. /\ TypeOK /\ TypeOK' /\ TaskShape /\ Orderly
      /\ HandlerKnows(t, vault, queue, keychain) /\ TaskFit(t, clock, minted)
      /\ OneAtATime(task, run)
      /\ \A e \in queue : EntryFit(e, minted)
  BY DEF RInv, OInv, IInv, Benign, Orderly, Order, Always, Fits
<1>i. IdleTask.pc = "idle" /\ IdleTask.op # "delete"
  BY DEF IdleTask
<1>m. MayBegin(h) => NoTask
  BY <1>0 DEF MayBegin, Orderly
<1>o. ASSUME OnlyTask(h), t.pc # "idle" \/ NoTask
      PROVE  Owed = Owing(queue, t) /\ Owed' = Owing(queue', task'[h])
  <2>1. \A g \in Handler : g # h => task[g].pc = "idle" /\ task'[g].pc = "idle"
    BY <1>0, <1>o DEF OneAtATime, OnlyTask, NoTask
  <2> QED BY <2>1, OwedAlone
<1>1. ASSUME TaskBegins(h) PROVE Goal
  <2>1. CASE BeginReset(h)
    <3>1. /\ OnlyTask(h) /\ task'[h].pc = "wipeItems" /\ MayBegin(h)
          /\ keychain' = None /\ UNCHANGED <<vault, queue, server>>
      BY <1>0, <2>1, BeginResetEffect DEF BeginReset
    <3>2. Owed' \subseteq Owed
      <4>1. Owed = Owing(queue, t) /\ Owed' = Owing(queue', task'[h])
        BY <1>m, <1>o, <3>1
      <4>2. task'[h].pc \notin Queueing
        BY <3>1 DEF Queueing
      <4> QED BY <3>1, <4>1, <4>2
    <3> QED BY <3>1, <3>2, StutterOrStep DEF Contract!Next
  <2>2. CASE ~BeginReset(h)
    <3>1. PICK i, op, e : /\ i \in Id /\ Begin(h, op, i, e) /\ MayBegin(h)
                          /\ UNCHANGED <<keychain, vault, queue, server>>
      BY <1>1, <2>2 DEF TaskBegins, BeginCreate, BeginUpdate, BeginTouch, BeginDelete
    <3>2. OnlyTask(h) /\ task'[h].pc = "loadVault" /\ t.pc = "idle"
      BY <1>0, <3>1, BeginEffect DEF MayBegin
    <3>3. Owed' = Owed
      <4>1. Owed = Owing(queue, t) /\ Owed' = Owing(queue', task'[h])
        BY <1>m, <1>o, <3>1, <3>2
      <4>2. task'[h].pc \notin Queueing /\ t.pc \notin Queueing
        BY <3>2 DEF Queueing
      <4> QED BY <3>1, <4>1, <4>2
    <3> QED BY <3>1, <3>3, StutterOrStep
  <2> QED BY <2>1, <2>2
<1>2. ASSUME LoadVault(h) \/ LoadQueue(h) PROVE Goal
  <2>1. UNCHANGED <<keychain, vault, queue, server>>
    BY <1>2 DEF LoadVault, LoadQueue
  <2>2. /\ OnlyTask(h) /\ t.pc # "idle" /\ task'[h].op = t.op /\ task'[h].id = t.id
        /\ t.pc \in Queueing <=> task'[h].pc \in Queueing
    BY <1>0, <1>2, LoadVaultEffect, LoadQueueEffect DEF Queueing
  <2>3. Owed' = Owed
    BY <1>o, <2>1, <2>2
  <2> QED BY <2>1, <2>3, StutterOrStep
<1>3. ASSUME WriteVault(h) PROVE Goal
  <2>1. UNCHANGED <<keychain, queue, server>> /\ t.pc = "writeVault" /\ t.pc # "idle"
    BY <1>3 DEF WriteVault
  <2>2. /\ OnlyTask(h) /\ t.id \in Id /\ vault'[t.id] = t.env
        /\ \A j \in Id : j # t.id => vault'[j] = vault[j]
        /\ t.op = "touch" => task'[h] = IdleTask
        /\ t.op # "touch" => /\ task'[h].pc = "loadQueue"
                             /\ task'[h].op = t.op /\ task'[h].id = t.id
    <3>1. t.view = vault
      BY <1>0, <2>1 DEF HandlerKnows
    <3> QED BY <1>0, <1>3, <3>1, WriteVaultEffect
  <2>3. CASE t.op = "delete"
    <3>1. t.env = Absent
      BY <1>0, <2>1, <2>3 DEF TaskFit, Editing
    <3>2. vault' = [vault EXCEPT ![t.id] = Absent]
      BY <1>0, <2>2, <3>1 DEF TypeOK, Vault
    <3>3. Owed' = Owed \cup {t.id}
      BY <1>o, <2>1, <2>2, <2>3 DEF Queueing
    <3> QED BY <2>1, <2>2, <3>2, <3>3, StutterOrStep DEF Contract!Next
  <2>4. CASE t.op # "delete"
    <3>1. t.env.by = keychain /\ t.env.at >= vault[t.id].at
      BY <1>0, <2>1, <2>4 DEF HandlerKnows, Editing
    <3>2. Owed' = Owed
      BY <1>i, <1>o, <2>1, <2>2, <2>4
    <3> QED BY <2>1, <2>2, <3>1, <3>2, StutterOrStep DEF Contract!Next
  <2> QED BY <2>3, <2>4
<1>4. ASSUME WriteQueue(h) PROVE Goal
  <2>1. /\ UNCHANGED <<keychain, vault, server>> /\ t.pc = "writeQueue" /\ t.pc \in Queueing
        /\ t.pc # "idle" /\ t.seen = queue /\ t.op \in Op
        /\ queue' = Enqueued(queue, t.op, t.id) /\ task' = [task EXCEPT ![h] = IdleTask]
    BY <1>0, <1>4 DEF WriteQueue, HandlerKnows, TaskShape, Queueing
  <2>2. OnlyTask(h) /\ task'[h] = IdleTask
    BY <1>0, <2>1, TaskIdle
  <2>3. Owed' = Deletes(queue') /\ Owed = Owing(queue, t)
    BY <1>i, <1>o, <2>1, <2>2
  <2>4. CASE t.op = "delete"
    <3>1. t.id \in Deletable /\ Deletes(queue) \subseteq Deletable
      BY <1>0, <2>1, <2>4 DEF TaskFit, Deletes, EntryFit
    <3>2. Deletes(queue) \subseteq {t.id}
      BY <3>1
    <3>3. Deletes(queue') = {t.id}
      <4>1. queue' = {e \in queue : e.id # t.id /\ e.op # "delete"}
                       \cup {[op |-> "delete", id |-> t.id]}
        BY <2>1, <2>4 DEF Enqueued
      <4>2. \A e \in queue' : e.op = "delete" => e.id = t.id
        BY <4>1
      <4>3. [op |-> "delete", id |-> t.id] \in queue'
        BY <4>1
      <4> QED BY <4>2, <4>3 DEF Deletes
    <3>4. Owed' = Owed
      BY <2>1, <2>3, <2>4, <3>2, <3>3
    <3> QED BY <2>1, <3>4, StutterOrStep
  <2>5. CASE t.op # "delete"
    <3>1. Deletes(queue') = Deletes(queue)
      BY <2>1, <2>5 DEF Enqueued, Deletes, Op
    <3>2. Owed' = Owed
      BY <2>3, <2>5, <3>1
    <3> QED BY <2>1, <3>2, StutterOrStep
  <2> QED BY <2>4, <2>5
<1>5. ASSUME WipeItems(h) \/ WipeIdentities(h) \/ WipeQueue(h) \/ WipeCursor(h) PROVE Goal
  <2>1. /\ t.pc \in Wiping /\ t.pc # "idle" /\ UNCHANGED <<keychain, server>>
        /\ \A i \in Id : vault'[i] \in {vault[i], Absent}
        /\ queue' \in {queue, {}}
    BY <1>5 DEF WipeItems, WipeIdentities, WipeQueue, WipeCursor, Stage, Wiping, Overwrite,
                EmptyVault
  <2>2. OnlyTask(h) /\ task'[h].pc \notin Queueing
    <3>1. CASE WipeCursor(h)
      <4>1. task' = [task EXCEPT ![h] = IdleTask]
        BY <3>1 DEF WipeCursor
      <4> QED BY <1>0, <1>i, <4>1, TaskIdle DEF Queueing
    <3>2. CASE ~WipeCursor(h)
      <4>1. PICK pc \in Wiping : task' = [task EXCEPT ![h].pc = pc]
        BY <1>5, <3>2 DEF WipeItems, WipeIdentities, WipeQueue, Stage, Wiping
      <4>2. OnlyTask(h) /\ task'[h].pc = pc
        BY <1>0, <4>1, StageEffect
      <4> QED BY <4>1, <4>2 DEF Wiping, Queueing
    <3> QED BY <3>1, <3>2
  <2>3. Owed' \subseteq Owed
    <3>1. Deletes(queue') \subseteq Deletes(queue)
      BY <2>1 DEF Deletes
    <3> QED BY <1>o, <2>1, <2>2, <3>1
  <2>4. keychain' = None
    BY <1>0, <2>1 DEF HandlerKnows
  <2> QED BY <2>1, <2>3, <2>4, StutterOrStep DEF Contract!Next
<1> QED BY <1>1, <1>2, <1>3, <1>4, <1>5 DEF TaskStep

\* What a sync saves is what the contract lets the device catch up with.
LEMMA ContractSave ==
  ASSUME RInv, RInv', Benign, Benign', NEW r \in Run, SaveItems(r) \/ SaveIdentities(r), NoTask
  PROVE  Contract!Next
<1> USE DEF disk, memory, external
<1>0. /\ TypeOK /\ TypeOK' /\ Orderly /\ SyncKnows(run[r], vault, server, queue, keychain)
      /\ \A i \in Id : Fit(i, vault[i], clock, minted) /\ Fit(i, vault'[i], clock', minted')
      /\ Mine(keychain, vault)
  BY DEF RInv, OInv, IInv, Benign, Orderly, Order, Always, Fits, Replica
<1>1. /\ run[r].pc \in Saving /\ run[r].pc \notin Fresh
      /\ UNCHANGED <<keychain, server, queue, task>>
      /\ \A i \in Id : vault'[i] \in {vault[i], run[r].snap[i]}
  BY DEF SaveItems, SaveIdentities, Saving, Fresh, Overwrite
<1>2. keychain # None /\ \A i \in Id : MayTake(keychain, run[r].snap[i], vault[i], server[i])
  BY <1>0, <1>1 DEF SyncKnows
<1>3. ASSUME NEW i \in Id
      PROVE  \/ vault'[i] = vault[i]
             \/ vault'[i] = Absent /\ (server[i].dead \/ vault[i].by # keychain)
             \/ /\ vault'[i].by = keychain /\ vault[i].at < vault'[i].at
                /\ vault'[i].at <= server[i].at
  <2>1. /\ vault[i].at \in Nat /\ vault'[i].at \in Nat
        /\ vault[i].by \in {None, keychain}
    BY <1>0, <1>2 DEF TypeOK, Vault, Envelope, Mine
  <2>2. ASSUME vault'[i].by = keychain, vault[i].by = keychain => vault[i].at < vault'[i].at
        PROVE  vault[i].at < vault'[i].at
    BY <1>0, <1>2, <2>1, <2>2 DEF Fit, Present
  <2>3. vault'[i] = vault[i] \/ MayTake(keychain, vault'[i], vault[i], server[i])
    BY <1>1, <1>2
  <2> QED BY <2>2, <2>3 DEF MayTake
<1>4. Owed' = Owed
  BY <1>1 DEF Owed
<1> QED BY <1>1, <1>3, <1>4, StutterOrStep DEF Contract!Next

\* Clearing the queue settles what it held: the server has buried the id, or a
\* later edit is here.
LEMMA ContractClear ==
  ASSUME RInv, RInv', Benign, Benign', NEW r \in Run, ClearQueue(r), NoTask
  PROVE  Contract!Next
<1> USE DEF disk, memory, external
<1>0. /\ TypeOK /\ SyncInv /\ Orderly /\ SyncKnows(run[r], vault, server, queue, keychain)
      /\ SyncHolds(run[r], vault, server, cursor)
  BY DEF RInv, OInv, IInv, Benign, Orderly, Order, Replica
<1>1. /\ run[r].pc = "clearQueue" /\ run[r].pc \in After
      /\ UNCHANGED <<keychain, vault, server, task>> /\ queue' = {}
  BY DEF ClearQueue, After
<1>2. run[r].drain /\ run[r].tombs = Deletes(queue)
  BY <1>0, <1>1 DEF SyncInv, RunShape, SyncKnows
<1>3. run[r].tombs \subseteq Id
  BY <1>0 DEF TypeOK, SyncRun
<1>4. run[r].key = keychain
  BY <1>0, <1>1 DEF SyncKnows, Fresh
<1>5. \A i \in Deletes(queue) :
        \/ server[i].dead \/ (Present(vault[i]) /\ vault[i].at <= server[i].at)
        \/ server[i].by # keychain
  BY <1>0, <1>1, <1>2, <1>3, <1>4 DEF SyncHolds
<1>6. Owed = Deletes(queue) /\ Owed' = {}
  <2>1. Deletes(queue') = {}
    BY <1>1 DEF Deletes
  <2>2. \A h \in Handler : task'[h].pc = "idle"
    BY <1>1 DEF NoTask
  <2> QED BY <2>1, <2>2, OwedIdle
<1> QED BY <1>1, <1>5, <1>6, StutterOrStep DEF Contract!Next

LEMMA ContractSync ==
  ASSUME RInv, RInv', Benign, Benign', NEW r \in Run, SyncStep(r) \/ Offline(r), NoTask
  PROVE  Contract!Next \/ UNCHANGED Contract!vars
<1> USE DEF disk, memory, external
<1>0. TypeOK /\ run[r] \in SyncRun
  BY DEF RInv, OInv, IInv, TypeOK
<1>1. CASE Push(r)
  <2>1. UNCHANGED <<keychain, vault, queue, task>>
    BY <1>1 DEF Push
  <2>2. ASSUME NEW i \in Id PROVE server'[i].at >= server[i].at
    <3>1. PICK rec : rec = server'[i]
      OBVIOUS
    <3>2. rec = Received(run[r].snap, run[r].tombs, run[r].deletedAt, serverSeq + 1)[i]
      BY <1>1, <3>1 DEF Push
    <3>3. server[i].at <= rec.at
      BY <1>0, <3>2, ReceivedKnows
    <3> QED BY <3>1, <3>3
  <2>3. Owed' = Owed
    BY <2>1 DEF Owed
  <2> QED BY <2>1, <2>2, <2>3, StutterOrStep DEF Contract!Next
<1>2. CASE SaveItems(r) \/ SaveIdentities(r)
  BY <1>2, ContractSave
<1>3. CASE ClearQueue(r)
  BY <1>3, ContractClear
<1>4. CASE \/ ReadQueue(r) \/ ReadKeys(r) \/ LoadItems(r) \/ LoadIdentities(r) \/ LoadCursor(r)
           \/ SaveEcho(r) \/ Pull(r) \/ SaveCursor(r) \/ Offline(r)
  <2>1. UNCHANGED <<keychain, vault, queue, task, server>>
    BY <1>4 DEF ReadQueue, ReadKeys, LoadItems, LoadIdentities, LoadCursor, SaveEcho, Pull, SaveCursor, Offline
  <2>2. Owed' = Owed
    BY <2>1 DEF Owed
  <2> QED BY <2>1, <2>2, StutterOrStep
<1> QED BY <1>1, <1>2, <1>3, <1>4 DEF SyncStep

LEMMA ContractNext ==
  ASSUME RInv, RInv', [Next]_vars, \A i, j \in Deletable : i = j
  PROVE  Contract!Next \/ UNCHANGED Contract!vars
<1> DEFINE Goal == Contract!Next \/ UNCHANGED Contract!vars
<1> USE DEF disk, memory, external
\* Surroundings of which the contract does not speak show a blank device.
<1>1. CASE ~Benign
  <2>1. ~Benign'
    BY <1>1, AllowedStays DEF Benign
  <2> QED BY <1>1, <2>1 DEF Contract!vars, Shown
<1>2. CASE Benign /\ UNCHANGED vars
  <2>1. Benign' /\ UNCHANGED <<keychain, vault, queue, task, server>>
    BY <1>2 DEF vars, Benign
  <2>2. Owed' = Owed
    BY <2>1 DEF Owed
  <2> QED BY <1>2, <2>1, <2>2, StutterOrStep
<1>3. CASE Benign /\ Next
  <2>0. OInv /\ Benign'
    BY <1>3, AllowedStays DEF RInv, Benign
  <2>1. ASSUME NEW a \in Account, InstallKeychain(a), keychain = None PROVE Goal
    <3>1. keychain' = a /\ UNCHANGED <<vault, queue, task, server>>
      BY <2>1 DEF InstallKeychain
    <3>2. Owed' = Owed
      BY <3>1 DEF Owed
    <3> QED BY <1>3, <2>0, <2>1, <3>1, <3>2, StutterOrStep DEF Contract!Next
  <2>2. ASSUME StartTimer \/ StartManual PROVE Goal
    <3>1. UNCHANGED <<keychain, vault, queue, task, server>>
      BY <2>2 DEF StartTimer, StartManual
    <3>2. Owed' = Owed
      BY <3>1 DEF Owed
    <3> QED BY <1>3, <2>0, <3>1, <3>2, StutterOrStep
  <2>3. ASSUME Remote PROVE Goal
    <3>1. UNCHANGED <<keychain, vault, queue, task>>
      BY <2>3 DEF Remote, RemoteWrite, RemoteDelete
    <3>2. Owed' = Owed
      BY <3>1 DEF Owed
    <3>3. \A i \in Id : /\ server'[i].at >= server[i].at
      BY <2>0, <2>3, RemoteKnows DEF OInv, IInv
    <3> QED BY <1>3, <2>0, <3>1, <3>2, <3>3, StutterOrStep DEF Contract!Next
  <2> QED BY <1>3, <2>0, <2>1, <2>2, <2>3, BenignStep, ContractTask, ContractSync
<1> QED BY <1>1, <1>2, <1>3

\* The handlers, processQueue and fullSync together implement ReplicaContract
\* while nothing interleaves, whatever requests are lost, on a device that ever
\* deletes one id: edits stick, the device only catches up, nothing goes back in
\* time, and no deletion is forgotten before the server has it.  With a second
\* deletion the contract is broken where DeletionDelivered is.
THEOREM ImplementsContract ==
  ASSUME \A i, j \in Deletable : i = j
  PROVE  Spec => KeepsContract
<1>1. RInv /\ RInv' /\ [Next]_vars => [Contract!Next]_(Contract!vars)
  BY ContractNext
<1> QED BY <1>1, ContractInit, RInvInit, RInvNext, PTL
        DEF Spec, KeepsContract, Contract!Spec
=============================================================================
