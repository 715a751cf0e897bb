---------------------------- MODULE Accounts_proofs ----------------------------
(***************************************************************************)
(* Theorems about Accounts, for any number of devices, of handlers that    *)
(* overlap on a device, of accounts and of rows on the server.             *)
(***************************************************************************)
EXTENDS Accounts, SequenceTheorems, TLAPS

USE AccountAssumption

-----------------------------------------------------------------------------
(* The inductive invariant. *)

\* The stages of each operation.
Stages(op) ==
  CASE op = "setup"   -> {"wrap", "register", "setId", "open"}
    [] op = "unlock"  -> {"open"}
    [] op = "restore" -> {"wrap", "open"}
    [] op = "enroll"  -> {"readChain", "putKey", "list", "post", "delete"}
    [] op = "join"    -> {"fetchKey", "fetchList", "fetchRow", "install", "open", "wrap"}
    [] op = "kit"     -> {"readChain"}
    [] op = "reset"   -> {"forget"}

Uploading == {"putKey", "list", "post", "delete"}
Fetching  == {"fetchKey", "fetchList", "fetchRow", "install"}

\* A handler has what its stage needs, and a row it remembers was there.
ShapeInv(h) ==
  LET j == job[h] IN
  Busy(h) =>
    /\ j.pc \in Stages(j.op)
    /\ j.op # "reset" /\ j.pc # "fetchKey" => j.key # None
    /\ j.pc \in Uploading => j.chain # None
    /\ j.pc = "post" => j.row <= Len(rows)
    /\ j.pc = "delete" => j.row < Len(rows)
    /\ j.pc = "fetchRow" => j.row \in 1..Len(rows)

\* A handler that mends is alone on its device; one that replaces keys without
\* mending has torn them.
AloneInv(h) ==
  Busy(h) =>
    /\ job[h].mends => Others(h) = {}
    /\ Replaces(job[h].op) /\ ~job[h].mends => DeviceOf(h) \in torn

\* How far a handler that replaces keys undisturbed has come ...
ReplacedInv(h) ==
  LET j == job[h]
      s == Mine(h)
  IN
  Busy(h) /\ Replaces(j.op) /\ j.mends =>
    /\ j.op \in {"setup", "restore"} =>
         /\ s.chain = j.key
         /\ j.pc # "wrap" => s.wrapped = j.key
         /\ j.pc = "setId" => j.chain = j.key
         /\ j.pc = "open" \/ j.op = "restore" => s.id
    /\ j.op = "join" =>
         /\ j.pc = "install" => j.chain = j.key
         /\ j.pc \in {"open", "wrap"} => s.chain = j.key /\ s.id
         /\ j.pc = "wrap" => cached[DeviceOf(h)] \in {None, j.key}
    /\ j.op = "reset" => s.chain = None /\ s.wrapped = None /\ ~s.id

\* ... and what any other holds on a device that is not torn.
ReadInv(h) ==
  LET j == job[h] IN
  Busy(h) /\ ~Replaces(j.op) /\ DeviceOf(h) \notin torn =>
    /\ j.pc \in {"open", "readChain"} => j.key = Mine(h).chain
    /\ j.pc \in Uploading => j.chain = j.key

HandlerInv(h) == ShapeInv(h) /\ AloneInv(h) /\ ReplacedInv(h) /\ ReadInv(h)

\* A handler that has begun to replace its device's keys.
Half(h) == Busy(h) /\ Replaces(job[h].op) /\ job[h].pc \notin Fetching

Whole(d) ==
  /\ local[d].wrapped \in {None, local[d].chain}
  /\ cached[d] \in {None, local[d].chain}
  /\ local[d].chain # None <=> local[d].id

\* A device is whole unless its keys are torn or being replaced.
DeviceInv(d) ==
  d \notin torn /\ (\A h \in Handler : DeviceOf(h) = d => ~Half(h)) => Whole(d)

\* Whatever is deleted, the last row stays.
RowsInv == rows # <<>> => rows[Len(rows)] # None

IInv ==
  /\ TypeOK
  /\ RowsInv
  /\ \A h \in Handler : HandlerInv(h)
  /\ \A d \in Device : DeviceInv(d)

-----------------------------------------------------------------------------
(* Lemmas about the data. *)

LEMMA DeviceTyped == ASSUME NEW h \in Handler PROVE DeviceOf(h) \in Device
  BY DEF DeviceOf

LEMMA JobsTyped ==
  /\ NoJob \in Job /\ NoJob.pc = "idle" /\ ~Replaces("unlock") /\ ~Replaces("kit")
  /\ ~Replaces("enroll") /\ Replaces("setup") /\ Replaces("restore") /\ Replaces("join")
  /\ Replaces("reset")
  BY DEF NoJob, Job, Stage, Op, Maybe, Replaces

\* What the four ways to begin, go on and end do to the jobs and to torn.
LEMMA BeginsTyped ==
  ASSUME TypeOK, NEW h \in Handler, NEW op \in Op, NEW pc \in Stage, NEW key \in Maybe,
         Begins(h, op, pc, key)
  PROVE  job' \in [Handler -> Job] /\ torn' \subseteq Device
<1>1. [NoJob EXCEPT !.op = op, !.pc = pc, !.key = key, !.mends = Others(h) = {}] \in Job
  BY DEF NoJob, Job, Maybe
<1>2. \A g \in Handler : job[g] \in Job /\ [job[g] EXCEPT !.mends = FALSE] \in Job
  BY DEF TypeOK, Job
<1>3. job' \in [Handler -> Job]
  BY <1>1, <1>2 DEF Begins
<1> QED BY <1>3, DeviceTyped DEF Begins, TypeOK

LEMMA BeginsMeans ==
  ASSUME TypeOK, NEW h \in Handler, NEW op \in Op, NEW pc \in Stage, NEW key \in Maybe,
         Begins(h, op, pc, key)
  PROVE  /\ ~Busy(h)
         /\ job'[h].op = op /\ job'[h].pc = pc /\ job'[h].key = key
         /\ job'[h].mends <=> Others(h) = {}
         /\ \A g \in Handler \ {h} :
              /\ job'[g].op = job[g].op /\ job'[g].pc = job[g].pc /\ job'[g].key = job[g].key
              /\ job'[g].chain = job[g].chain /\ job'[g].row = job[g].row
              /\ job'[g].mends <=> job[g].mends /\ g \notin Others(h)
         /\ torn \subseteq torn' /\ torn' \subseteq torn \cup {DeviceOf(h)}
         /\ \A g \in Others(h) : Replaces(op) \/ Replaces(job[g].op) => DeviceOf(h) \in torn'
<1>1. job \in [Handler -> Job]
  BY DEF TypeOK
<1>2. job'[h] = [NoJob EXCEPT !.op = op, !.pc = pc, !.key = key, !.mends = Others(h) = {}]
  BY DEF Begins
<1>3. /\ job'[h].op = op /\ job'[h].pc = pc /\ job'[h].key = key
      /\ job'[h].mends = (Others(h) = {})
  BY <1>2 DEF NoJob
<1>4. ASSUME NEW g \in Handler \ {h}
      PROVE  /\ job'[g].op = job[g].op /\ job'[g].pc = job[g].pc /\ job'[g].key = job[g].key
             /\ job'[g].chain = job[g].chain /\ job'[g].row = job[g].row
             /\ job'[g].mends <=> job[g].mends /\ g \notin Others(h)
  <2>1. job[g] \in Job /\ job'[g] = IF g \in Others(h) THEN [job[g] EXCEPT !.mends = FALSE]
                                    ELSE job[g]
    BY <1>1 DEF Begins
  <2> QED BY <2>1 DEF Job
<1> QED BY <1>3, <1>4 DEF Begins

LEMMA GoesTyped ==
  ASSUME TypeOK, NEW h \in Handler, NEW pc \in Stage, Goes(h, pc)
  PROVE  /\ job' \in [Handler -> Job] /\ torn' = torn
         /\ job'[h] = [job[h] EXCEPT !.pc = pc] /\ job'[h].pc = pc
         /\ job'[h].op = job[h].op /\ job'[h].key = job[h].key
         /\ job'[h].chain = job[h].chain /\ job'[h].row = job[h].row
         /\ job'[h].mends = job[h].mends
         /\ \A g \in Handler \ {h} : job'[g] = job[g]
<1>1. job[h] \in Job /\ job'[h] = [job[h] EXCEPT !.pc = pc]
  BY DEF Goes, TypeOK
<1>2. job' \in [Handler -> Job]
  BY <1>1 DEF Goes, TypeOK, Job
<1> QED BY <1>1, <1>2 DEF Goes, Job, TypeOK

LEMMA EndsTyped ==
  ASSUME TypeOK, NEW h \in Handler, Ends(h) \/ Refused(h)
  PROVE  /\ job' \in [Handler -> Job] /\ torn' \subseteq Device
         /\ job'[h] = NoJob /\ \A g \in Handler \ {h} : job'[g] = job[g]
         /\ torn' \subseteq torn /\ torn \ {DeviceOf(h)} \subseteq torn'
         /\ ~Replaces(job[h].op) \/ ~job[h].mends => torn' = torn
  BY JobsTyped DEF Ends, Refused, TypeOK

LEMMA WriteTyped ==
  ASSUME TypeOK, NEW h \in Handler, NEW new \in Store, Write(h, new)
  PROVE  /\ local' \in [Device -> Store] /\ local'[DeviceOf(h)] = new
         /\ \A d \in Device \ {DeviceOf(h)} : local'[d] = local[d]
  BY DeviceTyped DEF Write, TypeOK

LEMMA SetsTyped ==
  \A s \in Store, a \in Maybe, b \in BOOLEAN :
    /\ [s EXCEPT !.chain = a, !.id = b] \in Store
    /\ [s EXCEPT !.wrapped = a] \in Store
    /\ [s EXCEPT !.chain = a, !.id = b, !.wrapped = a] \in Store
  BY DEF Store, Maybe

-----------------------------------------------------------------------------
(* Type correctness, one step per action. *)

LEMMA InitTyped == ASSUME Init PROVE TypeOK
<1>1. BlankStore \in Store /\ NoJob \in Job
  BY JobsTyped DEF BlankStore, Store, Maybe
<1>2. rows = <<>> /\ rows \in Seq(Bundle \cup {None}) /\ Len(rows) = 0
  BY DEF Init
<1> QED BY <1>1, <1>2 DEF Init, TypeOK, Maybe

LEMMA BeginTyped == ASSUME TypeOK, NEW h \in Handler, Begin(h) PROVE TypeOK'
<1>0. Mine(h) \in Store /\ cached[DeviceOf(h)] \in Maybe
  BY DeviceTyped DEF TypeOK, Mine
<1>1. ASSUME NEW a \in Account, BeginSetup(h, a) PROVE TypeOK'
  <2>1. [Mine(h) EXCEPT !.chain = a, !.id = FALSE] \in Store
    BY <1>0, SetsTyped DEF Maybe
  <2>2. local' \in [Device -> Store]
    BY <1>1, <2>1, WriteTyped DEF BeginSetup
  <2>3. job' \in [Handler -> Job] /\ torn' \subseteq Device
    BY <1>1, BeginsTyped DEF BeginSetup, Op, Stage, Maybe
  <2> QED BY <1>1, <2>2, <2>3 DEF BeginSetup, TypeOK, server
<1>2. CASE BeginUnlock(h)
  <2>1. Mine(h).wrapped \in Maybe
    BY <1>0 DEF Store
  <2>2. job' \in [Handler -> Job] /\ torn' \subseteq Device
    BY <1>2, <2>1, BeginsTyped DEF BeginUnlock, Op, Stage
  <2> QED BY <1>2, <2>2 DEF BeginUnlock, TypeOK, server, device
<1>3. CASE BeginReset(h)
  <2>1. [Mine(h) EXCEPT !.chain = None, !.id = FALSE, !.wrapped = None] \in Store
    BY <1>0, SetsTyped DEF Maybe
  <2>2. local' \in [Device -> Store]
    BY <1>3, <2>1, WriteTyped DEF BeginReset
  <2>3. job' \in [Handler -> Job] /\ torn' \subseteq Device
    BY <1>3, BeginsTyped DEF BeginReset, Op, Stage, Maybe
  <2> QED BY <1>3, <2>2, <2>3 DEF BeginReset, TypeOK, server
<1>4. CASE BeginJoin(h)
  <2>1. job' \in [Handler -> Job] /\ torn' \subseteq Device
    BY <1>4, BeginsTyped DEF BeginJoin, Op, Stage, Maybe
  <2> QED BY <1>4, <2>1 DEF BeginJoin, TypeOK, server, device
<1>5. CASE BeginExport(h, "kit") \/ BeginExport(h, "enroll")
  <2>1. job' \in [Handler -> Job] /\ torn' \subseteq Device
    BY <1>0, <1>5, BeginsTyped DEF BeginExport, Op, Stage
  <2> QED BY <1>5, <2>1 DEF BeginExport, TypeOK, server, device
<1>6. ASSUME NEW k \in kits, BeginRestore(h, k) PROVE TypeOK'
  <2>1. k.chain \in Maybe /\ k.under \in Maybe
    BY DEF TypeOK, Bundle, Maybe
  <2>2. [Mine(h) EXCEPT !.chain = k.chain, !.id = TRUE] \in Store
    BY <1>0, <2>1, SetsTyped
  <2>3. local' \in [Device -> Store]
    BY <1>6, <2>2, WriteTyped DEF BeginRestore
  <2>4. job' \in [Handler -> Job] /\ torn' \subseteq Device
    BY <1>6, <2>1, BeginsTyped DEF BeginRestore, Op, Stage
  <2> QED BY <1>6, <2>3, <2>4 DEF BeginRestore, TypeOK, server
<1> QED BY <1>1, <1>2, <1>3, <1>4, <1>5, <1>6 DEF Begin

\* Handlers that write to the device's own storage.
LocalStep(h) ==
  Wrap(h) \/ Register(h) \/ SetId(h) \/ Open(h) \/ Forget(h) \/ Install(h) \/ OpenWithoutPin(h)

LEMMA LocalTyped == ASSUME TypeOK, NEW h \in Handler, LocalStep(h) PROVE TypeOK'
<1>0. /\ Mine(h) \in Store /\ job[h] \in Job /\ job[h].key \in Maybe /\ job[h].chain \in Maybe
      /\ Mine(h).chain \in Maybe
  BY DeviceTyped DEF TypeOK, Mine, Job, Store
<1>1. CASE Wrap(h)
  <2>1. [Mine(h) EXCEPT !.wrapped = job[h].key] \in Store
    BY <1>0, SetsTyped
  <2>2. local' \in [Device -> Store]
    BY <1>1, <2>1, WriteTyped DEF Wrap
  <2>3. Goes(h, "register") \/ Goes(h, "open") \/ Ends(h)
    BY <1>1 DEF Wrap
  <2>4. job' \in [Handler -> Job] /\ torn' \subseteq Device
    BY <2>3, GoesTyped, EndsTyped DEF Stage, TypeOK
  <2> QED BY <1>1, <2>2, <2>4 DEF Wrap, TypeOK, server
<1>2. CASE Register(h)
  <2>1. [job[h] EXCEPT !.pc = "setId", !.chain = Mine(h).chain] \in Job
    BY <1>0 DEF Job, Stage
  <2>2. job' = [job EXCEPT ![h] = [job[h] EXCEPT !.pc = "setId", !.chain = Mine(h).chain]]
    BY <1>2 DEF Register, TypeOK
  <2>3. job' \in [Handler -> Job]
    BY <2>1, <2>2 DEF TypeOK
  <2> QED BY <1>2, <2>3 DEF Register, TypeOK, server, device
<1>3. CASE SetId(h)
  <2>1. [Mine(h) EXCEPT !.chain = job[h].chain, !.id = TRUE] \in Store
    BY <1>0, SetsTyped
  <2>2. local' \in [Device -> Store]
    BY <1>3, <2>1, WriteTyped DEF SetId, TypeOK
  <2>3. job' \in [Handler -> Job] /\ torn' = torn
    BY <1>3, GoesTyped DEF SetId, Stage
  <2> QED BY <1>3, <2>2, <2>3 DEF SetId, TypeOK, server
<1>4. CASE Open(h)
  <2>1. job' \in [Handler -> Job] /\ torn' \subseteq Device
    BY <1>4, GoesTyped, EndsTyped DEF Open, Stage, TypeOK
  <2> QED BY <1>0, <1>4, <2>1 DEF Open, TypeOK, server
<1>5. CASE Forget(h)
  <2>1. job' \in [Handler -> Job] /\ torn' \subseteq Device
    BY <1>5, EndsTyped DEF Forget
  <2> QED BY <1>5, <2>1 DEF Forget, TypeOK, server, Maybe
<1>6. CASE Install(h)
  <2>1. [Mine(h) EXCEPT !.chain = job[h].chain, !.id = TRUE] \in Store
    BY <1>0, SetsTyped
  <2>2. local' \in [Device -> Store]
    BY <1>6, <2>1, WriteTyped DEF Install
  <2>3. job' \in [Handler -> Job] /\ torn' = torn
    BY <1>6, GoesTyped DEF Install, Stage
  <2> QED BY <1>6, <2>2, <2>3 DEF Install, TypeOK, server
<1>7. CASE OpenWithoutPin(h)
  <2>1. job' \in [Handler -> Job]
    BY <1>7, JobsTyped DEF OpenWithoutPin, TypeOK
  <2>2. torn' \subseteq Device /\ cached' \in [Device -> Maybe]
    BY <1>0, <1>7, DeviceTyped DEF OpenWithoutPin, TypeOK
  <2> QED BY <1>7, <2>1, <2>2 DEF OpenWithoutPin, TypeOK, server
<1> QED BY <1>1, <1>2, <1>3, <1>4, <1>5, <1>6, <1>7 DEF LocalStep

LEMMA LockTyped == ASSUME TypeOK, NEW d \in Device, Lock(d) \/ Stops(d) PROVE TypeOK'
<1>1. cached' \in [Device -> Maybe]
  BY DEF Lock, Stops, TypeOK, Maybe
<1>2. job' \in [Handler -> Job] /\ torn' \subseteq Device
  BY JobsTyped DEF Lock, Stops, TypeOK
<1> QED BY <1>1, <1>2 DEF Lock, Stops, TypeOK, server

LEMMA NewestIsLast ==
  ASSUME rows \in Seq(Bundle \cup {None}), RowsInv
  PROVE  Newest = Len(rows)
<1>1. Len(rows) \in Nat /\ \A i \in Live : i \in 1..Len(rows)
  BY DEF Live
<1>2. CASE rows = <<>>
  BY <1>2 DEF Newest, Live
<1>3. CASE rows # <<>>
  <2>1. Len(rows) \in Live
    BY <1>1, <1>3 DEF RowsInv, Live
  <2>2. \A i \in Live : Len(rows) >= i
    BY <1>1
  <2>3. Max(Live) \in Live /\ Max(Live) >= Len(rows)
    BY <2>1, <2>2 DEF Max
  <2> QED BY <1>1, <2>1, <2>3 DEF Newest
<1> QED BY <1>2, <1>3

\* Handlers that deal with the server, or make a kit.
ServerStep(h) ==
  \/ WriteKit(h) \/ Seal(h) \/ PutKey(h) \/ ListRows(h) \/ Post(h) \/ DeleteOld(h)
  \/ FetchKey(h) \/ FetchList(h) \/ FetchRow(h) \/ RequestFails(h)

\* Rows are added at the end, and only those before the last one are deleted.
LEMMA RowsStep ==
  ASSUME TypeOK, RowsInv, NEW h \in Handler, ShapeInv(h), ServerStep(h)
  PROVE  /\ rows' \in Seq(Bundle \cup {None}) /\ Len(rows') <= MaxRows
         /\ RowsInv' /\ Len(rows) <= Len(rows')
<1>0. rows \in Seq(Bundle \cup {None}) /\ Len(rows) <= MaxRows /\ Len(rows) \in Nat
  BY DEF TypeOK
<1>1. CASE Post(h)
  <2>1. Sealed(h) \in Bundle
    <3>1. job[h].chain \in Account /\ job[h].key \in Account
      BY <1>1 DEF Post, ShapeInv, Busy, Uploading, Stages, TypeOK, Job, Maybe, Op
    <3> QED BY <3>1 DEF Sealed, Bundle
  <2>2. Sealed(h) # None
    BY <2>1
  <2>3. /\ rows' \in Seq(Bundle \cup {None}) /\ Len(rows') = Len(rows) + 1
        /\ rows'[Len(rows) + 1] = Sealed(h)
    BY <1>0, <1>1, <2>1, AppendProperties DEF Post
  <2> QED BY <1>0, <1>1, <2>2, <2>3 DEF Post, RowsInv
<1>2. CASE DeleteOld(h)
  <2>1. job[h].row \in Nat /\ job[h].row < Len(rows)
    BY <1>2 DEF DeleteOld, ShapeInv, Busy, TypeOK, Job
  <2>2. rows' = rows \/ (job[h].row # 0 /\ rows' = [rows EXCEPT ![job[h].row] = None])
    BY <1>2 DEF DeleteOld
  <2>3. CASE rows' = rows
    BY <1>0, <2>3 DEF RowsInv
  <2>4. CASE job[h].row # 0 /\ rows' = [rows EXCEPT ![job[h].row] = None]
    <3>1. /\ rows' \in Seq(Bundle \cup {None}) /\ Len(rows') = Len(rows)
          /\ rows'[Len(rows)] = rows[Len(rows)]
      BY <1>0, <2>1, <2>4, ExceptSeq
    <3> QED BY <1>0, <2>1, <3>1 DEF RowsInv
  <2> QED BY <2>2, <2>3, <2>4
<1>3. CASE ~Post(h) /\ ~DeleteOld(h)
  <2>1. rows' = rows
    BY <1>3 DEF ServerStep, WriteKit, Seal, PutKey, ListRows, FetchKey, FetchList, FetchRow,
            RequestFails, server
  <2> QED BY <1>0, <2>1 DEF RowsInv
<1> QED BY <1>1, <1>2, <1>3

LEMMA ServerTyped ==
  ASSUME TypeOK, RowsInv, NEW h \in Handler, ShapeInv(h), ServerStep(h)
  PROVE  TypeOK'
<1>0. /\ job[h] \in Job /\ job[h].key \in Maybe /\ job[h].mends \in BOOLEAN
      /\ Mine(h).chain \in Maybe
  BY DeviceTyped DEF TypeOK, Mine, Job, Store
<1>1. rows' \in Seq(Bundle \cup {None}) /\ Len(rows') <= MaxRows
  BY RowsStep
<1>2. \A j : (j \in Job /\ job' = [job EXCEPT ![h] = j]) => job' \in [Handler -> Job]
  BY DEF TypeOK
<1>3. CASE WriteKit(h)
  <2>1. job' \in [Handler -> Job] /\ torn' \subseteq Device
    BY <1>3, EndsTyped DEF WriteKit
  <2>2. kits' \subseteq Bundle
    <3>1. Mine(h).chain # None => KitMade(h) \in Bundle
      BY <1>0, <1>3 DEF WriteKit, KitMade, Bundle, Maybe, ShapeInv, Busy
    <3> QED BY <1>3, <3>1 DEF WriteKit, TypeOK
  <2> QED BY <1>3, <2>1, <2>2 DEF WriteKit, TypeOK, device, server
<1>4. CASE Seal(h)
  <2>1. [job[h] EXCEPT !.pc = "putKey", !.chain = Mine(h).chain] \in Job
    BY <1>0 DEF Job, Stage
  <2>2. Ends(h) \/ (/\ job' = [job EXCEPT ![h] = [job[h] EXCEPT !.pc = "putKey",
                                                                !.chain = Mine(h).chain]]
                    /\ torn' = torn)
    BY <1>4 DEF Seal, TypeOK
  <2>3. job' \in [Handler -> Job] /\ torn' \subseteq Device
    BY <1>2, <2>1, <2>2, EndsTyped DEF TypeOK
  <2> QED BY <1>4, <2>3 DEF Seal, TypeOK, device, server
<1>5. CASE PutKey(h)
  <2>1. job' \in [Handler -> Job] /\ torn' = torn
    BY <1>5, GoesTyped DEF PutKey, Stage
  <2> QED BY <1>0, <1>5, <2>1 DEF PutKey, TypeOK, device
<1>6. CASE ListRows(h)
  <2>1. Newest \in Nat
    BY NewestIsLast DEF TypeOK
  <2>2. [job[h] EXCEPT !.pc = "post", !.row = Newest] \in Job
    BY <1>0, <2>1 DEF Job, Stage
  <2>3. job' = [job EXCEPT ![h] = [job[h] EXCEPT !.pc = "post", !.row = Newest]]
    BY <1>6 DEF ListRows, TypeOK
  <2> QED BY <1>2, <1>6, <2>2, <2>3 DEF ListRows, TypeOK, device, server
<1>7. CASE Post(h)
  <2>1. job' \in [Handler -> Job] /\ torn' = torn
    BY <1>7, GoesTyped DEF Post, Stage
  <2> QED BY <1>1, <1>7, <2>1 DEF Post, TypeOK, device
<1>8. CASE DeleteOld(h)
  <2>1. job' \in [Handler -> Job] /\ torn' \subseteq Device
    BY <1>8, EndsTyped DEF DeleteOld
  <2> QED BY <1>1, <1>8, <2>1 DEF DeleteOld, TypeOK, device
<1>9. CASE FetchKey(h)
  <2>1. [job[h] EXCEPT !.pc = "fetchList", !.key = accountKey] \in Job
    BY <1>0 DEF Job, Stage, TypeOK
  <2>2. torn' = torn /\ (Refused(h) \/ job' = [job EXCEPT ![h] =
                           [job[h] EXCEPT !.pc = "fetchList", !.key = accountKey]])
    BY <1>9 DEF FetchKey, TypeOK, Refused
  <2>3. job' \in [Handler -> Job]
    BY <1>2, <2>1, <2>2, EndsTyped
  <2> QED BY <1>9, <2>2, <2>3 DEF FetchKey, TypeOK, device, server
<1>10. CASE FetchList(h)
  <2>1. Newest \in Nat
    BY NewestIsLast DEF TypeOK
  <2>2. [job[h] EXCEPT !.pc = "fetchRow", !.row = Newest] \in Job
    BY <1>0, <2>1 DEF Job, Stage
  <2>3. torn' = torn /\ (Refused(h) \/ job' = [job EXCEPT ![h] =
                           [job[h] EXCEPT !.pc = "fetchRow", !.row = Newest]])
    BY <1>10 DEF FetchList, TypeOK, Refused
  <2>4. job' \in [Handler -> Job]
    BY <1>2, <2>2, <2>3, EndsTyped
  <2> QED BY <1>10, <2>3, <2>4 DEF FetchList, TypeOK, device, server
<1>11. CASE FetchRow(h)
  <2>1. Refused(h) \/ (Fetched(h) # None /\ Take(h, Fetched(h)))
    BY <1>11 DEF FetchRow
  <2>2. CASE Refused(h)
    BY <1>11, <2>2, EndsTyped DEF FetchRow, TypeOK, device, server
  <2>3. CASE Fetched(h) # None /\ Take(h, Fetched(h))
    <3>1. Fetched(h) \in Bundle
      BY <1>11, <2>3, ElementOfSeq DEF FetchRow, Fetched, ShapeInv, Busy, TypeOK
    <3> DEFINE b == Fetched(h)
    <3>2. [job[h] EXCEPT !.pc = "install", !.chain = b.chain,
                         !.mends = job[h].mends /\ b.chain = b.under] \in Job
      BY <1>0, <3>1 DEF Job, Stage, Bundle, Maybe
    <3>3. job' = [job EXCEPT ![h] = [job[h] EXCEPT !.pc = "install", !.chain = b.chain,
                                       !.mends = job[h].mends /\ b.chain = b.under]]
      BY <2>3 DEF Take, TypeOK
    <3>4. job' \in [Handler -> Job] /\ torn' \subseteq Device
      BY <1>2, <2>3, <3>2, <3>3, DeviceTyped DEF Take, TypeOK
    <3> QED BY <1>11, <3>4 DEF FetchRow, TypeOK, device, server
  <2> QED BY <2>1, <2>2, <2>3
<1>12. CASE RequestFails(h)
  BY <1>12, EndsTyped DEF RequestFails, TypeOK, device, server
<1> QED BY <1>3, <1>4, <1>5, <1>6, <1>7, <1>8, <1>9, <1>10, <1>11, <1>12 DEF ServerStep

-----------------------------------------------------------------------------
(* The invariant is kept by a handler that goes on. *)

LEMMA ContinueIs ==
  ASSUME NEW h \in Handler, Continue(h)
  PROVE  LocalStep(h) \/ ServerStep(h)
  BY DEF Continue, LocalStep, ServerStep

\* Nobody else's work, and no other device, is touched; torn keys are only made
\* whole by a handler that mends, and keys only replaced by one that replaces.
StepOf(h) ==
  /\ Busy(h)
  /\ \A g \in Handler \ {h} : job'[g] = job[g]
  /\ \A d \in Device \ {DeviceOf(h)} :
        local'[d] = local[d] /\ cached'[d] = cached[d] /\ (d \in torn' <=> d \in torn)
  /\ DeviceOf(h) \in torn \ torn' => job[h].mends /\ Replaces(job[h].op)
  /\ ~Replaces(job[h].op) => local' = local
  /\ Len(rows) <= Len(rows')

LEMMA LocalStepOf ==
  ASSUME TypeOK, NEW h \in Handler, ShapeInv(h), LocalStep(h)
  PROVE  StepOf(h)
<1>1. /\ Busy(h) /\ rows' = rows /\ Len(rows) \in Nat
  BY DEF LocalStep, Wrap, Register, SetId, Open, Forget, Install, OpenWithoutPin, Busy, server,
         TypeOK
<1>2. \/ torn' = torn
      \/ Ends(h)
      \/ OpenWithoutPin(h)
  BY DEF LocalStep, Wrap, Register, SetId, Open, Forget, Install, Goes
<1>3. /\ \A g \in Handler \ {h} : job'[g] = job[g]
      /\ \A d \in Device \ {DeviceOf(h)} : (d \in torn' <=> d \in torn)
      /\ DeviceOf(h) \in torn \ torn' => job[h].mends /\ Replaces(job[h].op)
  <2>1. CASE OpenWithoutPin(h)
    BY <2>1, JobsTyped DEF OpenWithoutPin, TypeOK
  <2>2. CASE Ends(h)
    BY <2>2, EndsTyped DEF TypeOK, Job
  <2>3. CASE ~OpenWithoutPin(h) /\ ~Ends(h)
    BY <1>2, <2>3 DEF LocalStep, Wrap, Register, SetId, Open, Forget, Install, Goes, TypeOK
  <2> QED BY <2>1, <2>2, <2>3
<1>4. \A d \in Device \ {DeviceOf(h)} : local'[d] = local[d] /\ cached'[d] = cached[d]
  BY DEF LocalStep, Wrap, Register, SetId, Open, Forget, Install, OpenWithoutPin, Write, device,
         TypeOK
<1>5. ~Replaces(job[h].op) => local' = local
  <2>1. job[h].pc \in {"wrap", "setId", "install"} => Replaces(job[h].op)
    BY JobsTyped DEF ShapeInv, Busy, Stages, TypeOK, Job, Op
  <2> QED BY <2>1 DEF LocalStep, Wrap, Register, SetId, Open, Forget, Install, OpenWithoutPin,
                      device
<1> QED BY <1>1, <1>3, <1>4, <1>5 DEF StepOf

LEMMA ServerStepOf ==
  ASSUME TypeOK, RowsInv, NEW h \in Handler, ShapeInv(h), ServerStep(h)
  PROVE  StepOf(h)
<1>1. Len(rows) <= Len(rows')
  BY RowsStep
<1>2. Busy(h) /\ local' = local /\ cached' = cached
  BY DEF ServerStep, WriteKit, Seal, PutKey, ListRows, Post, DeleteOld, FetchKey, FetchList,
         FetchRow, RequestFails, Busy, device
<1>3. /\ \A g \in Handler \ {h} : job'[g] = job[g]
      /\ \A d \in Device \ {DeviceOf(h)} : (d \in torn' <=> d \in torn)
      /\ DeviceOf(h) \in torn \ torn' => job[h].mends /\ Replaces(job[h].op)
  <2>1. CASE Ends(h) \/ Refused(h)
    BY <2>1, EndsTyped DEF TypeOK, Job
  <2>2. CASE ~Ends(h) /\ ~Refused(h)
    BY <2>2 DEF ServerStep, WriteKit, Seal, PutKey, ListRows, Post, DeleteOld, FetchKey,
            FetchList, FetchRow, RequestFails, Goes, Take, TypeOK
  <2> QED BY <2>1, <2>2
<1> QED BY <1>1, <1>2, <1>3 DEF StepOf

LEMMA OthersKept ==
  ASSUME TypeOK, NEW h \in Handler, AloneInv(h), StepOf(h),
         NEW g \in Handler \ {h}, HandlerInv(g), Len(rows') \in Nat
  PROVE  HandlerInv(g)'
<1>0. /\ job'[g] = job[g] /\ job[g] \in Job /\ Busy(h) /\ (Busy(g)' <=> Busy(g))
      /\ Len(rows) \in Nat /\ Len(rows) <= Len(rows')
      /\ DeviceOf(g) \in Device
  BY DeviceTyped DEF StepOf, Busy, TypeOK
<1>1. CASE ~Busy(g)
  BY <1>0, <1>1 DEF HandlerInv, ShapeInv, AloneInv, ReplacedInv, ReadInv
<1>2. CASE Busy(g)
  <2>1. ShapeInv(g)'
    BY <1>0 DEF HandlerInv, ShapeInv, Job
  <2>2. Others(g)' \subseteq Others(g)
    BY <1>0 DEF StepOf, Others, Busy
  <2>3. CASE DeviceOf(g) = DeviceOf(h)
    <3>1. h \in Others(g) /\ g \in Others(h)
      BY <1>0, <1>2, <2>3 DEF Others
    <3>2. ~job[g].mends /\ ~job[h].mends
      BY <1>0, <1>2, <3>1 DEF HandlerInv, AloneInv
    <3>3. Replaces(job[h].op) \/ Replaces(job[g].op) => DeviceOf(g) \in torn
      BY <1>0, <1>2, <2>3, <3>2 DEF HandlerInv, AloneInv
    <3>4. DeviceOf(g) \in torn => DeviceOf(g) \in torn'
      BY <2>3, <3>2 DEF StepOf
    <3>5. AloneInv(g)' /\ ReplacedInv(g)'
      BY <1>0, <3>2, <3>3, <3>4 DEF AloneInv, ReplacedInv
    <3>6. ReadInv(g)'
      <4>1. DeviceOf(g) \notin torn' => DeviceOf(g) \notin torn /\ local' = local
        BY <3>3, <3>4 DEF StepOf
      <4> QED BY <1>0, <1>2, <4>1 DEF HandlerInv, ReadInv, Mine
    <3> QED BY <2>1, <3>5, <3>6 DEF HandlerInv
  <2>4. CASE DeviceOf(g) # DeviceOf(h)
    <3>1. /\ local'[DeviceOf(g)] = local[DeviceOf(g)] /\ cached'[DeviceOf(g)] = cached[DeviceOf(g)]
          /\ DeviceOf(g) \in torn' <=> DeviceOf(g) \in torn
      BY <1>0, <2>4 DEF StepOf
    <3> QED BY <1>0, <1>2, <2>1, <2>2, <3>1
            DEF HandlerInv, AloneInv, ReplacedInv, ReadInv, Mine
  <2> QED BY <2>3, <2>4
<1> QED BY <1>1, <1>2

\* Once a handler has ended there is nothing left to keep of it.
LEMMA EndedKept ==
  ASSUME NEW h \in Handler, job'[h] = NoJob
  PROVE  HandlerInv(h)'
  BY DEF HandlerInv, ShapeInv, AloneInv, ReplacedInv, ReadInv, Busy, NoJob

LEMMA GoneOnAlone ==
  ASSUME NEW h \in Handler, AloneInv(h), StepOf(h), job'[h].op = job[h].op,
         torn \subseteq torn', job'[h].mends => job[h].mends,
         job[h].mends /\ ~job'[h].mends => DeviceOf(h) \in torn'
  PROVE  AloneInv(h)'
  BY DEF AloneInv, StepOf, Others, Busy

LEMMA LocalOwnKept ==
  ASSUME TypeOK, NEW h \in Handler, HandlerInv(h), LocalStep(h)
  PROVE  HandlerInv(h)'
<1>0. /\ StepOf(h) /\ Busy(h) /\ Mine(h) \in Store /\ job[h] \in Job
      /\ AloneInv(h) /\ ShapeInv(h) /\ ReplacedInv(h)
  BY LocalStepOf, DeviceTyped DEF StepOf, TypeOK, Mine, HandlerInv
<1>1. ASSUME NEW pc \in Stage, Goes(h, pc), pc \in Stages(job[h].op),
             job[h].op \in {"setup", "restore", "join"},
             pc \notin {"fetchRow", "post", "delete", "install"}, job[h].key # None
      PROVE  ShapeInv(h)' /\ AloneInv(h)' /\ ReadInv(h)'
  <2>1. AloneInv(h)'
    BY <1>0, <1>1, GoesTyped, GoneOnAlone
  <2>2. /\ job'[h].pc = pc /\ job'[h].op = job[h].op /\ job'[h].key = job[h].key
        /\ Replaces(job[h].op)
    BY <1>1, GoesTyped, JobsTyped
  <2>3. pc \notin Uploading
    BY <1>1 DEF Stages, Uploading
  <2> QED BY <1>1, <2>1, <2>2, <2>3 DEF ShapeInv, ReadInv
<1>2. CASE Wrap(h)
  <2>1. /\ local'[DeviceOf(h)] = [Mine(h) EXCEPT !.wrapped = job[h].key]
        /\ job[h].key # None /\ job[h].op \in {"setup", "restore", "join"}
    BY <1>0, <1>2, DeviceTyped DEF Wrap, Write, TypeOK, ShapeInv
  <2>2. CASE Ends(h)
    BY <2>2, EndsTyped, EndedKept
  <2>3. ASSUME NEW pc \in {"register", "open"}, Goes(h, pc),
               job[h].op = IF pc = "open" THEN "restore" ELSE "setup"
        PROVE  HandlerInv(h)'
    <3>1. pc \in Stage /\ pc \in Stages(job[h].op)
      BY <2>3 DEF Stage, Stages
    <3>2. ReplacedInv(h)'
      BY <1>0, <1>2, <2>1, <2>3, <3>1, GoesTyped DEF Wrap, ReplacedInv, Mine, Store, Busy
    <3> QED BY <1>1, <2>1, <2>3, <3>1, <3>2 DEF HandlerInv
  <2> QED BY <1>2, <2>2, <2>3 DEF Wrap
<1>3. CASE Register(h)
  <2>1. /\ job'[h] = [job[h] EXCEPT !.pc = "setId", !.chain = Mine(h).chain]
        /\ UNCHANGED <<local, torn>> /\ job[h].op = "setup" /\ job[h].key # None
    BY <1>0, <1>3 DEF Register, TypeOK, device, ShapeInv, Stages, Job, Op
  <2>2. /\ job'[h].pc = "setId" /\ job'[h].chain = Mine(h).chain /\ job'[h].op = "setup"
        /\ job'[h].key = job[h].key /\ job'[h].mends = job[h].mends
    BY <1>0, <2>1 DEF Job
  <2>3. AloneInv(h)'
    BY <1>0, <2>1, <2>2, GoneOnAlone
  <2>4. ReplacedInv(h)'
    BY <1>0, <1>3, <2>1, <2>2 DEF Register, ReplacedInv, Mine, Busy, Replaces
  <2>5. ShapeInv(h)' /\ ReadInv(h)'
    BY <2>1, <2>2 DEF ShapeInv, ReadInv, Stages, Uploading, Replaces
  <2> QED BY <2>3, <2>4, <2>5 DEF HandlerInv
<1>4. CASE SetId(h)
  <2>1. job[h].op = "setup" /\ job[h].key # None /\ Goes(h, "open")
    BY <1>0, <1>4 DEF SetId, ShapeInv, Stages, Job, Op
  <2>2. "open" \in Stage /\ "open" \in Stages(job[h].op)
    BY <2>1 DEF Stage, Stages
  <2>3. ReplacedInv(h)'
    <3>1. CASE job[h].chain = None
      BY <1>0, <1>4, <2>1, <2>2, <3>1, GoesTyped DEF SetId, ReplacedInv, Mine, Busy
    <3>2. CASE job[h].chain # None
      <4>1. local'[DeviceOf(h)] = [Mine(h) EXCEPT !.chain = job[h].chain, !.id = TRUE]
        BY <1>4, <3>2, DeviceTyped DEF SetId, Write, TypeOK
      <4> QED BY <1>0, <1>4, <2>1, <2>2, <4>1, GoesTyped DEF SetId, ReplacedInv, Mine, Store, Busy
    <3> QED BY <3>1, <3>2
  <2> QED BY <1>1, <2>1, <2>2, <2>3 DEF HandlerInv
<1>5. CASE Open(h)
  <2>1. CASE Ends(h)
    BY <2>1, EndsTyped, EndedKept
  <2>2. CASE job[h].op = "join" /\ Goes(h, "wrap")
    <3>1. "wrap" \in Stage /\ "wrap" \in Stages(job[h].op) /\ job[h].key # None
      BY <1>0, <1>5, <2>2 DEF Open, Stage, Stages, ShapeInv
    <3>2. cached'[DeviceOf(h)] = job[h].key /\ local' = local
      BY <1>5, DeviceTyped DEF Open, TypeOK
    <3>3. ReplacedInv(h)'
      BY <1>0, <1>5, <2>2, <3>1, <3>2, GoesTyped DEF Open, ReplacedInv, Mine, Busy
    <3> QED BY <1>1, <2>2, <3>1, <3>3 DEF HandlerInv
  <2> QED BY <1>5, <2>1, <2>2 DEF Open
<1>6. CASE Forget(h)
  BY <1>6, EndsTyped, EndedKept DEF Forget
<1>7. CASE Install(h)
  <2>1. job[h].op = "join" /\ job[h].key # None /\ Goes(h, "open")
    BY <1>0, <1>7 DEF Install, ShapeInv, Stages, Job, Op
  <2>2. "open" \in Stage /\ "open" \in Stages(job[h].op)
    BY <2>1 DEF Stage, Stages
  <2>3. local'[DeviceOf(h)] = [Mine(h) EXCEPT !.chain = job[h].chain, !.id = TRUE]
    BY <1>7, DeviceTyped DEF Install, Write, TypeOK
  <2>4. ReplacedInv(h)'
    BY <1>0, <1>7, <2>1, <2>2, <2>3, GoesTyped DEF Install, ReplacedInv, Mine, Store, Busy
  <2> QED BY <1>1, <2>1, <2>2, <2>4 DEF HandlerInv
<1>8. CASE OpenWithoutPin(h)
  <2>1. job'[h] = NoJob
    BY <1>8 DEF OpenWithoutPin, TypeOK
  <2> QED BY <2>1, EndedKept
<1> QED BY <1>2, <1>3, <1>4, <1>5, <1>6, <1>7, <1>8 DEF LocalStep

LEMMA ServerOwnKept ==
  ASSUME TypeOK, RowsInv, NEW h \in Handler, HandlerInv(h), ServerStep(h)
  PROVE  HandlerInv(h)'
<1>0. /\ StepOf(h) /\ Busy(h) /\ job[h] \in Job /\ Len(rows) \in Nat
      /\ AloneInv(h) /\ ShapeInv(h) /\ ReadInv(h)
      /\ UNCHANGED <<local, cached>>
  <2>1. UNCHANGED <<local, cached>>
    BY DEF ServerStep, WriteKit, Seal, PutKey, ListRows, Post, DeleteOld, FetchKey, FetchList,
           FetchRow, RequestFails, device
  <2> QED BY <2>1, ServerStepOf DEF StepOf, HandlerInv, TypeOK
<1>1. CASE Ends(h) \/ Refused(h)
  BY <1>1, EndsTyped, EndedKept
<1>2. CASE Seal(h) /\ ~Ends(h)
  <2>1. /\ job'[h] = [job[h] EXCEPT !.pc = "putKey", !.chain = Mine(h).chain]
        /\ torn' = torn /\ Mine(h).chain # None
        /\ job[h].op = "enroll" /\ job[h].pc = "readChain"
    BY <1>2 DEF Seal, TypeOK
  <2>2. /\ job'[h].pc = "putKey" /\ job'[h].chain = Mine(h).chain /\ job'[h].op = "enroll"
        /\ job'[h].key = job[h].key /\ job'[h].mends = job[h].mends
    BY <1>0, <2>1 DEF Job
  <2>3. AloneInv(h)'
    BY <1>0, <2>1, <2>2, GoneOnAlone
  <2>4. ShapeInv(h)'
    BY <1>0, <2>1, <2>2 DEF ShapeInv, Stages, Uploading
  <2>5. ReadInv(h)' /\ ReplacedInv(h)'
    BY <1>0, <2>1, <2>2, JobsTyped DEF ReadInv, ReplacedInv, Mine, Busy
  <2> QED BY <2>3, <2>4, <2>5 DEF HandlerInv
<1>3. CASE PutKey(h) \/ Post(h)
  <2> DEFINE pc == IF PutKey(h) THEN "list" ELSE "delete"
  <2>1. /\ pc \in Stage /\ Goes(h, pc) /\ job[h].pc \in Uploading
        /\ job[h].pc = "post" <=> Post(h)
    BY <1>3 DEF PutKey, Post, Stage, Uploading
  <2>2. job[h].op = "enroll"
    BY <1>0, <2>1 DEF ShapeInv, Uploading, Stages, Job, Op
  <2>3. AloneInv(h)'
    BY <1>0, <2>1, GoesTyped, GoneOnAlone
  <2>4. ShapeInv(h)'
    <3>1. Post(h) => Len(rows') = Len(rows) + 1 /\ job[h].row <= Len(rows)
      BY <1>0 DEF Post, ShapeInv, TypeOK
    <3>2. /\ job'[h].pc = pc /\ job'[h].op = "enroll" /\ job'[h].row = job[h].row
          /\ job'[h].key = job[h].key /\ job'[h].chain = job[h].chain
          /\ job[h].row \in Nat
      BY <1>0, <2>1, <2>2, GoesTyped DEF Job
    <3>3. job[h].key # None /\ job[h].chain # None
      BY <1>0, <2>1, <2>2 DEF ShapeInv, Uploading
    <3>4. pc = "delete" => job[h].row < Len(rows')
      BY <1>0, <1>3, <3>1, <3>2
    <3> QED BY <3>2, <3>3, <3>4 DEF ShapeInv, Stages, Uploading
  <2>5. ReadInv(h)' /\ ReplacedInv(h)'
    BY <1>0, <2>1, <2>2, GoesTyped, JobsTyped DEF ReadInv, ReplacedInv, Uploading
  <2> QED BY <2>3, <2>4, <2>5 DEF HandlerInv
<1>4. CASE ListRows(h)
  <2>1. job'[h] = [job[h] EXCEPT !.pc = "post", !.row = Newest] /\ UNCHANGED <<rows, torn>>
    BY <1>4 DEF ListRows, TypeOK, server
  <2>2. /\ job'[h].pc = "post" /\ job'[h].row = Newest /\ job'[h].op = job[h].op
        /\ job'[h].key = job[h].key /\ job'[h].chain = job[h].chain
        /\ job'[h].mends = job[h].mends
    BY <1>0, <2>1 DEF Job
  <2>3. job[h].op = "enroll" /\ job[h].pc = "list"
    BY <1>0, <1>4 DEF ListRows, ShapeInv, Stages, Job, Op
  <2>4. AloneInv(h)'
    BY <1>0, <2>1, <2>2, GoneOnAlone
  <2>5. ShapeInv(h)'
    BY <1>0, <2>1, <2>2, <2>3, NewestIsLast DEF ShapeInv, Stages, Uploading, TypeOK
  <2>6. ReadInv(h)' /\ ReplacedInv(h)'
    BY <1>0, <2>1, <2>2, <2>3, JobsTyped DEF ReadInv, ReplacedInv, Uploading, Busy
  <2> QED BY <2>4, <2>5, <2>6 DEF HandlerInv
<1>5. CASE (FetchKey(h) \/ FetchList(h)) /\ ~Refused(h)
  <2> DEFINE j == IF FetchKey(h) THEN [job[h] EXCEPT !.pc = "fetchList", !.key = accountKey]
                  ELSE [job[h] EXCEPT !.pc = "fetchRow", !.row = Newest]
  <2>1. /\ job'[h] = j /\ UNCHANGED <<rows, torn>> /\ job[h].pc \in {"fetchKey", "fetchList"}
        /\ FetchKey(h) => accountKey # None
        /\ FetchList(h) => job[h].pc = "fetchList" /\ Newest # 0
    BY <1>5 DEF FetchKey, FetchList, TypeOK, server
  <2>2. /\ job'[h].op = job[h].op /\ job'[h].mends = job[h].mends
        /\ \/ job'[h].pc = "fetchList" /\ job'[h].key # None
           \/ job'[h].pc = "fetchRow" /\ job'[h].key = job[h].key /\ job'[h].row = Newest
              /\ job[h].pc = "fetchList" /\ Newest # 0
    BY <1>0, <1>5, <2>1 DEF Job
  <2>3. job[h].op = "join"
    BY <1>0, <2>1 DEF ShapeInv, Stages, Job, Op
  <2>4. AloneInv(h)'
    BY <1>0, <2>1, <2>2, GoneOnAlone
  <2>5. ShapeInv(h)'
    BY <1>0, <2>1, <2>2, <2>3, NewestIsLast DEF ShapeInv, Stages, Uploading, TypeOK
  <2>6. ReadInv(h)' /\ ReplacedInv(h)'
    BY <2>2, <2>3, JobsTyped DEF ReadInv, ReplacedInv
  <2> QED BY <2>4, <2>5, <2>6 DEF HandlerInv
<1>6. CASE FetchRow(h) /\ ~Refused(h)
  <2> DEFINE b == Fetched(h)
  <2>1. /\ job'[h] = [job[h] EXCEPT !.pc = "install", !.chain = b.chain,
                                    !.mends = job[h].mends /\ b.chain = b.under]
        /\ b.under = job[h].key /\ job[h].pc = "fetchRow"
        /\ torn' = IF b.chain = b.under THEN torn ELSE torn \cup {DeviceOf(h)}
    BY <1>6 DEF FetchRow, Take, TypeOK
  <2>2. /\ job'[h].pc = "install" /\ job'[h].op = job[h].op /\ job'[h].key = job[h].key
        /\ job'[h].chain = b.chain
        /\ job'[h].mends <=> job[h].mends /\ b.chain = b.under
    BY <1>0, <2>1 DEF Job
  <2>3. job[h].op = "join"
    BY <1>0, <2>1 DEF ShapeInv, Stages, Job, Op
  <2>4. AloneInv(h)'
    BY <1>0, <2>1, <2>2, GoneOnAlone
  <2>5. ShapeInv(h)'
    BY <1>0, <2>1, <2>2, <2>3 DEF ShapeInv, Stages, Uploading
  <2>6. ReadInv(h)' /\ ReplacedInv(h)'
    BY <2>1, <2>2, <2>3, JobsTyped DEF ReadInv, ReplacedInv
  <2> QED BY <2>4, <2>5, <2>6 DEF HandlerInv
<1>7. \/ Ends(h) \/ Refused(h)
      \/ Seal(h) \/ PutKey(h) \/ Post(h) \/ ListRows(h) \/ FetchKey(h) \/ FetchList(h)
      \/ FetchRow(h)
  BY DEF ServerStep, WriteKit, DeleteOld, RequestFails
<1> QED BY <1>1, <1>2, <1>3, <1>4, <1>5, <1>6, <1>7

-----------------------------------------------------------------------------
(* Devices at rest. *)

LEMMA OtherDevicesKept ==
  ASSUME TypeOK, NEW h \in Handler, StepOf(h), NEW d \in Device \ {DeviceOf(h)}, DeviceInv(d)
  PROVE  DeviceInv(d)'
<1>1. \A g \in Handler : DeviceOf(g) = d => (Half(g)' <=> Half(g))
  BY DEF StepOf, Half, Busy
<1> QED BY <1>1 DEF StepOf, DeviceInv, Whole

LEMMA OwnDeviceKept ==
  ASSUME TypeOK, RowsInv, NEW h \in Handler, \A g \in Handler : HandlerInv(g), Continue(h),
         DeviceInv(DeviceOf(h))
  PROVE  DeviceInv(DeviceOf(h))'
<1> DEFINE d == DeviceOf(h)
<1>0. /\ StepOf(h) /\ d \in Device /\ Busy(h) /\ job[h] \in Job /\ AloneInv(h) /\ ShapeInv(h)
      /\ ReplacedInv(h) /\ ReadInv(h) /\ Mine(h) = local[d] /\ Mine(h) \in Store
  BY ContinueIs, LocalStepOf, ServerStepOf, DeviceTyped DEF StepOf, HandlerInv, TypeOK, Mine
<1>1. SUFFICES ASSUME d \notin torn', \A g \in Handler : DeviceOf(g) = d => ~Half(g)'
               PROVE  Whole(d)'
  BY DEF DeviceInv
<1>2. Replaces(job[h].op) => job[h].mends
  BY <1>0, <1>1 DEF AloneInv, StepOf
<1>3. \A g \in Handler \ {h} : DeviceOf(g) = d => ~Half(g)
  BY <1>0, <1>1 DEF StepOf, Half, Busy
<1>4. d \notin torn /\ ~Half(h) => Whole(d)
  BY <1>3 DEF DeviceInv
<1>6. ASSUME ~Half(h), local' = local, cached' = cached PROVE Whole(d)'
  <2>1. CASE d \notin torn
    BY <1>4, <1>6, <2>1 DEF Whole
  <2>2. CASE d \in torn
    <3>1. Ends(h) \/ OpenWithoutPin(h)
      BY <1>0, <1>1, <2>2
      DEF Continue, Wrap, Register, SetId, Open, Forget, Install, WriteKit, Seal, PutKey,
          ListRows, Post, DeleteOld, FetchKey, FetchList, FetchRow, RequestFails, Goes, Refused,
          Take
    <3>2. Replaces(job[h].op) /\ job[h].pc \in {"wrap", "open", "forget", "readChain", "delete"}
      BY <1>0, <1>1, <2>2, <3>1
      DEF StepOf, Continue, Wrap, Register, SetId, Open, Forget, Install, WriteKit, Seal, PutKey,
          ListRows, Post, DeleteOld, FetchKey, FetchList, FetchRow, RequestFails, Goes, Refused,
          Take, OpenWithoutPin
    <3> QED BY <1>0, <1>6, <3>2 DEF Half, Fetching
  <2> QED BY <2>1, <2>2
<1>7. CASE ServerStep(h)
  <2>1. local' = local /\ cached' = cached
    BY <1>7 DEF ServerStep, WriteKit, Seal, PutKey, ListRows, Post, DeleteOld, FetchKey,
                FetchList, FetchRow, RequestFails, device
  <2>2. ~Half(h)
    <3>1. job[h].pc \in Fetching \cup Uploading \cup {"readChain"}
      BY <1>7 DEF ServerStep, WriteKit, Seal, PutKey, ListRows, Post, DeleteOld, FetchKey,
                  FetchList, FetchRow, RequestFails, Fetching, Uploading
    <3>2. job[h].pc \in Uploading \cup {"readChain"} => ~Replaces(job[h].op)
      BY <1>0 DEF ShapeInv, Stages, Uploading, Replaces, Job, Op
    <3> QED BY <3>1, <3>2 DEF Half, Fetching, Uploading
  <2> QED BY <1>6, <2>1, <2>2
<1>8. CASE Wrap(h)
  <2>1. local'[d] = [Mine(h) EXCEPT !.wrapped = job[h].key] /\ cached' = cached
    BY <1>0, <1>8 DEF Wrap, Write, TypeOK
  <2>2. job[h].op = "join"
    <3>1. CASE Goes(h, "register") \/ Goes(h, "open")
      <4>1. job'[h].pc \in {"register", "open"} /\ job'[h].op = job[h].op
            /\ Replaces(job[h].op)
        BY <1>0, <1>8, <3>1, GoesTyped, JobsTyped DEF Wrap, Stage, ShapeInv, Stages, Job, Op
      <4>2. Half(h)'
        BY <4>1 DEF Half, Busy, Fetching
      <4> QED BY <1>1, <4>2
    <3> QED BY <1>8, <3>1 DEF Wrap
  <2>3. /\ local[d].chain = job[h].key /\ local[d].id /\ cached[d] \in {None, job[h].key}
        /\ job[h].key # None
    BY <1>0, <1>2, <1>8, <2>2, JobsTyped DEF Wrap, ReplacedInv, ShapeInv, Busy
  <2> QED BY <1>0, <2>1, <2>3 DEF Whole, Store
<1>9. CASE Register(h) \/ SetId(h) \/ Install(h)
  <2>1. job[h].op \in {"setup", "join"}
    BY <1>0, <1>9 DEF Register, SetId, Install, ShapeInv, Stages, Job, Op
  <2>2. job'[h].op = job[h].op /\ job'[h].pc \in {"setId", "open"}
    <3>1. CASE Register(h)
      BY <1>0, <3>1 DEF Register, TypeOK, Job
    <3>2. CASE SetId(h) \/ Install(h)
      BY <3>2, GoesTyped DEF SetId, Install, Stage
    <3> QED BY <1>9, <3>1, <3>2
  <2>3. Half(h)'
    BY <2>1, <2>2, JobsTyped DEF Half, Busy, Fetching
  <2> QED BY <1>1, <2>3
<1>10. CASE Open(h)
  <2>1. /\ job[h].pc = "open" /\ cached'[d] = job[h].key /\ local' = local
        /\ job[h].key # None
    <3>1. job[h].op # "reset"
      BY <1>0, <1>10 DEF Open, ShapeInv, Stages
    <3> QED BY <1>0, <1>10, <3>1 DEF Open, TypeOK, ShapeInv
  <2>2. CASE job[h].op = "join"
    <3>1. job'[h].pc = "wrap" /\ job'[h].op = "join"
      BY <1>10, <2>2, GoesTyped DEF Open, Stage
    <3> QED BY <1>1, <3>1, JobsTyped DEF Half, Busy, Fetching
  <2>3. CASE job[h].op \in {"setup", "restore"}
    BY <1>0, <1>2, <2>1, <2>3, JobsTyped DEF ReplacedInv, Whole, Busy
  <2>4. CASE job[h].op = "unlock"
    <3>1. ~Half(h) /\ d \notin torn
      BY <1>0, <1>1, <2>4, JobsTyped DEF Half, StepOf
    <3>2. job[h].key = local[d].chain
      BY <1>0, <2>1, <2>4, <3>1, JobsTyped DEF ReadInv
    <3> QED BY <1>4, <2>1, <3>1, <3>2 DEF Whole
  <2> QED BY <1>0, <2>1, <2>2, <2>3, <2>4 DEF ShapeInv, Stages, Job, Op
<1>11. CASE Forget(h)
  <2>1. job[h].op = "reset"
    BY <1>0, <1>11 DEF Forget, ShapeInv, Stages, Job, Op
  <2>2. local' = local /\ cached'[d] = None
    BY <1>0, <1>11 DEF Forget, TypeOK
  <2> QED BY <1>0, <1>2, <2>1, <2>2, JobsTyped DEF ReplacedInv, Whole
<1>12. CASE OpenWithoutPin(h)
  <2>1. /\ cached'[d] = job[h].key /\ local' = local /\ job[h].op = "join"
        /\ job[h].pc = "open" /\ local[d].wrapped \in {None, job[h].key}
        /\ job[h].key # None
    BY <1>0, <1>1, <1>12 DEF OpenWithoutPin, TypeOK, ShapeInv
  <2> QED BY <1>0, <1>2, <2>1, JobsTyped DEF ReplacedInv, Whole
<1> QED BY <1>7, <1>8, <1>9, <1>10, <1>11, <1>12, ContinueIs DEF LocalStep

-----------------------------------------------------------------------------
(* The invariant is kept by a handler that begins. *)

LEMMA BeginOthersKept ==
  ASSUME TypeOK, NEW h \in Handler, NEW op \in Op, NEW pc \in Stage, NEW key \in Maybe,
         Begins(h, op, pc, key), rows' = rows, cached' = cached,
         \A d \in Device \ {DeviceOf(h)} : local'[d] = local[d],
         ~Replaces(op) => local' = local,
         NEW g \in Handler \ {h}, HandlerInv(g)
  PROVE  HandlerInv(g)'
<1>0. /\ ~Busy(h) /\ job'[g].op = job[g].op /\ job'[g].pc = job[g].pc
      /\ job'[g].key = job[g].key /\ job'[g].chain = job[g].chain /\ job'[g].row = job[g].row
      /\ job'[g].mends <=> job[g].mends /\ g \notin Others(h)
      /\ Busy(g)' <=> Busy(g)
      /\ torn \subseteq torn' /\ torn' \subseteq torn \cup {DeviceOf(h)}
      /\ DeviceOf(g) \in Device
  BY BeginsMeans, DeviceTyped DEF Busy
<1>1. CASE ~Busy(g)
  BY <1>0, <1>1 DEF HandlerInv, ShapeInv, AloneInv, ReplacedInv, ReadInv
<1>2. CASE Busy(g)
  <2>1. ShapeInv(g)'
    BY <1>0 DEF HandlerInv, ShapeInv
  <2>2. CASE DeviceOf(g) = DeviceOf(h)
    <3>1. g \in Others(h)
      BY <1>2, <2>2 DEF Others
    <3>2. Replaces(op) \/ Replaces(job[g].op) => DeviceOf(g) \in torn'
      BY <2>2, <3>1, BeginsMeans
    <3>3. AloneInv(g)' /\ ReplacedInv(g)'
      BY <1>0, <3>1, <3>2 DEF AloneInv, ReplacedInv
    <3>4. ReadInv(g)'
      <4>1. DeviceOf(g) \notin torn' => DeviceOf(g) \notin torn /\ local' = local
        BY <1>0, <3>2
      <4> QED BY <1>0, <1>2, <4>1 DEF HandlerInv, ReadInv, Mine
    <3> QED BY <2>1, <3>3, <3>4 DEF HandlerInv
  <2>3. CASE DeviceOf(g) # DeviceOf(h)
    <3>1. g \notin Others(h) /\ local'[DeviceOf(g)] = local[DeviceOf(g)]
          /\ (DeviceOf(g) \in torn' <=> DeviceOf(g) \in torn)
      BY <1>0, <2>3 DEF Others
    <3>2. Others(g)' \subseteq Others(g)
      <4>1. \A f \in Handler \ {h} : Busy(f)' <=> Busy(f)
        BY BeginsMeans DEF Busy
      <4> QED BY <2>3, <4>1 DEF Others
    <3> QED BY <1>0, <1>2, <2>1, <3>1, <3>2
            DEF HandlerInv, AloneInv, ReplacedInv, ReadInv, Mine
  <2> QED BY <2>2, <2>3
<1> QED BY <1>1, <1>2

LEMMA BeginAlone ==
  ASSUME TypeOK, NEW h \in Handler, NEW op \in Op, NEW pc \in Stage, NEW key \in Maybe,
         Begins(h, op, pc, key)
  PROVE  AloneInv(h)'
<1>1. Others(h)' \subseteq Others(h)
  BY BeginsMeans DEF Others, Busy
<1>2. job'[h].op = op /\ (job'[h].mends <=> Others(h) = {})
  BY BeginsMeans
<1>3. Replaces(op) /\ Others(h) # {} => DeviceOf(h) \in torn'
  BY BeginsMeans
<1> QED BY <1>1, <1>2, <1>3 DEF AloneInv

\* Keys that are replaced at once: half done from the first step on.
LEMMA BeginHalfKept ==
  ASSUME IInv, NEW h \in Handler, NEW op \in {"setup", "restore", "reset"},
         NEW pc \in Stages(op), pc \in {"wrap", "forget"}, NEW key \in Maybe,
         Begins(h, op, pc, key), UNCHANGED <<rows, cached>>,
         NEW new \in Store, Write(h, new),
         op = "reset" => new.chain = None /\ new.wrapped = None /\ ~new.id,
         op # "reset" => key # None /\ new.chain = key,
         op = "restore" => new.id,
         NEW d \in Device, NEW g \in Handler
  PROVE  HandlerInv(g)' /\ DeviceInv(d)'
<1>0. TypeOK /\ HandlerInv(g) /\ DeviceInv(d) /\ op \in Op /\ pc \in Stage
  BY DEF IInv, Op, Stage
<1>1. Replaces(op) /\ local'[DeviceOf(h)] = new
      /\ \A e \in Device \ {DeviceOf(h)} : local'[e] = local[e]
  BY <1>0, JobsTyped, WriteTyped
<1>2. /\ job'[h].op = op /\ job'[h].pc = pc /\ job'[h].key = key
      /\ torn' \subseteq torn \cup {DeviceOf(h)} /\ torn \subseteq torn'
  BY <1>0, BeginsMeans
<1>3. ASSUME g # h PROVE HandlerInv(g)'
  BY <1>0, <1>1, <1>3, BeginOthersKept
<1>4. ASSUME g = h PROVE HandlerInv(g)'
  <2>1. AloneInv(h)'
    BY <1>0, BeginAlone
  <2>2. ShapeInv(h)'
    BY <1>2 DEF ShapeInv, Uploading, Stages
  <2>3. ReplacedInv(h)' /\ ReadInv(h)'
    BY <1>1, <1>2 DEF ReplacedInv, ReadInv, Mine, Stages
  <2> QED BY <1>4, <2>1, <2>2, <2>3 DEF HandlerInv
<1>5. Half(h)'
  BY <1>1, <1>2 DEF Half, Busy, Fetching
<1>6. DeviceInv(d)'
  <2>1. CASE d = DeviceOf(h)
    BY <1>5, <2>1 DEF DeviceInv
  <2>2. CASE d # DeviceOf(h)
    <3>1. \A f \in Handler : DeviceOf(f) = d => (Half(f)' <=> Half(f))
      BY <1>0, <2>2, BeginsMeans DEF Half, Busy
    <3> QED BY <1>0, <1>1, <1>2, <2>2, <3>1 DEF DeviceInv, Whole
  <2> QED BY <2>1, <2>2
<1> QED BY <1>3, <1>4, <1>6

\* Handlers that begin by reading.
LEMMA BeginReadKept ==
  ASSUME IInv, NEW h \in Handler, NEW op, NEW pc, NEW key \in Maybe,
         \/ op = "unlock" /\ pc = "open"
         \/ op \in {"kit", "enroll"} /\ pc = "readChain"
         \/ op = "join" /\ pc = "fetchKey",
         Begins(h, op, pc, key), UNCHANGED <<rows, cached, local>>,
         op # "join" => key # None /\ key \in {cached[DeviceOf(h)], Mine(h).wrapped},
         NEW d \in Device, NEW g \in Handler
  PROVE  HandlerInv(g)' /\ DeviceInv(d)'
<1>0. TypeOK /\ HandlerInv(g) /\ DeviceInv(d) /\ op \in Op /\ pc \in Stage
      /\ DeviceOf(h) \in Device
  BY DeviceTyped DEF IInv, Op, Stage
<1>1. /\ job'[h].op = op /\ job'[h].pc = pc /\ job'[h].key = key /\ ~Busy(h)
      /\ torn' \subseteq torn \cup {DeviceOf(h)} /\ torn \subseteq torn'
      /\ \A f \in Handler \ {h} : job'[f].op = job[f].op /\ job'[f].pc = job[f].pc
  BY <1>0, BeginsMeans
<1>2. ASSUME g # h PROVE HandlerInv(g)'
  BY <1>0, <1>2, BeginOthersKept
<1>3. pc \in Stages(op)
  BY DEF Stages
<1>4. \A f \in Handler : Half(f)' <=> Half(f)
  <2>1. ~Half(h) /\ ~Half(h)'
    BY <1>1 DEF Half, Busy, Replaces, Fetching
  <2>2. \A f \in Handler \ {h} : Half(f)' <=> Half(f)
    BY <1>1 DEF Half, Busy
  <2> QED BY <2>1, <2>2
<1>5. ASSUME g = h PROVE HandlerInv(g)'
  <2>1. AloneInv(h)'
    BY <1>0, BeginAlone
  <2>2. ShapeInv(h)'
    BY <1>1, <1>3 DEF ShapeInv, Uploading
  <2>3. ReplacedInv(h)'
    BY <1>1 DEF ReplacedInv, Replaces
  <2>4. ReadInv(h)'
    <3>1. ASSUME op # "join", DeviceOf(h) \notin torn' PROVE key = Mine(h).chain
      <4>1. \A f \in Handler : DeviceOf(f) = DeviceOf(h) => ~Half(f)
        <5>1. ASSUME NEW f \in Others(h) PROVE ~Replaces(job[f].op)
          BY <1>0, <3>1, BeginsMeans
        <5> QED BY <1>1, <5>1 DEF Half, Others
      <4>2. Whole(DeviceOf(h))
        BY <1>0, <1>1, <3>1, <4>1 DEF IInv, DeviceInv
      <4> QED BY <3>1, <4>2 DEF Whole, Mine
    <3> QED BY <1>1, <3>1 DEF ReadInv, Replaces, Uploading, Mine
  <2> QED BY <1>5, <2>1, <2>2, <2>3, <2>4 DEF HandlerInv
<1>6. DeviceInv(d)'
  BY <1>0, <1>1, <1>4 DEF DeviceInv, Whole
<1> QED BY <1>2, <1>5, <1>6

LEMMA BeginKept == ASSUME IInv, NEW h \in Handler, Begin(h) PROVE IInv'
<1>0. /\ TypeOK /\ TypeOK' /\ RowsInv /\ Mine(h) \in Store
      /\ Mine(h).wrapped \in Maybe /\ cached[DeviceOf(h)] \in Maybe
  BY BeginTyped, DeviceTyped DEF IInv, TypeOK, Mine, Store
<1>1. SUFFICES ASSUME NEW d \in Device, NEW g \in Handler
               PROVE  rows' = rows /\ HandlerInv(g)' /\ DeviceInv(d)'
  <2>1. Handler # {} /\ Device # {}
    BY DeviceTyped
  <2> QED BY <1>0, <1>1, <2>1 DEF IInv, RowsInv
<1>2. ASSUME NEW a \in Account, BeginSetup(h, a)
      PROVE  rows' = rows /\ HandlerInv(g)' /\ DeviceInv(d)'
  <2> DEFINE new == [Mine(h) EXCEPT !.chain = a, !.id = FALSE]
  <2>1. /\ Begins(h, "setup", "wrap", a) /\ UNCHANGED <<rows, cached>> /\ Write(h, new)
        /\ a \in Maybe /\ a # None
    BY <1>2 DEF BeginSetup, server, Maybe
  <2>2. new \in Store /\ new.chain = a
    BY <1>0, <2>1 DEF Store
  <2>3. "wrap" \in Stages("setup")
    BY DEF Stages
  <2> HIDE DEF new
  <2> QED BY <2>1, <2>2, <2>3, BeginHalfKept
<1>3. ASSUME NEW k \in kits, BeginRestore(h, k)
      PROVE  rows' = rows /\ HandlerInv(g)' /\ DeviceInv(d)'
  <2> DEFINE new == [Mine(h) EXCEPT !.chain = k.chain, !.id = TRUE]
  <2>1. /\ Begins(h, "restore", "wrap", k.under) /\ UNCHANGED <<rows, cached>> /\ Write(h, new)
        /\ k.under \in Maybe /\ k.under # None /\ k.chain = k.under
    BY <1>0, <1>3 DEF BeginRestore, server, Maybe, TypeOK, Bundle
  <2>2. new \in Store /\ new.chain = k.under /\ new.id
    BY <1>0, <2>1 DEF Store
  <2>3. "wrap" \in Stages("restore")
    BY DEF Stages
  <2> HIDE DEF new
  <2> QED BY <2>1, <2>2, <2>3, BeginHalfKept
<1>4. CASE BeginReset(h)
  <2> DEFINE new == [Mine(h) EXCEPT !.chain = None, !.id = FALSE, !.wrapped = None]
  <2>1. /\ Begins(h, "reset", "forget", None) /\ UNCHANGED <<rows, cached>> /\ Write(h, new)
        /\ None \in Maybe
    BY <1>4 DEF BeginReset, server, Maybe
  <2>2. new \in Store /\ new.chain = None /\ new.wrapped = None /\ ~new.id
    BY <1>0, <2>1 DEF Store
  <2>3. "forget" \in Stages("reset")
    BY DEF Stages
  <2> HIDE DEF new
  <2> QED BY <2>1, <2>2, <2>3, BeginHalfKept
<1>5. CASE BeginUnlock(h)
  BY <1>0, <1>5, BeginReadKept DEF BeginUnlock, device, server
<1>6. CASE BeginJoin(h)
  <2>1. None \in Maybe
    BY DEF Maybe
  <2> QED BY <1>6, <2>1, BeginReadKept DEF BeginJoin, device, server
<1>7. CASE BeginExport(h, "kit") \/ BeginExport(h, "enroll")
  BY <1>0, <1>7, BeginReadKept DEF BeginExport, device, server
<1> QED BY <1>2, <1>3, <1>4, <1>5, <1>6, <1>7 DEF Begin

LEMMA ContinueKept == ASSUME IInv, NEW h \in Handler, Continue(h) PROVE IInv'
<1>0. TypeOK /\ RowsInv /\ \A g \in Handler : HandlerInv(g) /\ ShapeInv(g) /\ AloneInv(g)
  BY DEF IInv, HandlerInv
<1>1. StepOf(h)
  BY <1>0, ContinueIs, LocalStepOf, ServerStepOf
<1>2. TypeOK' /\ RowsInv' /\ HandlerInv(h)'
  <2>1. CASE LocalStep(h)
    <3>1. rows' = rows
      BY <2>1 DEF LocalStep, Wrap, Register, SetId, Open, Forget, Install, OpenWithoutPin, server
    <3> QED BY <1>0, <2>1, <3>1, LocalTyped, LocalOwnKept DEF RowsInv
  <2>2. CASE ServerStep(h)
    BY <1>0, <2>2, ServerTyped, RowsStep, ServerOwnKept
  <2> QED BY <2>1, <2>2, ContinueIs
<1>3. ASSUME NEW g \in Handler \ {h} PROVE HandlerInv(g)'
  BY <1>0, <1>1, <1>2, <1>3, OthersKept DEF TypeOK
<1>4. ASSUME NEW d \in Device PROVE DeviceInv(d)'
  BY <1>0, <1>1, OtherDevicesKept, OwnDeviceKept DEF IInv
<1> QED BY <1>2, <1>3, <1>4 DEF IInv

LEMMA LockKept == ASSUME IInv, NEW d \in Device, Lock(d) PROVE IInv'
<1>1. TypeOK /\ TypeOK' /\ UNCHANGED <<local, job, rows, torn>>
  BY LockTyped DEF IInv, Lock, server
<1>2. \A e \in Device : cached'[e] \in {None, cached[e]}
  BY <1>1 DEF Lock, TypeOK
<1>3. ASSUME NEW h \in Handler PROVE HandlerInv(h)'
  BY <1>1, <1>2, DeviceTyped
  DEF IInv, HandlerInv, ShapeInv, AloneInv, ReplacedInv, ReadInv, Busy, Others, Mine
<1>4. ASSUME NEW e \in Device PROVE DeviceInv(e)'
  BY <1>1, <1>2 DEF IInv, DeviceInv, Half, Busy, Whole
<1> QED BY <1>1, <1>3, <1>4 DEF IInv, RowsInv

LEMMA StopsKept == ASSUME IInv, NEW d \in Device, Stops(d) PROVE IInv'
<1>1. TypeOK /\ TypeOK' /\ UNCHANGED <<local, rows>> /\ torn \subseteq torn'
      /\ torn' \subseteq torn \cup {d}
  BY LockTyped DEF IInv, Stops, server
<1>2. \A e \in Device : cached'[e] \in {None, cached[e]} /\ (e # d => cached'[e] = cached[e])
  BY <1>1 DEF Stops, TypeOK
<1>3. \A h \in Handler : job'[h] = IF DeviceOf(h) = d THEN NoJob ELSE job[h]
  BY DEF Stops
<1>4. ASSUME NEW h \in Handler PROVE HandlerInv(h)'
  <2>1. CASE DeviceOf(h) = d
    BY <1>3, <2>1, EndedKept
  <2>2. CASE DeviceOf(h) # d
    <3>1. /\ job'[h] = job[h] /\ (DeviceOf(h) \in torn' <=> DeviceOf(h) \in torn)
          /\ cached'[DeviceOf(h)] = cached[DeviceOf(h)]
      BY <1>1, <1>2, <1>3, <2>2, DeviceTyped
    <3>2. Others(h)' \subseteq Others(h)
      BY <1>3, <2>2 DEF Others, Busy
    <3> QED BY <1>1, <3>1, <3>2
            DEF IInv, HandlerInv, ShapeInv, AloneInv, ReplacedInv, ReadInv, Busy, Mine
  <2> QED BY <2>1, <2>2
<1>5. ASSUME NEW e \in Device PROVE DeviceInv(e)'
  <2>1. CASE e = d
    <3>1. d \notin torn' => d \notin torn /\ \A h \in Handler : DeviceOf(h) = d => ~Half(h)
      BY <1>1 DEF Stops, Cut, Half, Busy
    <3> QED BY <1>1, <1>2, <2>1, <3>1 DEF IInv, DeviceInv, Whole
  <2>2. CASE e # d
    <3>1. \A h \in Handler : DeviceOf(h) = e => (Half(h)' <=> Half(h))
      BY <1>3, <2>2 DEF Half, Busy
    <3> QED BY <1>1, <1>2, <2>2, <3>1 DEF IInv, DeviceInv, Whole
  <2> QED BY <2>1, <2>2
<1> QED BY <1>1, <1>4, <1>5 DEF IInv, RowsInv

-----------------------------------------------------------------------------
(* The theorems. *)

LEMMA IInvInit == ASSUME Init PROVE IInv
<1>1. TypeOK /\ RowsInv
  BY InitTyped DEF Init, RowsInv
<1>2. \A h \in Handler : ~Busy(h)
  BY DEF Init, Busy, NoJob
<1>3. \A h \in Handler : HandlerInv(h)
  BY <1>2 DEF HandlerInv, ShapeInv, AloneInv, ReplacedInv, ReadInv
<1>4. \A d \in Device : DeviceInv(d)
  BY DEF Init, DeviceInv, Whole, BlankStore
<1> QED BY <1>1, <1>3, <1>4 DEF IInv

LEMMA IInvNext == IInv /\ [Next]_vars => IInv'
<1> SUFFICES ASSUME IInv, [Next]_vars PROVE IInv'
  OBVIOUS
<1>1. CASE UNCHANGED vars
  <2>1. UNCHANGED <<local, cached, job, made, kits, accountKey, rows, torn>>
    BY <1>1 DEF vars, device, server
  <2>2. TypeOK' /\ RowsInv'
    BY <2>1 DEF IInv, TypeOK, RowsInv
  <2>3. \A h \in Handler : HandlerInv(h)'
    BY <2>1 DEF IInv, HandlerInv, ShapeInv, AloneInv, ReplacedInv, ReadInv, Busy, Others, Mine
  <2>4. \A d \in Device : DeviceInv(d)'
    BY <2>1 DEF IInv, DeviceInv, Half, Busy, Whole
  <2> QED BY <2>2, <2>3, <2>4 DEF IInv
<1> QED BY <1>1, BeginKept, ContinueKept, LockKept, StopsKept DEF Next

LEMMA IInvAlways == Spec => []IInv
<1>1. Init => IInv
  BY IInvInit
<1> QED BY <1>1, IInvNext, PTL DEF Spec

\* Type correctness: storage, server rows and handlers keep their shape, with any
\* number of handlers overlapping.
THEOREM AccountsTypeCorrect == Spec => []TypeOK
<1>1. IInv => TypeOK
  BY DEF IInv
<1> QED BY <1>1, IInvAlways, PTL

\* The PIN of a device at rest unwraps the key its keychain opens under, and the
\* cached key is that key: setup, restore, join, reset and unlock in any order,
\* overlapping or not, unless the device was torn and not mended since.
THEOREM PinAlwaysOpens == Spec => []PinOpens
<1>1. IInv => PinOpens
  BY DEF IInv, DeviceInv, Whole, Half, PinOpens, Sound, Cut
<1> QED BY <1>1, IInvAlways, PTL

\* initKeychain writes a keychain without a device id; setDeviceId, restore and
\* join see to it that no device comes to rest with one.
THEOREM DeviceIdAlwaysSet == Spec => []HasDeviceId
<1>1. IInv => HasDeviceId
  BY DEF IInv, DeviceInv, Whole, Half, HasDeviceId, Sound, Cut
<1> QED BY <1>1, IInvAlways, PTL

\* Kits and sealed keychains open under the key they are sealed with, though the
\* key is taken before the keychain is read (GENERATE_RECOVERY_KIT,
\* buildEnrollment).
THEOREM BundlesAlwaysOpen == Spec => BundlesOpen
<1>1. IInv => \A h \in Handler : DeviceOf(h) \notin torn =>
                /\ WriteKit(h) /\ Mine(h).chain # None => Opening(KitMade(h))
                /\ Post(h) => Opening(Sealed(h))
  <2> SUFFICES ASSUME IInv, NEW h \in Handler, DeviceOf(h) \notin torn
               PROVE  /\ WriteKit(h) /\ Mine(h).chain # None => Opening(KitMade(h))
                      /\ Post(h) => Opening(Sealed(h))
    OBVIOUS
  <2>1. ShapeInv(h) /\ ReadInv(h) /\ job[h] \in Job
    BY DEF IInv, HandlerInv, TypeOK
  <2>2. WriteKit(h) => Opening(KitMade(h))
    BY <2>1, JobsTyped DEF WriteKit, ReadInv, Opening, KitMade, Busy
  <2>3. Post(h) => Opening(Sealed(h))
    <3>1. Post(h) => job[h].op = "enroll"
      BY <2>1 DEF Post, ShapeInv, Busy, Stages, Job, Op
    <3> QED BY <2>1, <3>1, JobsTyped DEF Post, ReadInv, Opening, Sealed, Busy, Uploading
  <2> QED BY <2>2, <2>3
<1> QED BY <1>1, IInvAlways, PTL DEF BundlesOpen

\* putSealedKeychain posts the new row before it deletes the old one, and never
\* deletes the last: with any number of devices enrolling at once, requests lost
\* and workers stopped, an enrolled account keeps a keychain.
THEOREM KeychainAlwaysThere == Spec => []KeychainNeverVanishes
<1>1. IInv => KeychainNeverVanishes
  <2> SUFFICES ASSUME IInv, rows # <<>> PROVE Len(rows) \in Live
    BY DEF KeychainNeverVanishes
  <2>1. Len(rows) \in Nat \ {0}
    BY DEF IInv, TypeOK
  <2> QED BY <2>1 DEF IInv, RowsInv, Live
<1> QED BY <1>1, IInvAlways, PTL
=============================================================================
