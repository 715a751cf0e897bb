-------------------------- MODULE KeychainLock_proofs --------------------------
(***************************************************************************)
(* Theorems about KeychainLock, for any number of messages in progress,    *)
(* any idle time, and workers that may stop at any step.                   *)
(***************************************************************************)
EXTENDS KeychainLock, TLAPS

USE LockAssumption DEF When, Never

\* Only the work in progress of one process changes, to a job.
LEMMA BecomesTyped ==
  ASSUME job \in [Proc -> Job], NEW p \in Proc, NEW new \in Job, Becomes(p, new)
  PROVE  job' \in [Proc -> Job]
  BY DEF Becomes

LEMMA JobsTyped ==
  /\ NoJob \in Job
  /\ \A pc \in Stage : At(pc) \in Job
  /\ \A p \in Proc : job[p] \in Job =>
       \A pc \in Stage, ms \in Nat : [job[p] EXCEPT !.pc = pc, !.ms = ms] \in Job
  BY DEF NoJob, At, Job, Kind, Stage

LEMMA OverlapsTyped ==
  ASSUME TypeOK, NEW p \in Proc, Overlaps(p)
  PROVE  raced' \in BOOLEAN
  BY Zenon DEF Overlaps, TypeOK

LEMMA LimitTyped == ASSUME TypeOK, NEW ms \in Nat PROVE LimitFrom(ms) \in When
  BY DEF LimitFrom, TypeOK

LEMMA DropTyped ==
  ASSUME TypeOK, Drop
  PROVE  /\ key' \in BOOLEAN /\ stored' \in BOOLEAN /\ opened' \in BOOLEAN
         /\ lockAt' \in When /\ storedAt' \in When
<1>1. opened' \in BOOLEAN
  BY Zenon DEF Drop, TypeOK
<1> QED BY <1>1 DEF Drop

LEMMA HasKeyTyped ==
  ASSUME TypeOK, NEW h \in Msg, NEW kind \in Kind, HasKey(h, kind)
  PROVE  job' \in [Proc -> Job] /\ opened' \in BOOLEAN
<1>1. h \in Proc /\ job \in [Proc -> Job]
  BY DEF Proc, TypeOK
<1>2. opened' \in BOOLEAN
  BY Zenon DEF HasKey, TypeOK
<1>3. At("clear") \in Job /\ At("open") \in Job /\ NoJob \in Job
  BY JobsTyped DEF Stage
<1>4. job' \in [Proc -> Job]
  BY <1>1, <1>3, BecomesTyped DEF HasKey, Kind
<1> QED BY <1>2, <1>4

-----------------------------------------------------------------------------
(* The inductive invariant. *)

\* A reset of the UNLOCK chain ends by taking the chain's head off: there is one.
ChainShape == Busy(Unlocker) => chain # <<>>

\* What work in progress still knows: a key it saw in session storage, only
\* while it waits for the answer; a key it took from memory, which is there
\* unless something overlapped it; neither, of a vault the user has locked.
LockInv ==
  /\ \A p \in Proc : job[p].sawKey => job[p].pc = "cold"
  /\ \A p \in Proc : job[p].pc = "open" => key \/ raced
  /\ opened => key \/ raced
  /\ told /\ ~raced => ~key /\ ~stored /\ \A p \in Proc : ~job[p].sawKey

IInv == TypeOK /\ ChainShape /\ LockInv

-----------------------------------------------------------------------------
(* Type correctness, one step per action. *)

LEMMA MessageTyped ==
  ASSUME TypeOK, NEW h \in Msg, Message(h)
  PROVE  TypeOK'
<1> USE DEF session
<1>1. h \in Proc /\ job \in [Proc -> Job] /\ job[h] \in Job
  BY DEF Proc, TypeOK
<1>2. /\ NoJob \in Job /\ At("clear") \in Job /\ At("unarm") \in Job
      /\ At("cold") \in Job
  BY JobsTyped DEF Stage
<1>3. ASSUME NEW kind \in Kind, Receive(h, kind)  PROVE TypeOK'
  BY <1>1, <1>3, HasKeyTyped, OverlapsTyped DEF Receive, TypeOK
<1>4. ASSUME NEW kind \in Kind, ReceiveCold(h, kind)  PROVE TypeOK'
  <2> DEFINE new == [At("cold") EXCEPT !.kind = kind, !.sawKey = stored,
                                       !.sawAt = IF stored THEN storedAt ELSE Never]
  <2>1. new \in Job
    BY <1>2 DEF Job, TypeOK
  <2>2. job' \in [Proc -> Job]
    BY <1>1, <1>4, <2>1, BecomesTyped DEF ReceiveCold
  <2> QED BY <1>1, <1>4, <2>2, OverlapsTyped DEF ReceiveCold, TypeOK
<1>5. ASSUME ReceiveLate(h)  PROVE TypeOK'
  BY <1>1, <1>5, DropTyped, OverlapsTyped DEF ReceiveLate, TypeOK
<1>6. ASSUME ReceiveDelete(h)  PROVE TypeOK'
  <2>1. job' \in [Proc -> Job]
    BY <1>1, <1>2, <1>6, BecomesTyped DEF ReceiveDelete
  <2> QED BY <1>1, <1>6, <2>1, OverlapsTyped DEF ReceiveDelete, TypeOK
<1>7. ASSUME Lock(h)  PROVE TypeOK'
  <2>1. job' \in [Proc -> Job]
    BY <1>1, <1>2, <1>7, BecomesTyped DEF Lock
  <2> QED BY <1>1, <1>7, <2>1, DropTyped, OverlapsTyped DEF Lock, TypeOK
<1>8. ASSUME ColdReturns(h)  PROVE TypeOK'
  <2>1. CASE ~job[h].sawKey
    <3>1. job' \in [Proc -> Job]
      BY <1>1, <1>2, <1>8, <2>1, BecomesTyped DEF ColdReturns
    <3> QED BY <1>1, <1>8, <2>1, <3>1, OverlapsTyped DEF ColdReturns, TypeOK
  <2>2. CASE job[h].sawKey /\ Passed(job[h].sawAt)
    <3>1. job' \in [Proc -> Job]
      BY <1>1, <1>2, <1>8, <2>2, BecomesTyped DEF ColdReturns
    <3> QED BY <1>1, <1>8, <2>2, <3>1, DropTyped, OverlapsTyped DEF ColdReturns, TypeOK
  <2>3. CASE job[h].sawKey /\ ~Passed(job[h].sawAt)
    <3>1. job[h].kind \in Kind /\ job[h].sawAt \in When
      BY <1>1 DEF Job
    <3>2. job' \in [Proc -> Job] /\ opened' \in BOOLEAN
      BY <1>8, <2>3, <3>1, HasKeyTyped DEF ColdReturns
    <3> QED BY <1>1, <1>8, <2>3, <3>1, <3>2, OverlapsTyped DEF ColdReturns, TypeOK
  <2> QED BY <1>1, <2>1, <2>2, <2>3 DEF Job
<1>9. ASSUME OpenItems(h)  PROVE TypeOK'
  <2>1. job' \in [Proc -> Job]
    BY <1>1, <1>2, <1>9, BecomesTyped DEF OpenItems
  <2> QED BY <1>1, <1>9, <2>1, OverlapsTyped DEF OpenItems, TypeOK
<1>10. ASSUME LockDone(h)  PROVE TypeOK'
  <2>1. job' \in [Proc -> Job]
    BY <1>1, <1>2, <1>10, BecomesTyped DEF LockDone
  <2> QED BY <1>1, <1>10, <2>1, OverlapsTyped DEF LockDone, TypeOK
<1> QED BY <1>3, <1>4, <1>5, <1>6, <1>7, <1>8, <1>9, <1>10 DEF Message

LEMMA EndsTyped ==
  ASSUME TypeOK, ChainShape, NEW p \in Proc, Busy(p), Ends(p)
  PROVE  job' \in [Proc -> Job] /\ chain' \in Seq(Pin)
<1>1. job' \in [Proc -> Job]
  BY JobsTyped, BecomesTyped DEF Ends, TypeOK
<1>2. CASE p = Unlocker
  <2>1. chain \in Seq(Pin) /\ chain # <<>>
    BY <1>2 DEF ChainShape, TypeOK
  <2> QED BY <1>1, <1>2, <2>1 DEF Ends
<1>3. CASE p # Unlocker
  BY <1>1, <1>3 DEF Ends, TypeOK
<1> QED BY <1>2, <1>3

LEMMA ResetTyped ==
  ASSUME TypeOK, ChainShape, NEW p \in Proc, Reset(p)
  PROVE  TypeOK'
<1> USE DEF session
<1>1. job \in [Proc -> Job] /\ job[p] \in Job /\ job[p].ms \in Nat /\ minutes \in Nat
  BY DEF Job, TypeOK
<1>2. ASSUME ClearTimer(p)  PROVE TypeOK'
  <2>1. [job[p] EXCEPT !.pc = "deadline", !.ms = minutes] \in Job
    BY <1>1, JobsTyped DEF Stage
  <2>2. job' \in [Proc -> Job]
    BY <1>1, <1>2, <2>1, BecomesTyped DEF ClearTimer
  <2> QED BY <1>2, <2>2, OverlapsTyped DEF ClearTimer, TypeOK
<1>3. ASSUME SetDeadline(p)  PROVE TypeOK'
  <2>1. lockAt' \in When /\ storedAt' \in When /\ limit' \in When
    BY <1>1, <1>3, LimitTyped DEF SetDeadline
  <2>2. [job[p] EXCEPT !.pc = "arm"] \in Job
    BY <1>1 DEF Job, Stage
  <2>3. Busy(p)
    BY <1>3 DEF SetDeadline, Busy
  <2>4. job' \in [Proc -> Job] /\ chain' \in Seq(Pin)
    <3>1. CASE job[p].ms > 0
      <4>1. Becomes(p, [job[p] EXCEPT !.pc = "arm"]) /\ chain' = chain
        BY <1>3, <3>1 DEF SetDeadline
      <4> QED BY <1>1, <2>2, <4>1, BecomesTyped DEF TypeOK
    <3>2. CASE ~(job[p].ms > 0)
      BY <1>3, <2>3, <3>2, EndsTyped DEF SetDeadline
    <3> QED BY <3>1, <3>2
  <2> QED BY <1>3, <2>1, <2>4, OverlapsTyped DEF SetDeadline, TypeOK
<1>4. ASSUME ArmTimer(p)  PROVE TypeOK'
  <2>1. Busy(p)
    BY <1>4 DEF ArmTimer, Busy
  <2>2. job' \in [Proc -> Job] /\ chain' \in Seq(Pin)
    BY <1>4, <2>1, EndsTyped DEF ArmTimer
  <2>3. timer' \in When /\ strays' \subseteq Nat
    BY <1>1, <1>4 DEF ArmTimer, TypeOK
  <2> QED BY <1>4, <2>2, <2>3, OverlapsTyped DEF ArmTimer, TypeOK
<1> QED BY <1>2, <1>3, <1>4 DEF Reset

\* Everything else: the UNLOCK chain, timers, settings, eviction and time.
Otherwise ==
  \/ \E pin \in Pin : RequestUnlock(pin)
  \/ WrongPin \/ RightPin \/ TimerFires
  \/ \E m \in {0, Idle} : SaveSettings(m)
  \/ Evict \/ Tick

LEMMA OtherwiseTyped ==
  ASSUME TypeOK, Otherwise
  PROVE  TypeOK'
<1> USE DEF session, memory, history
<1>1. ASSUME NEW pin \in Pin, RequestUnlock(pin)  PROVE TypeOK'
  BY <1>1 DEF RequestUnlock, TypeOK
<1>2. ASSUME WrongPin  PROVE TypeOK'
  BY <1>2 DEF WrongPin, TypeOK
<1>3. ASSUME RightPin  PROVE TypeOK'
  <2>1. Unlocker \in Proc /\ At("clear") \in Job
    BY JobsTyped DEF Proc, Stage
  <2>2. job' \in [Proc -> Job]
    BY <1>3, <2>1, BecomesTyped DEF RightPin, TypeOK
  <2> QED BY <1>3, <2>1, <2>2, OverlapsTyped DEF RightPin, TypeOK
<1>4. ASSUME TimerFires  PROVE TypeOK'
  <2>1. raced' \in BOOLEAN
    BY <1>4, Zenon DEF TimerFires, TypeOK
  <2>2. timer' \in When /\ strays' \subseteq Nat
    BY <1>4 DEF TimerFires, TypeOK
  <2> QED BY <1>4, <2>1, <2>2, DropTyped DEF TimerFires, TypeOK
<1>5. ASSUME NEW m \in {0, Idle}, SaveSettings(m)  PROVE TypeOK'
  BY <1>5 DEF SaveSettings, TypeOK
<1>6. ASSUME Evict  PROVE TypeOK'
  <2>1. job' \in [Proc -> Job]
    BY <1>6, JobsTyped DEF Evict
  <2>2. chain' \in Seq(Pin)
    BY <1>6 DEF Evict
  <2> QED BY <1>6, <2>1, <2>2 DEF Evict, TypeOK
<1>7. ASSUME Tick  PROVE TypeOK'
  BY <1>7 DEF Tick, TypeOK
<1> QED BY <1>1, <1>2, <1>3, <1>4, <1>5, <1>6, <1>7 DEF Otherwise
-----------------------------------------------------------------------------
(* The chain and what work in progress still knows. *)

LEMMA NextChain ==
  ASSUME TypeOK, ChainShape, Next
  PROVE  ChainShape'
<1> USE DEF memory
<1> Unlocker \in Proc /\ \A h \in Msg : h # Unlocker /\ h \in Proc
  BY DEF Proc
<1>1. ASSUME NEW h \in Msg, Message(h)  PROVE ChainShape'
  <2>1. chain' = chain /\ job'[Unlocker] = job[Unlocker]
    BY <1>1 DEF Message, Receive, ReceiveCold, ReceiveLate, ReceiveDelete, Lock,
                ColdReturns, OpenItems, LockDone, HasKey, Becomes, TypeOK
  <2> QED BY <2>1 DEF ChainShape, Busy
<1>2. ASSUME NEW p \in Proc, Reset(p)  PROVE ChainShape'
  <2>1. CASE p = Unlocker
    <3>1. Busy(Unlocker)
      BY <1>2, <2>1 DEF Reset, ClearTimer, SetDeadline, ArmTimer, Busy
    <3>2. chain' = chain \/ job'[Unlocker] = NoJob
      BY <1>2, <2>1 DEF Reset, ClearTimer, SetDeadline, ArmTimer, Ends, Becomes, TypeOK
    <3> QED BY <3>1, <3>2 DEF ChainShape, Busy, NoJob
  <2>2. CASE p # Unlocker
    <3>1. chain' = chain /\ job'[Unlocker] = job[Unlocker]
      BY <1>2, <2>2 DEF Reset, ClearTimer, SetDeadline, ArmTimer, Ends, Becomes, TypeOK
    <3> QED BY <3>1 DEF ChainShape, Busy
  <2> QED BY <2>1, <2>2
<1>3. ASSUME NEW pin \in Pin, RequestUnlock(pin)  PROVE ChainShape'
  <2>1. chain' # <<>> 
    BY <1>3 DEF RequestUnlock, TypeOK
  <2> QED BY <2>1 DEF ChainShape
<1>4. CASE WrongPin
  BY <1>4 DEF WrongPin, ChainShape, Busy
<1>5. CASE RightPin
  BY <1>5 DEF RightPin, ChainShape
<1>6. CASE Evict
  BY <1>6 DEF Evict, ChainShape, Busy, NoJob
<1>7. CASE TimerFires \/ Tick \/ \E m \in {0, Idle} : SaveSettings(m)
  BY <1>7 DEF TimerFires, Tick, SaveSettings, ChainShape, Busy
<1> QED BY <1>1, <1>2, <1>3, <1>4, <1>5, <1>6, <1>7 DEF Next

LEMMA MessageKeeps ==
  ASSUME TypeOK, LockInv, NEW h \in Msg, Message(h)
  PROVE  LockInv'
<1> USE DEF LockInv, Becomes, session
<1>1. h \in Proc /\ job \in [Proc -> Job]
  BY DEF Proc, TypeOK
<1>2. /\ ~NoJob.sawKey /\ NoJob.pc = "idle"
      /\ \A pc \in Stage : ~At(pc).sawKey /\ At(pc).pc = pc
  BY DEF NoJob, At, Stage
<1>3. raced => raced'
  BY DEF Message, Receive, ReceiveCold, ReceiveLate, ReceiveDelete, Lock,
         ColdReturns, OpenItems, LockDone, Overlaps
\* Whoever waits for the vault while this step drops the key is overlapped.
<1>4. Overlaps(h) => \A p \in Proc \ {h} : job[p].pc # "idle" => raced'
  BY DEF Overlaps, Busy
<1>5. ASSUME NEW kind \in Kind, Receive(h, kind)  PROVE LockInv'
  BY <1>1, <1>2, <1>3, <1>5 DEF Receive, HasKey, Kind, Stage
<1>6. ASSUME NEW kind \in Kind, ReceiveCold(h, kind)  PROVE LockInv'
  BY <1>1, <1>2, <1>3, <1>6 DEF ReceiveCold, Kind, Stage, At, NoJob
<1>7. ASSUME ReceiveLate(h)  PROVE LockInv'
  BY <1>1, <1>2, <1>3, <1>4, <1>7 DEF ReceiveLate, Drop, Busy
<1>8. ASSUME ReceiveDelete(h)  PROVE LockInv'
  BY <1>1, <1>2, <1>3, <1>8 DEF ReceiveDelete, Stage
<1>9. ASSUME Lock(h)  PROVE LockInv'
  BY <1>1, <1>2, <1>3, <1>4, <1>9 DEF Lock, Drop, Busy, Stage
<1>10. ASSUME ColdReturns(h)  PROVE LockInv'
  <2>1. CASE ~job[h].sawKey
    BY <1>1, <1>2, <1>3, <1>10, <2>1 DEF ColdReturns
  <2>2. CASE job[h].sawKey /\ Passed(job[h].sawAt)
    <3>1. /\ Drop /\ Becomes(h, NoJob) /\ told' = told
          /\ \A p \in Proc \ {h} : job[p].pc # "idle" => raced'
      BY <1>4, <1>10, <2>2 DEF ColdReturns
    <3>2. /\ job'[h] = NoJob
          /\ \A p \in Proc \ {h} : job'[p] = job[p]
      BY <1>1, <3>1
    <3>3. \A p \in Proc : job'[p].pc = "open" => raced'
      BY <1>2, <3>1, <3>2
    <3>4. opened' => raced'
      BY <1>3, <3>1 DEF Drop
    <3>5. told => raced'
      BY <1>1, <1>3, <2>2
    <3>6. \A p \in Proc : job'[p].sawKey => job'[p].pc = "cold"
      BY <1>2, <3>2
    <3> QED BY <3>1, <3>3, <3>4, <3>5, <3>6
  <2>3. CASE job[h].sawKey /\ ~Passed(job[h].sawAt)
    BY <1>1, <1>2, <1>3, <1>10, <2>3 DEF ColdReturns, HasKey, Stage
  <2> QED BY <1>1, <2>1, <2>2, <2>3 DEF Job
<1>11. ASSUME OpenItems(h)  PROVE LockInv'
  BY <1>1, <1>2, <1>3, <1>11 DEF OpenItems
<1>12. ASSUME LockDone(h)  PROVE LockInv'
  BY <1>1, <1>2, <1>3, <1>12 DEF LockDone
<1> QED BY <1>5, <1>6, <1>7, <1>8, <1>9, <1>10, <1>11, <1>12 DEF Message

LEMMA ResetKeeps ==
  ASSUME TypeOK, LockInv, NEW p \in Proc, Reset(p)
  PROVE  LockInv'
<1> USE DEF LockInv, Becomes, session
<1>1. job \in [Proc -> Job] /\ job[p] \in Job
  BY DEF TypeOK
<1>2. /\ raced => raced'
      /\ job[p].pc \in {"clear", "deadline", "arm"}
      /\ key' = key /\ stored' = stored /\ opened' = opened /\ told' = told
  BY DEF Reset, ClearTimer, SetDeadline, ArmTimer, Overlaps
<1>3. ~job[p].sawKey
  BY <1>2
<1>4. /\ ~NoJob.sawKey /\ NoJob.pc = "idle"
      /\ \A pc \in Stage, ms \in Nat :
           LET j == [job[p] EXCEPT !.pc = pc, !.ms = ms]
           IN  j.pc = pc /\ ~j.sawKey
  BY <1>1, <1>3 DEF NoJob, Job
<1>5. minutes \in Nat
  BY DEF TypeOK
<1>6. ~job'[p].sawKey /\ job'[p].pc # "open"
  <2>1. CASE ClearTimer(p)
    BY <1>1, <1>4, <1>5, <2>1 DEF ClearTimer, Stage
  <2>2. CASE SetDeadline(p)
    <3>1. \/ job' = [job EXCEPT ![p] = [job[p] EXCEPT !.pc = "arm"]]
          \/ job' = [job EXCEPT ![p] = NoJob]
      BY <2>2 DEF SetDeadline, Ends
    <3>2. /\ [job[p] EXCEPT !.pc = "arm"].pc = "arm"
          /\ ~[job[p] EXCEPT !.pc = "arm"].sawKey
      BY <1>1, <1>3 DEF Job
    <3> QED BY <1>1, <1>4, <3>1, <3>2
  <2>3. CASE ArmTimer(p)
    BY <1>1, <1>4, <2>3 DEF ArmTimer, Ends
  <2> QED BY <2>1, <2>2, <2>3 DEF Reset
<1>7. \A q \in Proc \ {p} : job'[q] = job[q]
  BY <1>1 DEF Reset, ClearTimer, SetDeadline, ArmTimer, Ends
<1> QED BY <1>2, <1>6, <1>7

LEMMA OtherwiseKeeps ==
  ASSUME TypeOK, LockInv, Otherwise
  PROVE  LockInv'
<1> USE DEF LockInv, session, memory, history
<1>1. ~NoJob.sawKey /\ NoJob.pc = "idle"
  BY DEF NoJob
<1>2. CASE RightPin
  <2>1. Unlocker \in Proc /\ job \in [Proc -> Job]
    BY DEF Proc, TypeOK
  <2>2. ~At("clear").sawKey /\ At("clear").pc = "clear"
    BY DEF At, NoJob
  <2> QED BY <1>2, <2>1, <2>2 DEF RightPin, Becomes
<1>3. CASE TimerFires
  BY <1>3 DEF TimerFires, Drop, Busy
<1>4. CASE Evict
  BY <1>1, <1>4 DEF Evict
<1>5. CASE WrongPin \/ Tick
  BY <1>5 DEF WrongPin, Tick
<1>6. ASSUME NEW pin \in Pin, RequestUnlock(pin)  PROVE LockInv'
  BY <1>6 DEF RequestUnlock
<1>7. ASSUME NEW m \in {0, Idle}, SaveSettings(m)  PROVE LockInv'
  BY <1>7 DEF SaveSettings
<1> QED BY <1>2, <1>3, <1>4, <1>5, <1>6, <1>7 DEF Otherwise

-----------------------------------------------------------------------------
(* When the vault closes. *)

\* A deadline in force is set, and no later than the vault should close.
Near(at) == at # Never /\ limit # Never /\ at <= limit

\* Where nothing has overlapped, what is settled agrees in both places.
SerialInv == ~raced =>
  /\ Settled => (key => lockAt = limit) /\ (stored => storedAt = limit)
  /\ \A p \in Proc : job[p].sawKey => stored /\ job[p].sawAt = storedAt

\* Where the idle time has not changed, every deadline is set from the same one:
\* an older deadline is an earlier one, and a key without one is about to get it.
UniformInv == ~adjusted =>
  /\ \A p \in Proc : job[p].pc = "deadline" => job[p].ms = minutes
  /\ minutes = 0 => limit = Never
  /\ minutes # 0 =>
       /\ limit # Never => limit <= now + minutes
       /\ key => Near(lockAt) \/ ~Settled
       /\ stored => Near(storedAt) \/ (key /\ ~Settled)
       /\ \A p \in Proc : job[p].sawKey => Near(job[p].sawAt)

DeadlineInv == SerialInv /\ UniformInv

\* No deadline changes: the job of one process does, to one that knows no more.
LEMMA Untouched ==
  ASSUME TypeOK, LockInv, DeadlineInv, NEW p \in Proc, NEW new \in Job, Becomes(p, new),
         Overlaps(p), ~new.sawKey, new.pc # "deadline",
         job[p].pc \in {"clear", "deadline"} => new.pc \in {"clear", "deadline"},
         UNCHANGED <<key, lockAt, stored, storedAt, minutes, now, limit, adjusted>>
  PROVE  DeadlineInv'
<1>1. job' \in [Proc -> Job] /\ job'[p] = new /\ \A q \in Proc \ {p} : job'[q] = job[q]
  BY BecomesTyped DEF Becomes, TypeOK
<1>2. raced => raced'
  BY DEF Overlaps
<1>3. Settled' => Settled
  BY <1>1 DEF Settled
<1>4. SerialInv'
  BY <1>1, <1>2, <1>3 DEF DeadlineInv, SerialInv
<1>5. UniformInv'
  BY <1>1, <1>3 DEF DeadlineInv, UniformInv, Near
<1> QED BY <1>4, <1>5 DEF DeadlineInv

\* The key is dropped in both places; whoever saw it there is overlapped.
LEMMA Dropped ==
  ASSUME TypeOK, LockInv, DeadlineInv, Drop, job' \in [Proc -> Job],
         raced => raced',
         \A q \in Proc : job'[q].sawKey => job'[q] = job[q] /\ raced',
         \A q \in Proc : job'[q].pc = "deadline" => job'[q] = job[q],
         UNCHANGED <<minutes, now, limit, adjusted>>
  PROVE  DeadlineInv'
<1>1. ~key' /\ ~stored'
  BY DEF Drop
<1>2. SerialInv'
  BY <1>1 DEF SerialInv
<1>3. UniformInv'
  BY <1>1 DEF DeadlineInv, UniformInv, Near
<1> QED BY <1>2, <1>3 DEF DeadlineInv

LEMMA MessageDates ==
  ASSUME TypeOK, LockInv, DeadlineInv, NEW h \in Msg, Message(h)
  PROVE  DeadlineInv'
<1> USE DEF session
<1>1. h \in Proc /\ job \in [Proc -> Job] /\ job[h] \in Job
  BY DEF Proc, TypeOK
<1>2. /\ NoJob \in Job /\ ~NoJob.sawKey /\ NoJob.pc = "idle"
      /\ \A pc \in Stage : At(pc) \in Job /\ ~At(pc).sawKey /\ At(pc).pc = pc
  BY JobsTyped DEF NoJob, At
<1>3. raced => raced'
  BY DEF Message, Receive, ReceiveCold, ReceiveLate, ReceiveDelete, Lock,
         ColdReturns, OpenItems, LockDone, Overlaps
<1>4. \A q \in Proc : job[q].sawKey => Busy(q)
  BY DEF LockInv, Busy
<1>5. Overlaps(h) => \A q \in Proc \ {h} : job[q].sawKey => raced'
  BY <1>4 DEF Overlaps
<1>6. ASSUME NEW kind \in Kind, HasKey(h, kind)
      PROVE  \E new \in {At("clear"), At("open"), NoJob} : Becomes(h, new)
  BY <1>6 DEF HasKey, Kind
<1>7. ASSUME NEW kind \in Kind, Receive(h, kind)  PROVE DeadlineInv'
  <2>1. PICK new \in {At("clear"), At("open"), NoJob} : Becomes(h, new)
    BY <1>6, <1>7 DEF Receive
  <2>2. new \in Job /\ ~new.sawKey /\ new.pc # "deadline"
    BY <1>2, <2>1 DEF Stage
  <2>3. job[h].pc = "idle" /\ Overlaps(h)
    BY <1>7 DEF Receive, Busy
  <2> QED BY <1>1, <1>7, <2>1, <2>2, <2>3, Untouched DEF Receive
<1>8. ASSUME NEW kind \in Kind, ReceiveCold(h, kind)  PROVE DeadlineInv'
  <2>1. PICK new : /\ Becomes(h, new) /\ new = [At("cold") EXCEPT !.kind = kind, !.sawKey = stored,
                             !.sawAt = IF stored THEN storedAt ELSE Never]
    BY <1>8 DEF ReceiveCold
  <2>2. /\ new.pc = "cold" /\ new.sawKey = stored /\ new \in Job
        /\ stored => new.sawAt = storedAt
    BY <1>2, <2>1 DEF At, NoJob, Job, Stage, TypeOK
  <2>3. job'[h] = new /\ \A q \in Proc \ {h} : job'[q] = job[q]
    BY <1>1, <2>1 DEF Becomes
  <2>4. job[h].pc = "idle" /\ ~key
    BY <1>8 DEF ReceiveCold, Busy
  <2>5. Settled' <=> Settled
    BY <1>1, <2>2, <2>3, <2>4 DEF Settled
  <2>6. UNCHANGED <<key, lockAt, stored, storedAt, minutes, now, limit, adjusted>>
    BY <1>8 DEF ReceiveCold
  <2>7. SerialInv'
    BY <1>3, <2>2, <2>3, <2>5, <2>6 DEF DeadlineInv, SerialInv
  <2>8. UniformInv'
    BY <2>2, <2>3, <2>4, <2>5, <2>6 DEF DeadlineInv, UniformInv, Near
  <2> QED BY <2>7, <2>8 DEF DeadlineInv
<1>9. ASSUME ReceiveLate(h)  PROVE DeadlineInv'
  <2>1. job' = job /\ Drop /\ UNCHANGED <<minutes, now, limit, adjusted>> /\ ~Busy(h)
    BY <1>9 DEF ReceiveLate
  <2>2. \A q \in Proc : job[q].sawKey => raced'
    BY <1>4, <1>5, <1>9, <2>1 DEF ReceiveLate
  <2> QED BY <1>1, <1>3, <2>1, <2>2, Dropped
<1>10. ASSUME ReceiveDelete(h)  PROVE DeadlineInv'
  BY <1>1, <1>2, <1>10, Untouched DEF ReceiveDelete, Busy, Stage
<1>11. ASSUME Lock(h)  PROVE DeadlineInv'
  <2>1. job' \in [Proc -> Job] /\ job'[h] = At("unarm") /\ \A q \in Proc \ {h} : job'[q] = job[q]
    BY <1>1, <1>2, <1>11, BecomesTyped DEF Lock, Becomes, Stage
  <2>2. ~job'[h].sawKey /\ job'[h].pc = "unarm"
    BY <1>2, <2>1 DEF Stage
  <2>3. Drop /\ UNCHANGED <<minutes, now, limit, adjusted>> /\ Overlaps(h)
    BY <1>11 DEF Lock
  <2>4. \A q \in Proc : job'[q].sawKey => job'[q] = job[q] /\ raced'
    BY <1>5, <2>1, <2>2, <2>3
  <2>5. \A q \in Proc : job'[q].pc = "deadline" => job'[q] = job[q]
    BY <2>1, <2>2
  <2> QED BY <1>3, <2>1, <2>3, <2>4, <2>5, Dropped
<1>12. ASSUME ColdReturns(h)  PROVE DeadlineInv'
  <2>1. CASE ~job[h].sawKey
    <3>1. Becomes(h, NoJob) /\ Overlaps(h) /\ job[h].pc = "cold"
      BY <1>12, <2>1 DEF ColdReturns
    <3>2. UNCHANGED <<key, lockAt, stored, storedAt, minutes, now, limit, adjusted>>
      BY <1>12, <2>1 DEF ColdReturns
    <3> QED BY <1>1, <1>2, <3>1, <3>2, Untouched
  <2>2. CASE job[h].sawKey /\ Passed(job[h].sawAt)
    <3>1. Becomes(h, NoJob) /\ Overlaps(h) /\ Drop /\ UNCHANGED <<minutes, now, limit, adjusted>>
      BY <1>12, <2>2 DEF ColdReturns
    <3>2. job' \in [Proc -> Job] /\ job'[h] = NoJob /\ \A q \in Proc \ {h} : job'[q] = job[q]
      BY <1>1, <1>2, <3>1, BecomesTyped DEF Becomes
    <3>3. \A q \in Proc : job'[q].sawKey => job'[q] = job[q] /\ raced'
      BY <1>2, <1>5, <3>1, <3>2
    <3>4. \A q \in Proc : job'[q].pc = "deadline" => job'[q] = job[q]
      BY <1>2, <3>2
    <3> QED BY <1>3, <3>1, <3>2, <3>3, <3>4, Dropped
  <2>3. CASE job[h].sawKey /\ ~Passed(job[h].sawAt)
    <3>1. /\ key' /\ lockAt' = job[h].sawAt /\ Overlaps(h)
          /\ UNCHANGED <<stored, storedAt, minutes, now, limit, adjusted>>
          /\ HasKey(h, job[h].kind) /\ job[h].pc = "cold"
      BY <1>12, <2>3 DEF ColdReturns
    <3>2. PICK new \in {At("clear"), At("open"), NoJob} : Becomes(h, new)
      BY <1>1, <1>6, <3>1 DEF Job
    <3>3. new \in Job /\ ~new.sawKey /\ new.pc # "deadline"
      BY <1>2, <3>2 DEF Stage
    <3>4. job' \in [Proc -> Job] /\ job'[h] = new /\ \A q \in Proc \ {h} : job'[q] = job[q]
      BY <1>1, <3>2, <3>3, BecomesTyped DEF Becomes
    <3>5. Settled' => Settled
      BY <1>1, <3>1, <3>4 DEF Settled
    <3>6. SerialInv'
      BY <1>1, <1>3, <2>3, <3>1, <3>3, <3>4, <3>5 DEF DeadlineInv, SerialInv
    <3>7. UniformInv'
      BY <1>1, <2>3, <3>1, <3>3, <3>4, <3>5 DEF DeadlineInv, UniformInv, Near
    <3> QED BY <3>6, <3>7 DEF DeadlineInv
  <2> QED BY <2>1, <2>2, <2>3 DEF Job
<1>13. ASSUME OpenItems(h)  PROVE DeadlineInv'
  BY <1>1, <1>2, <1>13, Untouched DEF OpenItems
<1>14. ASSUME LockDone(h)  PROVE DeadlineInv'
  BY <1>1, <1>2, <1>14, Untouched DEF LockDone
<1> QED BY <1>7, <1>8, <1>9, <1>10, <1>11, <1>12, <1>13, <1>14 DEF Message

LEMMA ResetDates ==
  ASSUME TypeOK, LockInv, DeadlineInv, NEW p \in Proc, Reset(p)
  PROVE  DeadlineInv'
<1> USE DEF session
<1>1. job \in [Proc -> Job] /\ job[p] \in Job /\ job[p].ms \in Nat /\ minutes \in Nat /\ now \in Nat
  BY DEF Job, TypeOK
<1>2. raced => raced'
  BY DEF Reset, ClearTimer, SetDeadline, ArmTimer, Overlaps
<1>3. \A q \in Proc : job[q].sawKey => Busy(q)
  BY DEF LockInv, Busy
<1>4. NoJob \in Job /\ ~NoJob.sawKey /\ NoJob.pc = "idle"
  BY JobsTyped DEF NoJob
<1>5. ASSUME ClearTimer(p)  PROVE DeadlineInv'
  <2>1. PICK new : Becomes(p, new) /\ new = [job[p] EXCEPT !.pc = "deadline", !.ms = minutes]
    BY <1>5 DEF ClearTimer
  <2>2. new.pc = "deadline" /\ new.ms = minutes /\ new.sawKey = job[p].sawKey
    BY <1>1, <2>1 DEF Job
  <2>3. ~job[p].sawKey /\ job[p].pc = "clear"
    BY <1>5 DEF ClearTimer, LockInv
  <2>4. job'[p] = new /\ \A q \in Proc \ {p} : job'[q] = job[q]
    BY <1>1, <2>1 DEF Becomes
  <2>5. ~Settled /\ ~Settled'
    BY <2>2, <2>3, <2>4 DEF Settled
  <2>6. UNCHANGED <<key, lockAt, stored, storedAt, minutes, now, limit, adjusted>>
    BY <1>5 DEF ClearTimer
  <2>7. SerialInv'
    BY <1>2, <2>2, <2>3, <2>4, <2>5, <2>6 DEF DeadlineInv, SerialInv
  <2>8. UniformInv'
    BY <2>2, <2>3, <2>4, <2>5, <2>6 DEF DeadlineInv, UniformInv, Near
  <2> QED BY <2>7, <2>8 DEF DeadlineInv
<1>6. ASSUME SetDeadline(p)  PROVE DeadlineInv'
  <2>1. PICK new : Becomes(p, new) /\ new \in {[job[p] EXCEPT !.pc = "arm"], NoJob}
    BY <1>6 DEF SetDeadline, Ends
  <2>2. ~job[p].sawKey /\ job[p].pc = "deadline" /\ Overlaps(p)
    BY <1>6 DEF SetDeadline, LockInv
  <2>3. ~new.sawKey /\ new.pc # "deadline"
    BY <1>1, <1>4, <2>1, <2>2 DEF Job
  <2>4. job'[p] = new /\ \A q \in Proc \ {p} : job'[q] = job[q]
    BY <1>1, <2>1 DEF Becomes
  <2>5. /\ lockAt' = LimitFrom(job[p].ms) /\ storedAt' = LimitFrom(job[p].ms)
        /\ limit' = LimitFrom(job[p].ms)
        /\ UNCHANGED <<key, stored, minutes, now, adjusted>>
    BY <1>6 DEF SetDeadline
  <2>6. \A q \in Proc : job'[q].sawKey => raced' /\ job'[q] = job[q]
    BY <1>3, <2>2, <2>3, <2>4 DEF Overlaps
  <2>7. SerialInv'
    BY <1>2, <2>5, <2>6 DEF SerialInv
  <2>8. UniformInv'
    <3>1. SUFFICES ASSUME ~adjusted PROVE UniformInv'
      BY <2>5 DEF UniformInv
    <3>2. job[p].ms = minutes
      BY <2>2, <3>1 DEF DeadlineInv, UniformInv
    <3>3. \A q \in Proc : job'[q].pc = "deadline" => job'[q].ms = minutes
      BY <2>3, <2>4, <3>1 DEF DeadlineInv, UniformInv
    <3>4. CASE minutes = 0
      BY <2>5, <3>2, <3>3, <3>4 DEF UniformInv, LimitFrom
    <3>5. CASE minutes # 0
      <4>1. limit' = now + minutes /\ lockAt' = limit' /\ storedAt' = limit'
        BY <1>1, <2>5, <3>2, <3>5 DEF LimitFrom
      <4>2. \A q \in Proc : job'[q].sawKey => Near(job[q].sawAt) /\ job'[q] = job[q]
        BY <2>6, <3>1, <3>5 DEF DeadlineInv, UniformInv
      <4>3. limit # Never => limit <= now + minutes
        BY <3>1, <3>5 DEF DeadlineInv, UniformInv
      <4>4. limit \in When /\ \A q \in Proc : job[q].sawAt \in When
        BY DEF TypeOK, Job
      <4>5. \A q \in Proc : job'[q].sawKey =>
              job'[q].sawAt # Never /\ limit' # Never /\ job'[q].sawAt <= limit'
        BY <1>1, <4>1, <4>2, <4>3, <4>4 DEF Near
      <4> QED BY <1>1, <2>5, <3>3, <3>5, <4>1, <4>5 DEF UniformInv, Near
    <3> QED BY <3>4, <3>5
  <2> QED BY <2>7, <2>8 DEF DeadlineInv
<1>7. ASSUME ArmTimer(p)  PROVE DeadlineInv'
  <2>1. Becomes(p, NoJob) /\ job[p].pc = "arm" /\ Overlaps(p)
    BY <1>7 DEF ArmTimer, Ends
  <2> QED BY <1>4, <1>7, <2>1, Untouched DEF ArmTimer
<1> QED BY <1>5, <1>6, <1>7 DEF Reset

LEMMA OtherwiseDates ==
  ASSUME ~Crashes, TypeOK, LockInv, DeadlineInv, Otherwise
  PROVE  DeadlineInv'
<1> USE DEF session, memory, history
<1>1. \A q \in Proc : job[q].sawKey => Busy(q)
  BY DEF LockInv, Busy
<1>2. CASE RightPin
  <2>1. Unlocker \in Proc /\ job \in [Proc -> Job]
    BY DEF Proc, TypeOK
  <2>2. ~At("clear").sawKey /\ At("clear").pc = "clear"
    BY DEF At, NoJob
  <2>3. job'[Unlocker] = At("clear") /\ \A q \in Proc \ {Unlocker} : job'[q] = job[q]
    BY <1>2, <2>1 DEF RightPin, Becomes
  <2>4. ~Settled' /\ Settled \in BOOLEAN
    BY <2>1, <2>2, <2>3 DEF Settled
  <2>5. /\ key' /\ stored' /\ (raced => raced')
        /\ UNCHANGED <<lockAt, storedAt, minutes, now, limit, adjusted>>
    BY <1>2 DEF RightPin, Overlaps
  <2>6. SerialInv'
    BY <2>2, <2>3, <2>4, <2>5 DEF DeadlineInv, SerialInv
  <2>7. UniformInv'
    BY <2>2, <2>3, <2>4, <2>5 DEF DeadlineInv, UniformInv, Near
  <2> QED BY <2>6, <2>7 DEF DeadlineInv
<1>3. CASE TimerFires
  <2>1. /\ Drop /\ job' = job /\ UNCHANGED <<minutes, now, limit, adjusted>>
        /\ raced' = (raced \/ \E q \in Proc : Busy(q))
    BY <1>3 DEF TimerFires
  <2>2. job' \in [Proc -> Job]
    BY <2>1 DEF TypeOK
  <2> QED BY <1>1, <2>1, <2>2, Dropped
<1>4. CASE Evict
  <2>1. Settled
    BY <1>4 DEF Evict, Busy, Settled
  <2>2. ~NoJob.sawKey /\ NoJob.pc = "idle"
    BY DEF NoJob
  <2>3. /\ ~key' /\ \A q \in Proc : job'[q] = NoJob
        /\ UNCHANGED <<stored, storedAt, minutes, now, limit, adjusted, raced>>
    BY <1>4 DEF Evict
  <2>4. SerialInv'
    BY <2>1, <2>2, <2>3 DEF DeadlineInv, SerialInv
  <2>5. UniformInv'
    BY <2>1, <2>2, <2>3 DEF DeadlineInv, UniformInv, Near
  <2> QED BY <2>4, <2>5 DEF DeadlineInv
<1>5. CASE WrongPin \/ \E pin \in Pin : RequestUnlock(pin)
  BY <1>5 DEF WrongPin, RequestUnlock, DeadlineInv, SerialInv, UniformInv, Near, Settled
<1>6. CASE \E m \in {0, Idle} : SaveSettings(m)
  BY <1>6 DEF SaveSettings, DeadlineInv, SerialInv, UniformInv, Near, Settled
<1>7. CASE Tick
  <2>1. /\ UNCHANGED <<key, lockAt, stored, storedAt, job, minutes, limit, adjusted, raced>>
        /\ now' = now + 1 /\ now \in Nat /\ minutes \in Nat /\ limit \in When
    BY <1>7 DEF Tick, TypeOK
  <2>2. SerialInv'
    BY <2>1 DEF DeadlineInv, SerialInv, Settled
  <2>3. UniformInv'
    BY <2>1 DEF DeadlineInv, UniformInv, Near, Settled
  <2> QED BY <2>2, <2>3 DEF DeadlineInv
<1> QED BY <1>2, <1>3, <1>4, <1>5, <1>6, <1>7 DEF Otherwise

LEMMA DeadlineInit ==
  ASSUME Init
  PROVE  DeadlineInv
<1>1. ~NoJob.sawKey /\ NoJob.pc = "idle"
  BY DEF NoJob
<1> QED BY <1>1 DEF Init, DeadlineInv, SerialInv, UniformInv

LEMMA DeadlineKept ==
  ASSUME ~Crashes, TypeOK, LockInv, DeadlineInv, [Next]_vars
  PROVE  DeadlineInv'
<1>1. CASE UNCHANGED vars
  BY <1>1 DEF vars, memory, session, history, DeadlineInv, SerialInv, UniformInv, Near, Settled
<1> QED BY <1>1, MessageDates, ResetDates, OtherwiseDates DEF Next, Otherwise

LEMMA DatedIsClosed ==
  ASSUME TypeOK, DeadlineInv
  PROVE  IdleVaultIsClosed
<1>1. SUFFICES ASSUME Settled, Passed(limit), ~(raced /\ adjusted) PROVE ~Readable
  BY DEF IdleVaultIsClosed
<1>2. /\ now \in Nat /\ lockAt \in When /\ storedAt \in When /\ limit \in When
      /\ limit # Never /\ now >= limit
  BY <1>1 DEF TypeOK, Passed
<1>3. CASE ~raced
  <2>1. (key => lockAt = limit) /\ (stored => storedAt = limit)
    BY <1>1, <1>3 DEF DeadlineInv, SerialInv
  <2> QED BY <1>1, <2>1 DEF Readable
<1>4. CASE ~adjusted
  <2>1. (key => Near(lockAt)) /\ (stored => Near(storedAt))
    BY <1>1, <1>2, <1>4 DEF DeadlineInv, UniformInv
  <2>2. (key => Passed(lockAt)) /\ (stored => Passed(storedAt))
    BY <1>2, <2>1 DEF Near, Passed
  <2> QED BY <2>2 DEF Readable
<1> QED BY <1>1, <1>3, <1>4

-----------------------------------------------------------------------------
(* Why it does not close before. *)

\* Where nothing has overlapped: a deadline in either place is the one due, the
\* key is in both, and the timer, if there is one, is due no earlier.
ClosingInv == ~raced =>
  /\ lockAt \in {Never, limit} /\ storedAt \in {Never, limit} /\ (key => stored)
  /\ strays = {} /\ (timer # Never => limit # Never /\ limit <= timer)
  /\ \A p \in Proc :
       /\ job[p].sawKey => job[p].sawAt = storedAt /\ stored
       /\ job[p].pc \in {"deadline", "arm"} => timer = Never
       /\ job[p].pc = "arm" => limit # Never /\ limit <= now + job[p].ms

ClosesWell == Closes => InTime \/ raced'

LEMMA AloneStep ==
  ASSUME LockInv, NEW p \in Proc, Overlaps(p), ~raced'
  PROVE  ~raced /\ \A q \in Proc \ {p} : job[q].pc = "idle" /\ ~job[q].sawKey
<1>1. ~raced /\ \A q \in Proc \ {p} : job[q].pc = "idle"
  BY DEF Overlaps, Busy
<1> QED BY <1>1 DEF LockInv

\* A step that leaves key, deadlines and timers alone.
LEMMA NothingCloses ==
  ASSUME TypeOK, LockInv, ClosingInv, NEW p \in Proc, NEW new \in Job, Becomes(p, new),
         Overlaps(p), ~raced', ~new.sawKey, new.pc \notin {"deadline", "arm"},
         UNCHANGED <<key, lockAt, stored, storedAt, timer, strays, now, limit>>
  PROVE  ClosingInv' /\ ClosesWell
<1>1. job' \in [Proc -> Job] /\ job'[p] = new /\ \A q \in Proc \ {p} : job'[q] = job[q]
  BY BecomesTyped DEF Becomes, TypeOK
<1>2. ~raced /\ \A q \in Proc \ {p} : job[q].pc = "idle" /\ ~job[q].sawKey
  BY AloneStep
<1>3. ClosingInv'
  BY <1>1, <1>2 DEF ClosingInv
<1>4. Readable' = Readable
  BY DEF Readable, Passed
<1> QED BY <1>3, <1>4 DEF ClosesWell, Closes

LEMMA MessageCloses ==
  ASSUME TypeOK, LockInv, ClosingInv, NEW h \in Msg, Message(h), ~raced'
  PROVE  ClosingInv' /\ ClosesWell
<1> USE DEF session
<1>1. h \in Proc /\ job \in [Proc -> Job] /\ job[h] \in Job
  BY DEF Proc, TypeOK
<1>2. /\ NoJob \in Job /\ ~NoJob.sawKey /\ NoJob.pc = "idle"
      /\ \A pc \in Stage : At(pc) \in Job /\ ~At(pc).sawKey /\ At(pc).pc = pc
  BY JobsTyped DEF NoJob, At
<1>3. Overlaps(h)
  BY DEF Message, Receive, ReceiveCold, ReceiveLate, ReceiveDelete, Lock,
         ColdReturns, OpenItems, LockDone
<1>4. ~raced /\ \A q \in Proc \ {h} : job[q].pc = "idle" /\ ~job[q].sawKey
  BY <1>1, <1>3, AloneStep
<1>5. now \in Nat /\ lockAt \in When /\ storedAt \in When /\ limit \in When /\ timer \in When
  BY DEF TypeOK
<1>6. ASSUME NEW kind \in Kind, HasKey(h, kind)
      PROVE  \E new \in {At("clear"), At("open"), NoJob} : Becomes(h, new)
  BY <1>6 DEF HasKey, Kind
\* What follows when the step drops the key.
<1>7. ASSUME Drop, UNCHANGED <<timer, strays, now, limit>>,
             \A q \in Proc : ~job'[q].sawKey /\ job'[q].pc \notin {"deadline", "arm"}
      PROVE  ClosingInv'
  BY <1>4, <1>7 DEF Drop, ClosingInv
<1>8. ASSUME NEW kind \in Kind, Receive(h, kind)  PROVE ClosingInv' /\ ClosesWell
  <2>1. PICK new \in {At("clear"), At("open"), NoJob} : Becomes(h, new)
    BY <1>6, <1>8 DEF Receive
  <2>2. new \in Job /\ ~new.sawKey /\ new.pc \notin {"deadline", "arm"}
    BY <1>2, <2>1 DEF Stage
  <2> QED BY <1>1, <1>3, <1>8, <2>1, <2>2, NothingCloses DEF Receive
<1>9. ASSUME NEW kind \in Kind, ReceiveCold(h, kind)  PROVE ClosingInv' /\ ClosesWell
  <2>1. PICK new : /\ Becomes(h, new) /\ new = [At("cold") EXCEPT !.kind = kind, !.sawKey = stored,
                             !.sawAt = IF stored THEN storedAt ELSE Never]
    BY <1>9 DEF ReceiveCold
  <2>2. /\ new.pc = "cold" /\ new.sawKey = stored /\ new \in Job
        /\ stored => new.sawAt = storedAt
    BY <1>2, <2>1 DEF At, NoJob, Job, Stage, TypeOK
  <2>3. job'[h] = new /\ \A q \in Proc \ {h} : job'[q] = job[q]
    BY <1>1, <2>1 DEF Becomes
  <2>4. UNCHANGED <<key, lockAt, stored, storedAt, timer, strays, now, limit>>
    BY <1>9 DEF ReceiveCold
  <2>5. ClosingInv'
    BY <1>4, <2>2, <2>3, <2>4 DEF ClosingInv
  <2>6. Readable' = Readable
    BY <2>4 DEF Readable, Passed
  <2> QED BY <2>5, <2>6 DEF ClosesWell, Closes
<1>10. ASSUME ReceiveLate(h)  PROVE ClosingInv' /\ ClosesWell
  <2>1. Drop /\ job' = job /\ UNCHANGED <<timer, strays, now, limit>> /\ job[h].pc = "idle"
    BY <1>10 DEF ReceiveLate, Busy
  <2>2. \A q \in Proc : ~job'[q].sawKey /\ job'[q].pc \notin {"deadline", "arm"}
    BY <1>4, <2>1 DEF LockInv
  <2>3. ~Readable
    BY <1>10 DEF ReceiveLate, Readable
  <2> QED BY <1>7, <2>1, <2>2, <2>3 DEF ClosesWell, Closes
<1>11. ASSUME ReceiveDelete(h)  PROVE ClosingInv' /\ ClosesWell
  BY <1>1, <1>2, <1>11, NothingCloses DEF ReceiveDelete, Stage
<1>12. ASSUME Lock(h)  PROVE ClosingInv' /\ ClosesWell
  <2>1. Drop /\ told' /\ UNCHANGED <<timer, strays, now, limit>> /\ Becomes(h, At("unarm"))
    BY <1>12 DEF Lock
  <2>2. job'[h] = At("unarm") /\ \A q \in Proc \ {h} : job'[q] = job[q]
    BY <1>1, <2>1 DEF Becomes
  <2>3. \A q \in Proc : ~job'[q].sawKey /\ job'[q].pc \notin {"deadline", "arm"}
    BY <1>2, <1>4, <2>2 DEF Stage
  <2> QED BY <1>7, <2>1, <2>3 DEF ClosesWell, InTime
<1>13. ASSUME ColdReturns(h)  PROVE ClosingInv' /\ ClosesWell
  <2>1. CASE ~job[h].sawKey
    <3>1. Becomes(h, NoJob)
      BY <1>13, <2>1 DEF ColdReturns
    <3>2. UNCHANGED <<key, lockAt, stored, storedAt, timer, strays, now, limit>>
      BY <1>13, <2>1 DEF ColdReturns
    <3> QED BY <1>1, <1>2, <1>3, <3>1, <3>2, NothingCloses
  <2>2. CASE job[h].sawKey /\ Passed(job[h].sawAt)
    <3>1. Becomes(h, NoJob) /\ Drop /\ UNCHANGED <<timer, strays, now, limit>>
      BY <1>13, <2>2 DEF ColdReturns
    <3>2. job'[h] = NoJob /\ \A q \in Proc \ {h} : job'[q] = job[q]
      BY <1>1, <3>1 DEF Becomes
    <3>3. \A q \in Proc : ~job'[q].sawKey /\ job'[q].pc \notin {"deadline", "arm"}
      BY <1>2, <1>4, <3>2
    <3>4. job[h].sawAt = limit
      BY <1>1, <1>4, <2>2 DEF ClosingInv, Passed
    <3>5. InTime
      BY <2>2, <3>1, <3>4 DEF Passed, InTime
    <3> QED BY <1>7, <3>1, <3>3, <3>5 DEF ClosesWell
  <2>3. CASE job[h].sawKey /\ ~Passed(job[h].sawAt)
    <3>1. /\ key' = TRUE /\ lockAt' = job[h].sawAt /\ HasKey(h, job[h].kind)
          /\ UNCHANGED <<stored, storedAt, timer, strays, now, limit>>
      BY <1>13, <2>3 DEF ColdReturns
    <3>2. PICK new \in {At("clear"), At("open"), NoJob} : Becomes(h, new)
      BY <1>1, <1>6, <3>1 DEF Job
    <3>3. ~new.sawKey /\ new.pc \notin {"deadline", "arm"}
      BY <1>2, <3>2 DEF Stage
    <3>4. job'[h] = new /\ \A q \in Proc \ {h} : job'[q] = job[q]
      BY <1>1, <3>2 DEF Becomes
    <3>5. ClosingInv'
      BY <1>1, <1>4, <2>3, <3>1, <3>3, <3>4 DEF ClosingInv
    <3>6. Readable'
      BY <2>3, <3>1 DEF Readable, Passed
    <3> QED BY <3>5, <3>6 DEF ClosesWell, Closes
  <2> QED BY <2>1, <2>2, <2>3 DEF Job
<1>14. ASSUME OpenItems(h)  PROVE ClosingInv' /\ ClosesWell
  BY <1>1, <1>2, <1>14, NothingCloses DEF OpenItems
<1>15. ASSUME LockDone(h)  PROVE ClosingInv' /\ ClosesWell
  <2>1. /\ Becomes(h, NoJob) /\ timer' = Never
        /\ UNCHANGED <<key, lockAt, stored, storedAt, strays, now, limit>>
    BY <1>15 DEF LockDone
  <2>2. job'[h] = NoJob /\ \A q \in Proc \ {h} : job'[q] = job[q]
    BY <1>1, <2>1 DEF Becomes
  <2>3. ClosingInv'
    BY <1>2, <1>4, <2>1, <2>2 DEF ClosingInv
  <2>4. Readable' = Readable
    BY <2>1 DEF Readable, Passed
  <2> QED BY <2>3, <2>4 DEF ClosesWell, Closes
<1> QED BY <1>8, <1>9, <1>10, <1>11, <1>12, <1>13, <1>14, <1>15 DEF Message

LEMMA ResetCloses ==
  ASSUME TypeOK, LockInv, ClosingInv, NEW p \in Proc, Reset(p), ~raced'
  PROVE  ClosingInv' /\ ClosesWell
<1> USE DEF session
<1>1. job \in [Proc -> Job] /\ job[p] \in Job /\ job[p].ms \in Nat /\ minutes \in Nat /\ now \in Nat
  BY DEF Job, TypeOK
<1>2. NoJob.pc = "idle" /\ ~NoJob.sawKey
  BY DEF NoJob
<1>3. Overlaps(p)
  BY DEF Reset, ClearTimer, SetDeadline, ArmTimer
<1>4. ~raced /\ \A q \in Proc \ {p} : job[q].pc = "idle" /\ ~job[q].sawKey
  BY <1>3, AloneStep
<1>5. ~job[p].sawKey
  BY DEF Reset, ClearTimer, SetDeadline, ArmTimer, LockInv
<1>6. ASSUME ClearTimer(p)  PROVE ClosingInv' /\ ClosesWell
  <2>1. PICK new : Becomes(p, new) /\ new = [job[p] EXCEPT !.pc = "deadline", !.ms = minutes]
    BY <1>6 DEF ClearTimer
  <2>2. new.pc = "deadline" /\ ~new.sawKey
    BY <1>1, <1>5, <2>1 DEF Job
  <2>3. job'[p] = new /\ \A q \in Proc \ {p} : job'[q] = job[q]
    BY <1>1, <2>1 DEF Becomes
  <2>4. timer' = Never /\ UNCHANGED <<key, lockAt, stored, storedAt, strays, now, limit>>
    BY <1>6 DEF ClearTimer
  <2>5. ClosingInv'
    BY <1>4, <2>2, <2>3, <2>4 DEF ClosingInv
  <2>6. Readable' = Readable
    BY <2>4 DEF Readable, Passed
  <2> QED BY <2>5, <2>6 DEF ClosesWell, Closes
<1>7. ASSUME SetDeadline(p)  PROVE ClosingInv' /\ ClosesWell
  <2>1. PICK new : /\ Becomes(p, new)
                   /\ new = IF job[p].ms > 0 THEN [job[p] EXCEPT !.pc = "arm"] ELSE NoJob
    BY <1>7 DEF SetDeadline, Ends
  <2>2. job'[p] = new /\ \A q \in Proc \ {p} : job'[q] = job[q]
    BY <1>1, <2>1 DEF Becomes
  <2>3. /\ lockAt' = LimitFrom(job[p].ms) /\ storedAt' = LimitFrom(job[p].ms)
        /\ limit' = LimitFrom(job[p].ms) /\ job[p].pc = "deadline"
        /\ UNCHANGED <<key, stored, timer, strays, now>>
    BY <1>7 DEF SetDeadline
  <2>4. ~new.sawKey /\ new.pc # "deadline" /\ (new.pc = "arm" => job[p].ms > 0 /\ new.ms = job[p].ms)
    BY <1>1, <1>2, <1>5, <2>1 DEF Job
  <2>5. timer = Never
    BY <1>4, <2>3 DEF ClosingInv
  <2>6. job[p].ms > 0 => limit' = now + job[p].ms
    BY <2>3 DEF LimitFrom
  <2>7. ClosingInv'
    <3>1. \A q \in Proc : /\ ~job'[q].sawKey
                          /\ job'[q].pc = "arm" => q = p
      BY <1>4, <2>2, <2>4
    <3>2. job'[p].pc = "arm" => limit' # Never /\ limit' <= now' + job'[p].ms
      BY <1>1, <2>2, <2>3, <2>4, <2>6
    <3>3. key' => stored'
      BY <1>4, <2>3 DEF ClosingInv
    <3>4. strays' = {} /\ timer' = Never
      BY <1>4, <2>3, <2>5 DEF ClosingInv
    <3> QED BY <2>3, <3>1, <3>2, <3>3, <3>4 DEF ClosingInv
  <2>8. ~Passed(lockAt)' /\ ~Passed(storedAt)'
    BY <1>1, <2>3, <2>6 DEF Passed, LimitFrom
  <2>9. Closes => FALSE
    BY <1>4, <2>3, <2>8 DEF Closes, Readable, ClosingInv
  <2> QED BY <2>7, <2>9 DEF ClosesWell
<1>8. ASSUME ArmTimer(p)  PROVE ClosingInv' /\ ClosesWell
  <2>1. Becomes(p, NoJob) /\ job[p].pc = "arm"
    BY <1>8 DEF ArmTimer, Ends
  <2>2. job'[p] = NoJob /\ \A q \in Proc \ {p} : job'[q] = job[q]
    BY <1>1, <2>1 DEF Becomes
  <2>3. /\ timer' = now + job[p].ms /\ strays' = strays \cup ({timer} \ {Never})
        /\ UNCHANGED <<key, lockAt, stored, storedAt, now, limit>>
    BY <1>8 DEF ArmTimer
  <2>4. timer = Never /\ limit # Never /\ limit <= now + job[p].ms
    BY <1>4, <2>1 DEF ClosingInv
  <2>5. ClosingInv'
    BY <1>2, <1>4, <2>2, <2>3, <2>4 DEF ClosingInv
  <2>6. Readable' = Readable
    BY <2>3 DEF Readable, Passed
  <2> QED BY <2>5, <2>6 DEF ClosesWell, Closes
<1> QED BY <1>6, <1>7, <1>8 DEF Reset

LEMMA OtherwiseCloses ==
  ASSUME TypeOK, LockInv, ClosingInv, Otherwise, ~raced'
  PROVE  ClosingInv' /\ ClosesWell
<1> USE DEF session, memory, history
<1>1. now \in Nat /\ lockAt \in When /\ storedAt \in When /\ limit \in When /\ timer \in When
  BY DEF TypeOK
<1>2. CASE RightPin
  <2>1. Unlocker \in Proc /\ job \in [Proc -> Job]
    BY DEF Proc, TypeOK
  <2>2. ~At("clear").sawKey /\ At("clear").pc = "clear"
    BY DEF At, NoJob
  <2>3. job'[Unlocker] = At("clear") /\ \A q \in Proc \ {Unlocker} : job'[q] = job[q]
    BY <1>2, <2>1 DEF RightPin, Becomes
  <2>4. /\ key' /\ stored' /\ UNCHANGED <<lockAt, storedAt, timer, strays, now, limit>>
    BY <1>2 DEF RightPin
  <2>5. ~raced /\ \A q \in Proc \ {Unlocker} : job[q].pc = "idle" /\ ~job[q].sawKey
    BY <1>2, <2>1, AloneStep DEF RightPin
  <2>6. ClosingInv'
    BY <2>2, <2>3, <2>4, <2>5 DEF ClosingInv
  <2>7. Passed(lockAt) => InTime
    BY <2>4, <2>5 DEF ClosingInv, Passed, InTime
  <2>8. ~Readable' => Passed(lockAt)
    BY <2>4 DEF Readable, Passed
  <2> QED BY <2>6, <2>7, <2>8 DEF ClosesWell, Closes
<1>3. CASE TimerFires
  <2>1. ~raced /\ \A q \in Proc : job[q].pc = "idle" /\ ~job[q].sawKey
    <3>1. ~raced /\ \A q \in Proc : job[q].pc = "idle"
      BY <1>3 DEF TimerFires, Busy
    <3> QED BY <3>1 DEF LockInv
  <2>2. Drop /\ job' = job /\ now' = now /\ limit' = limit
    BY <1>3 DEF TimerFires
  <2>3. Passed(timer) /\ timer' = Never /\ strays' = strays
    BY <1>3, <2>1 DEF TimerFires, ClosingInv
  <2>4. ClosingInv'
    BY <2>1, <2>2, <2>3 DEF Drop, ClosingInv
  <2>5. InTime
    BY <1>1, <2>1, <2>2, <2>3 DEF ClosingInv, Passed, InTime
  <2> QED BY <2>4, <2>5 DEF ClosesWell
<1>4. CASE Evict
  <2>1. ~NoJob.sawKey /\ NoJob.pc = "idle"
    BY DEF NoJob
  <2>2. /\ ~key' /\ lockAt' = Never /\ timer' = Never /\ strays' = {}
        /\ \A q \in Proc : job'[q] = NoJob
        /\ UNCHANGED <<stored, storedAt, now, limit, raced>>
    BY <1>4 DEF Evict
  <2>3. ClosingInv'
    BY <2>1, <2>2 DEF ClosingInv
  <2>4. ASSUME Closes PROVE InTime
    <3>1. ~raced
      BY <2>2
    <3>2. stored /\ Passed(storedAt)
      BY <2>2, <2>4, <3>1 DEF Closes, Readable, ClosingInv, Passed
    <3> QED BY <2>2, <3>1, <3>2 DEF ClosingInv, Passed, InTime
  <2> QED BY <2>3, <2>4 DEF ClosesWell
<1>5. CASE WrongPin \/ (\E pin \in Pin : RequestUnlock(pin)) \/ (\E m \in {0, Idle} : SaveSettings(m))
  <2>1. UNCHANGED <<key, lockAt, stored, storedAt, timer, strays, job, now, limit, raced>>
    BY <1>5 DEF WrongPin, RequestUnlock, SaveSettings
  <2>2. ClosingInv'
    BY <2>1 DEF ClosingInv
  <2>3. Readable' = Readable
    BY <2>1 DEF Readable, Passed
  <2> QED BY <2>2, <2>3 DEF ClosesWell, Closes
<1>6. CASE Tick
  <2>1. UNCHANGED <<key, lockAt, stored, storedAt, timer, strays, job, limit, raced>> /\ now' = now + 1
    BY <1>6 DEF Tick
  <2>2. \A q \in Proc : job[q].ms \in Nat
    BY DEF TypeOK, Job
  <2>3. ClosingInv'
    BY <1>1, <2>1, <2>2 DEF ClosingInv
  <2>4. ASSUME Closes PROVE InTime
    <3>1. Passed(lockAt)' \/ Passed(storedAt)'
      BY <2>1, <2>4 DEF Closes, Readable
    <3> QED BY <2>1, <3>1 DEF ClosingInv, Passed, InTime
  <2> QED BY <2>3, <2>4 DEF ClosesWell
<1> QED BY <1>2, <1>3, <1>4, <1>5, <1>6 DEF Otherwise

LEMMA ClosingInit ==
  ASSUME Init
  PROVE  ClosingInv
<1>1. ~NoJob.sawKey /\ NoJob.pc = "idle"
  BY DEF NoJob
<1> QED BY <1>1 DEF Init, ClosingInv

LEMMA ClosingKept ==
  ASSUME TypeOK, LockInv, ClosingInv, [Next]_vars
  PROVE  ClosingInv' /\ ClosesWell
<1>1. CASE UNCHANGED vars
  <2>1. Readable' = Readable
    BY <1>1 DEF vars, memory, session, history, Readable, Passed
  <2>2. ClosingInv'
    BY <1>1 DEF vars, memory, session, history, ClosingInv
  <2> QED BY <2>1, <2>2 DEF ClosesWell, Closes
<1>2. CASE Next /\ raced'
  BY <1>2 DEF ClosingInv, ClosesWell
<1>3. CASE Next /\ ~raced'
  BY <1>3, MessageCloses, ResetCloses, OtherwiseCloses DEF Next, Otherwise
<1> QED BY <1>1, <1>2, <1>3

-----------------------------------------------------------------------------
(* The theorems. *)

LEMMA IInvInit == Init => IInv
<1> SUFFICES ASSUME Init PROVE IInv
  OBVIOUS
<1>1. NoJob \in Job /\ NoJob.pc = "idle" /\ ~NoJob.sawKey
  BY JobsTyped DEF NoJob
<1>2. Unlocker \in Proc
  BY DEF Proc
<1>3. TypeOK
  <2>1. chain \in Seq(Pin)
    BY DEF Init
  <2> QED BY <1>1, <2>1 DEF Init, TypeOK
<1> QED BY <1>1, <1>2, <1>3 DEF Init, IInv, ChainShape, LockInv, Busy

LEMMA IInvNext == IInv /\ [Next]_vars => IInv'
<1> SUFFICES ASSUME TypeOK, ChainShape, LockInv, [Next]_vars
             PROVE  TypeOK' /\ ChainShape' /\ LockInv'
  BY DEF IInv
<1>1. CASE \E h \in Msg : Message(h)
  BY <1>1, MessageTyped, MessageKeeps, NextChain DEF Next
<1>2. CASE \E p \in Proc : Reset(p)
  BY <1>2, ResetTyped, ResetKeeps, NextChain DEF Next
<1>3. CASE Otherwise
  <2>1. Next
    BY <1>3 DEF Otherwise, Next
  <2> QED BY <1>3, <2>1, OtherwiseTyped, OtherwiseKeeps, NextChain
<1>4. CASE UNCHANGED vars
  BY <1>4 DEF vars, memory, session, history, TypeOK, ChainShape, LockInv, Busy
<1> QED BY <1>1, <1>2, <1>3, <1>4 DEF Next, Otherwise

\* Key, deadlines, timers, the UNLOCK chain and all work in progress keep their
\* shape, with any number of messages overlapping and at any stop of the worker.
THEOREM LockTypeCorrect == Spec => []TypeOK
<1>1. IInv => TypeOK
  BY DEF IInv
<1> QED BY <1>1, IInvInit, IInvNext, PTL DEF Spec

\* LOCK (handleLock): once the user has locked the vault no read finds a key in
\* memory or in session storage before the next unlock, unless work overlapped.
THEOREM LockedStaysLocked == Spec => []LockSticks
<1>1. IInv => LockSticks
  BY DEF IInv, LockInv, LockSticks, Readable
<1> QED BY <1>1, IInvInit, IInvNext, PTL DEF Spec

\* openedItems: decrypted items never outlive the key, whichever way the key was
\* dropped - LOCK, the timer, a deadline seen late, an eviction - unless work
\* overlapped.
THEOREM PlaintextGoesWithKey == Spec => []PlaintextGone
<1>1. IInv => PlaintextGone
  BY DEF IInv, LockInv, PlaintextGone
<1> QED BY <1>1, IInvInit, IInvNext, PTL DEF Spec

\* The idle deadline (resetLockTimer, setMasterKeyLockAt, isMasterKeyExpired): a
\* vault left alone for the idle time is closed to every reader, with any number
\* of messages overlapping and through any evictions, as long as the worker is
\* stopped between its pieces of work only.
THEOREM IdleVaultCloses ==
  ASSUME ~Crashes
  PROVE  Spec => []IdleVaultIsClosed
<1>1. IInv /\ DeadlineInv => IdleVaultIsClosed
  BY DatedIsClosed DEF IInv
<1>2. IInv /\ DeadlineInv /\ [Next]_vars => DeadlineInv'
  BY DeadlineKept DEF IInv
<1> QED BY <1>1, <1>2, DeadlineInit, IInvInit, IInvNext, PTL DEF Spec

\* The vault never closes early (ArmTimer, the deadlines, TimerFires): whatever
\* closes it, the user locked it or the idle time since its last use is over,
\* unless work overlapped; wherever the worker may be stopped.
THEOREM ClosesInTime == Spec => ClosesInTimeAlone
<1>1. IInv /\ ClosingInv /\ [Next]_vars => ClosingInv' /\ [Closes => InTime \/ raced']_vars
  BY ClosingKept DEF IInv, ClosesWell
<1> QED BY <1>1, ClosingInit, IInvInit, IInvNext, PTL DEF Spec, ClosesInTimeAlone
=============================================================================
