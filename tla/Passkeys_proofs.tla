---------------------------- MODULE Passkeys_proofs ----------------------------
(***************************************************************************)
(* Theorems about Passkeys, for any number of calls in a page, any         *)
(* passkeys, and surroundings that change as often as they like.           *)
(***************************************************************************)
EXTENDS Passkeys, SequenceTheorems, FiniteSetTheorems, TLAPS

USE PasskeysAssumption

-----------------------------------------------------------------------------
(* Lemmas about the data. *)

LEMMA JobsTyped ==
  /\ NoJob \in Job
  /\ \A task \in {"prepare", "refresh", "work"} : Begin(task) \in Job
  /\ \A j \in Job, pc \in Stage : [j EXCEPT !.pc = pc] \in Job
  /\ \A j \in Job, ok \in BOOLEAN : [j EXCEPT !.pc = "answer", !.ok = ok] \in Job
  BY DEF NoJob, Begin, Job, Stage

\* Only the work for one call changes, to a job.
LEMMA WorksTyped ==
  ASSUME job \in [Call -> Job], NEW c \in Call, NEW j \in Job, Works(c, j)
  PROVE  job' \in [Call -> Job]
  BY DEF Works

LEMMA StepTyped ==
  ASSUME job \in [Call -> Job], NEW c \in Call, NEW pc \in Stage, Step(c, pc)
  PROVE  job' \in [Call -> Job]
  BY JobsTyped, WorksTyped DEF Step

LEMMA AnswersTyped ==
  ASSUME job \in [Call -> Job], NEW c \in Call, NEW ok \in BOOLEAN, Answers(c, ok)
  PROVE  job' \in [Call -> Job]
  BY JobsTyped, WorksTyped DEF Answers

LEMMA PostTyped ==
  ASSUME posted \in Seq(Message), NEW c \in Call, NEW what \in Reply \cup {"request", "abort"},
         Post(c, what)
  PROVE  posted' \in Seq(Message)
  BY DEF Post, Msg, Message

\* What Escape posts: refusals of calls whose prompts it settles.
LEMMA RefusalsTyped ==
  ASSUME NEW S \in SUBSET Call, NEW order \in SetToSeqs(S)
  PROVE  LET more == [i \in DOMAIN order |-> Msg(order[i], "error")] IN
         /\ more \in Seq(Message)
         /\ \A i \in 1..Len(more) : more[i].what = "error" /\ more[i].call \in S
<1>1. IsFiniteSet(S)
  BY FS_Subset
<1>2. PICK n \in Nat : n = Cardinality(S)
  BY <1>1, FS_CardinalityType
<1>3. order \in [1..n -> S]
  BY <1>2 DEF SetToSeqs
<1>4. [i \in DOMAIN order |-> Msg(order[i], "error")] \in [1..n -> Message]
  BY <1>3 DEF Msg, Message, Reply
<1> QED BY <1>3, <1>4 DEF Msg

LEMMA HeadTyped ==
  ASSUME posted \in Seq(Message), posted # <<>>
  PROVE  /\ Head(posted).call \in Call
         /\ Head(posted).what \in Reply \cup {"request", "abort"}
         /\ Tail(posted) \in Seq(Message)
<1>1. Head(posted) \in Message /\ Tail(posted) \in Seq(Message)
  BY HeadTailProperties
<1> QED BY <1>1 DEF Message

LEMMA MailTyped ==
  ASSUME posted \in Seq(Message), NEW i \in DOMAIN posted
  PROVE  posted[i] \in Message /\ posted[i].call \in Call
<1>1. posted[i] \in Message
  BY ElementOfSeq
<1> QED BY <1>1 DEF Message

-----------------------------------------------------------------------------
(* Type correctness, one step per action. *)

LEMMA InitTyped == ASSUME Init PROVE TypeOK
<1>1. job \in [Call -> Job]
  BY JobsTyped DEF Init
<1>2. posted \in Seq(Message)
  BY DEF Init
<1>3. /\ page \in [Call -> {"new", "waiting", "aborted"} \cup Reply]
      /\ prompt \in [Call -> {"none", "locked", "waiting", "ready"}]
      /\ offered \in [Call -> SUBSET Passkey] /\ prepared \in [Call -> SUBSET Passkey]
      /\ chosen \in [Call -> Passkey \cup {None}] /\ used \in [Call -> Passkey \cup {None}]
      /\ held \in [Call -> SUBSET Cred]
  BY DEF Init
<1>4. vault \subseteq Passkey /\ moves \in 0..MaxMoves
  BY DEF Init, Passkey
<1> QED BY <1>1, <1>2, <1>3, <1>4 DEF Init, TypeOK

LEMMA UnchangedTyped == TypeOK /\ UNCHANGED vars => TypeOK'
  BY DEF TypeOK, vars, bridge, surroundings, history

LEMMA EndsTyped ==
  ASSUME TypeOK, NEW c \in Call, NEW what \in Reply, Ends(c, what)
  PROVE  posted' \in Seq(Message) /\ inFlight' \subseteq Call
  BY PostTyped DEF Ends, TypeOK

LEMMA SettlesTyped ==
  ASSUME TypeOK, NEW c \in Call, NEW what \in Reply, GivesUp(c, what), Settles(c)
  PROVE  TypeOK'
<1>1. posted' \in Seq(Message) /\ inFlight' \subseteq Call
  BY EndsTyped DEF GivesUp, TypeOK
<1>2. job' \in [Call -> Job]
  BY JobsTyped, WorksTyped DEF Settles, TypeOK
<1> QED BY <1>1, <1>2 DEF Settles, TypeOK, surroundings, history

\* What the page and the window do.
LEMMA PageTyped ==
  ASSUME TypeOK, NEW c \in Call, Start(c) \/ Abort(c) \/ Deliver
  PROVE  TypeOK'
<1>1. CASE Start(c)
  BY <1>1, PostTyped DEF Start, TypeOK, bridge, surroundings, history
<1>2. CASE Abort(c)
  BY <1>2, PostTyped DEF Abort, TypeOK, bridge, surroundings, history
<1>3. CASE DeliverReply
  BY <1>3, HeadTyped DEF DeliverReply, TypeOK, bridge, surroundings, history
<1>4. CASE DeliverRequest
  <2>1. Head(posted).call \in Call /\ Tail(posted) \in Seq(Message)
    BY <1>4, HeadTyped DEF DeliverRequest, TypeOK
  <2>2. job' \in [Call -> Job]
    BY <1>4, <2>1, JobsTyped, WorksTyped DEF DeliverRequest, TypeOK
  <2> QED BY <1>4, <2>1, <2>2 DEF DeliverRequest, TypeOK, surroundings, history
<1>5. CASE DeliverAbort
  BY <1>5, HeadTyped DEF DeliverAbort, TypeOK, surroundings
<1> QED BY <1>1, <1>2, <1>3, <1>4, <1>5 DEF Deliver

\* What the bridge does with the answers to a preparation.
LEMMA PreparedTyped ==
  ASSUME TypeOK, NEW c \in Call, Prepared(c) \/ Refreshed(c)
  PROVE  TypeOK'
<1>1. job[c].list \in SUBSET Passkey
  BY DEF TypeOK, Job
<1>2. CASE Prepared(c)
  <2>1. job' \in [Call -> Job]
    BY <1>2, JobsTyped, WorksTyped DEF Prepared, TypeOK
  <2>2. /\ posted' \in Seq(Message) /\ inFlight' \subseteq Call
        /\ prompt' \in [Call -> {"none", "locked", "waiting", "ready"}]
        /\ shown' \in Call \cup {None}
        /\ offered' \in [Call -> SUBSET Passkey] /\ prepared' \in [Call -> SUBSET Passkey]
    <3>1. CASE c \notin inFlight
      BY <1>2, <3>1 DEF Prepared, TypeOK
    <3>2. CASE AskUser(c)
      BY <1>1, <3>2 DEF AskUser, TypeOK
    <3>3. CASE /\ Ends(c, IF job[c].ok THEN "native" ELSE "error")
               /\ UNCHANGED <<prompt, shown, offered, prepared>>
      BY <3>3, EndsTyped DEF TypeOK, Reply
    <3> QED BY <1>2, <3>1, <3>2, <3>3 DEF Prepared
  <2> QED BY <1>2, <2>1, <2>2 DEF Prepared, TypeOK, surroundings, history
<1>3. CASE Refreshed(c)
  <2>1. job' \in [Call -> Job]
    BY <1>3, JobsTyped, WorksTyped DEF Refreshed, TypeOK
  <2> QED BY <1>1, <1>3, <2>1 DEF Refreshed, TypeOK, surroundings, history
<1> QED BY <1>2, <1>3

\* What the user does, and the timeout.
LEMMA UserTyped ==
  ASSUME TypeOK, NEW c \in Call, User(c) \/ Expire(c) \/ Poll(c)
  PROVE  TypeOK'
<1>1. CASE Cancel(c) \/ Fallback(c) \/ Expire(c)
  BY <1>1, SettlesTyped DEF Cancel, Fallback, Expire, Reply
<1>2. CASE OpenVault(c)
  BY <1>2 DEF OpenVault, TypeOK, surroundings, history
<1>3. CASE Poll(c)
  <2>1. job' \in [Call -> Job]
    BY <1>3, JobsTyped, WorksTyped DEF Poll, TypeOK
  <2> QED BY <1>3, <2>1 DEF Poll, TypeOK, bridge, surroundings, history
<1>4. ASSUME NEW k \in Passkey \cup {None}, Approve(c, k) PROVE TypeOK'
  <2>1. job' \in [Call -> Job]
    BY <1>4, JobsTyped, WorksTyped DEF Approve, TypeOK
  <2>2. ask[c].wants \subseteq Cred
    BY DEF TypeOK, Ask
  <2>3. held' \in [Call -> SUBSET Cred]
    BY <1>4, <2>2 DEF Approve, TypeOK
  <2> QED BY <1>4, <2>1, <2>3 DEF Approve, TypeOK, surroundings
<1> QED BY <1>1, <1>2, <1>3, <1>4 DEF User

LEMMA EscapeTyped == ASSUME TypeOK, Escape PROVE TypeOK'
<1>1. posted' \in Seq(Message)
  <2>1. PICK order \in SetToSeqs(Asking \cap inFlight) :
          posted' = posted \o [i \in DOMAIN order |-> Msg(order[i], "error")]
    BY DEF Escape
  <2>2. [i \in DOMAIN order |-> Msg(order[i], "error")] \in Seq(Message)
    BY RefusalsTyped DEF Asking
  <2> QED BY <2>1, <2>2, ConcatProperties DEF TypeOK
<1>2. job' \in [Call -> Job]
  BY JobsTyped DEF Escape, TypeOK
<1> QED BY <1>1, <1>2 DEF Escape, TypeOK, surroundings, history

LEMMA RecordsTyped == ASSUME TypeOK PROVE Records \subseteq vault
  BY DEF Records

LEMMA AllowedWithin == ASSUME NEW c \in Call, NEW R PROVE Allowed(c, R) \subseteq R
  BY DEF Allowed

LEMMA CandidatesWithin == ASSUME TypeOK, NEW c \in Call PROVE Candidates(c) \subseteq vault
  BY RecordsTyped, AllowedWithin DEF Candidates

\* What the worker reads ...
LEMMA ReadTyped ==
  ASSUME TypeOK, NEW c \in Call, ReadSettings(c) \/ SeesLock(c) \/ ListAccounts(c) \/ Exclude(c)
  PROVE  TypeOK'
<1>1. \A j \in Job, pc \in Stage, b \in BOOLEAN :
        /\ [j EXCEPT !.pc = pc, !.on = b] \in Job
        /\ [j EXCEPT !.pc = pc, !.open = b, !.ok = TRUE] \in Job
        /\ \A list \in SUBSET Passkey : [j EXCEPT !.pc = pc, !.list = list] \in Job
  BY DEF Job
<1>2. job[c] \in Job /\ enabled \in BOOLEAN /\ open \in BOOLEAN
  BY DEF TypeOK
<1>3. CASE ReadSettings(c)
  <2>1. job' \in [Call -> Job]
    <3>1. CASE Step(c, "unlocked") \/ Answers(c, FALSE)
      BY <3>1, StepTyped, AnswersTyped DEF TypeOK, Stage
    <3>2. CASE Works(c, [job[c] EXCEPT !.pc = "unlocked", !.on = enabled])
      BY <1>1, <1>2, <3>2, WorksTyped DEF TypeOK, Stage
    <3> QED BY <1>3, <3>1, <3>2 DEF ReadSettings
  <2> QED BY <1>3, <2>1 DEF ReadSettings, TypeOK, bridge, surroundings, history
<1>4. CASE SeesLock(c)
  <2>1. job' \in [Call -> Job]
    <3>1. CASE \E pc \in Stage : Step(c, pc)
      BY <3>1, StepTyped DEF TypeOK
    <3>2. CASE Answers(c, FALSE)
      BY <3>2, AnswersTyped DEF TypeOK
    <3>3. CASE Works(c, [job[c] EXCEPT !.pc = IF open /\ IsGet(c) THEN "list" ELSE "answer",
                                       !.open = open, !.ok = TRUE])
      <4>1. PICK pc \in Stage : pc = IF open /\ IsGet(c) THEN "list" ELSE "answer"
        BY DEF Stage
      <4> QED BY <1>1, <1>2, <3>3, <4>1, WorksTyped DEF TypeOK
    <3>4. (IF IsGet(c) \/ ask[c].wants # {} THEN "list" ELSE "store") \in Stage
      BY DEF Stage
    <3> QED BY <1>4, <3>1, <3>2, <3>3, <3>4 DEF SeesLock
  <2> QED BY <1>4, <2>1 DEF SeesLock, TypeOK, bridge, surroundings, history
<1>5. CASE ListAccounts(c)
  <2>1. Allowed(c, Records) \in SUBSET Passkey
    BY RecordsTyped, AllowedWithin DEF TypeOK
  <2>2. job' \in [Call -> Job]
    BY <1>1, <1>2, <1>5, <2>1, WorksTyped DEF ListAccounts, TypeOK, Stage
  <2> QED BY <1>5, <2>2 DEF ListAccounts, TypeOK, bridge, surroundings, history
<1>6. CASE Exclude(c)
  <2>1. job' \in [Call -> Job]
    BY <1>6, StepTyped, AnswersTyped DEF Exclude, TypeOK, Stage
  <2> QED BY <1>6, <2>1 DEF Exclude, TypeOK, bridge, surroundings
<1> QED BY <1>3, <1>4, <1>5, <1>6

\* ... and what it does.
LEMMA ActTyped ==
  ASSUME TypeOK, NEW c \in Call, job[c].pc = "save" => used[c] # None,
         Sign(c) \/ StorePasskey(c) \/ Touch(c) \/ SaveTouched(c) \/ Worked(c)
  PROVE  TypeOK'
<1>1. CASE Sign(c)
  <2>1. job' \in [Call -> Job]
    BY <1>1, StepTyped, AnswersTyped DEF Sign, TypeOK, Stage
  <2>2. \/ used' = used
        \/ \E k \in Candidates(c) : used' = [used EXCEPT ![c] = k]
    BY <1>1 DEF Sign
  <2>3. used' \in [Call -> Passkey \cup {None}]
    BY <2>2, CandidatesWithin DEF TypeOK
  <2> QED BY <1>1, <2>1, <2>3 DEF Sign, TypeOK, bridge, surroundings
<1>2. CASE StorePasskey(c)
  <2>1. job' \in [Call -> Job]
    BY <1>2, AnswersTyped DEF StorePasskey, TypeOK
  <2>2. vault' \subseteq Passkey /\ used' \in [Call -> Passkey \cup {None}]
    BY <1>2 DEF StorePasskey, TypeOK, Passkey
  <2> QED BY <1>2, <2>1, <2>2 DEF StorePasskey, TypeOK, bridge, surroundings
<1>3. CASE Touch(c)
  <2>1. job' \in [Call -> Job]
    BY <1>3, StepTyped, AnswersTyped DEF Touch, TypeOK, Stage
  <2> QED BY <1>3, <2>1 DEF Touch, TypeOK, bridge, surroundings, history
<1>4. CASE SaveTouched(c)
  <2>1. job' \in [Call -> Job]
    BY <1>4, AnswersTyped DEF SaveTouched, TypeOK
  <2>2. vault' \subseteq Passkey
    BY <1>4 DEF SaveTouched, TypeOK, At
  <2> QED BY <1>4, <2>1, <2>2 DEF SaveTouched, TypeOK, bridge, surroundings, history
<1>5. CASE Worked(c)
  <2>1. job' \in [Call -> Job]
    BY <1>5, JobsTyped, WorksTyped DEF Worked, TypeOK
  <2>2. posted' \in Seq(Message) /\ inFlight' \subseteq Call
    BY <1>5, EndsTyped DEF Worked, TypeOK, Reply
  <2> QED BY <1>5, <2>1, <2>2 DEF Worked, TypeOK, surroundings, history
<1> QED BY <1>1, <1>2, <1>3, <1>4, <1>5

LEMMA WorkerStopsTyped == ASSUME TypeOK, WorkerStops PROVE TypeOK'
<1>1. job' \in [Call -> Job]
  BY JobsTyped DEF WorkerStops, TypeOK
<1>2. Moves
  BY DEF WorkerStops
<1>3. moves' \in 0..MaxMoves
  BY <1>2 DEF Moves, TypeOK
<1> QED BY <1>1, <1>3 DEF WorkerStops, TypeOK, bridge, history

LEMMA SurroundingsTyped ==
  ASSUME TypeOK,
         LockOrUnlock \/ SwitchPasskeys \/ \E k \in Passkey : Delete(k) \/ Arrive(k)
  PROVE  TypeOK'
<1>1. moves' \in 0..MaxMoves
  BY DEF LockOrUnlock, SwitchPasskeys, Delete, Arrive, Moves, TypeOK
<1>2. vault' \subseteq Passkey /\ gone' \subseteq Passkey
  BY DEF LockOrUnlock, SwitchPasskeys, Delete, Arrive, TypeOK, history
<1>3. open' \in BOOLEAN /\ enabled' \in BOOLEAN
  BY Zenon DEF LockOrUnlock, SwitchPasskeys, Delete, Arrive, TypeOK
<1> QED BY <1>1, <1>2, <1>3
        DEF LockOrUnlock, SwitchPasskeys, Delete, Arrive, TypeOK, bridge, history

-----------------------------------------------------------------------------
(* The inductive invariant. *)

\* Nothing was done yet for a call whose request is still to be delivered.
Untouched(c) ==
  /\ c \notin inFlight /\ c \notin consented /\ c \notin dropped
  /\ job[c].pc = "none" /\ prompt[c] = "none" /\ shown # c

\* The window's messages: a call's request is its first message and its only
\* request, and good news is true.
MailInv ==
  /\ \A i, j \in DOMAIN posted :
        posted[i].what = "request" /\ posted[j].call = posted[i].call => i <= j
  /\ \A i \in DOMAIN posted :
        /\ page[posted[i].call] # "new"
        /\ posted[i].what \in {"made", "signed"} => used[posted[i].call] # None
  /\ \A i \in DOMAIN posted, c \in Call :
        posted[i].what = "request" /\ posted[i].call = c => Untouched(c)
  /\ \A c \in Call :
        /\ page[c] = "new" => Untouched(c)
        /\ page[c] \in {"made", "signed"} => used[c] # None

Busy(c, task) == job[c].pc # "none" /\ job[c].task = task

\* How far a ceremony is, seen from the prompt and from the worker: it is
\* prepared, then asked for, then approved, then carried out.
CallInv(c) ==
  /\ Busy(c, "prepare") => prompt[c] = "none" /\ c \notin consented
  /\ Busy(c, "refresh") => prompt[c] = "waiting"
  /\ Busy(c, "work") => prompt[c] = "none" /\ c \in consented
  /\ job[c].pc \in {"store", "touch", "save"} => job[c].task = "work"
  /\ job[c].pc \in {"touch", "save"} => used[c] # None
  /\ job[c].pc = "answer" /\ job[c].task = "work" /\ job[c].ok => used[c] # None
  /\ prompt[c] # "none" => c \notin consented
  /\ shown = c => prompt[c] # "none" /\ c \in inFlight
  /\ c \in dropped => c \notin consented /\ c \notin inFlight
  /\ used[c] # None => c \in consented

Known == vault \cup gone

\* What is listed, chosen, used or excluded is, or was, in the vault.
DataInv(c) ==
  /\ job[c].list \subseteq Known /\ offered[c] \subseteq Known
  /\ IsGet(c) /\ c \in consented => chosen[c] \in Known
  /\ used[c] # None => used[c] \in Known
  /\ used[c] # None /\ IsGet(c) => used[c] = chosen[c] \/ chosen[c] \in gone
  /\ held[c] \subseteq ask[c].wants \cap Known
  /\ job[c].pc = "store" => ~IsGet(c) /\ (held[c] \subseteq gone \/ c \in blinked)
  /\ used[c] # None /\ ~IsGet(c) => held[c] \subseteq gone \/ c \in blinked

IInv == TypeOK /\ MailInv /\ \A c \in Call : CallInv(c) /\ DataInv(c)

LEMMA IInvInit == ASSUME Init PROVE IInv
<1>1. TypeOK
  BY InitTyped
<1>2. MailInv
  BY DEF Init, MailInv, Untouched, NoJob
<1>3. ASSUME NEW c \in Call PROVE CallInv(c) /\ DataInv(c)
  BY DEF Init, CallInv, DataInv, Busy, NoJob
<1> QED BY <1>1, <1>2, <1>3 DEF IInv

\* What a step of the worker changes.
LEMMA WorksMeans ==
  ASSUME TypeOK, NEW c \in Call, NEW j, Works(c, j)
  PROVE  job'[c] = j /\ \A d \in Call \ {c} : job'[d] = job[d]
  BY DEF Works, TypeOK

LEMMA StepMeans ==
  ASSUME TypeOK, NEW c \in Call, NEW pc \in Stage, Step(c, pc)
  PROVE  /\ job'[c].pc = pc /\ job'[c].task = job[c].task /\ job'[c].list = job[c].list
         /\ \A d \in Call \ {c} : job'[d] = job[d]
  BY DEF Step, Works, TypeOK, Job

LEMMA AnswersMeans ==
  ASSUME TypeOK, NEW c \in Call, NEW ok, Answers(c, ok)
  PROVE  /\ job'[c].pc = "answer" /\ job'[c].ok = ok
         /\ job'[c].task = job[c].task /\ job'[c].list = job[c].list
         /\ \A d \in Call \ {c} : job'[d] = job[d]
  BY DEF Answers, Works, TypeOK, Job

LEMMA JobsMean ==
  /\ NoJob.pc = "none" /\ NoJob.list = {}
  /\ \A task : Begin(task).pc = "settings" /\ Begin(task).task = task /\ Begin(task).list = {}
  BY DEF NoJob, Begin

-----------------------------------------------------------------------------
(* The inductive invariant is kept: the ceremony of each call. *)

\* A step of the worker for c keeps every ceremony in shape if it goes on with
\* its task, acts only when that is to act, and succeeds only once it has.
WorkerStep(c) ==
  /\ job[c].pc # "none" /\ job'[c].pc # "none" /\ job'[c].task = job[c].task
  /\ job'[c].pc \in {"store", "touch", "save"} => job[c].task = "work"
  /\ job'[c].pc \in {"touch", "save"} => used'[c] # None
  /\ job'[c].pc = "answer" /\ job[c].task = "work" /\ job'[c].ok => used'[c] # None
  /\ used'[c] # None => used[c] # None \/ job[c].task = "work"
  /\ \A d \in Call \ {c} : job'[d] = job[d] /\ used'[d] = used[d]
  /\ UNCHANGED <<prompt, shown, inFlight, consented, dropped>>

LEMMA WorkerStepKeepsCalls ==
  ASSUME NEW c \in Call, NEW d \in Call, CallInv(d), WorkerStep(c)
  PROVE  CallInv(d)'
<1>1. CASE d = c
  BY <1>1 DEF WorkerStep, CallInv, Busy
<1>2. CASE d # c
  BY <1>2 DEF WorkerStep, CallInv, Busy
<1> QED BY <1>1, <1>2

LEMMA ReadKeepsCalls ==
  ASSUME IInv, NEW c \in Call, NEW d \in Call,
         ReadSettings(c) \/ SeesLock(c) \/ ListAccounts(c) \/ Exclude(c)
  PROVE  CallInv(d)'
<1>0. TypeOK /\ job[c] \in Job /\ CallInv(c) /\ CallInv(d)
  BY DEF IInv, TypeOK
<1>1. /\ job[c].pc # "none"
      /\ UNCHANGED <<prompt, shown, inFlight, consented, dropped, used>>
  BY DEF ReadSettings, SeesLock, ListAccounts, Exclude, At, bridge, history
<1>2. /\ job'[c].pc \in {"unlocked", "list", "store", "answer"}
      /\ job'[c].task = job[c].task
      /\ job'[c].pc = "store" => job[c].task = "work"
      /\ job'[c].pc = "answer" /\ job[c].task = "work" => ~job'[c].ok
      /\ \A e \in Call \ {c} : job'[e] = job[e]
  <2>1. CASE ReadSettings(c)
    <3>1. CASE Step(c, "unlocked")
      BY <1>0, <3>1, StepMeans DEF Stage
    <3>2. CASE Answers(c, FALSE)
      BY <1>0, <3>2, AnswersMeans
    <3>3. CASE Works(c, [job[c] EXCEPT !.pc = "unlocked", !.on = enabled])
      <4>1. job'[c] = [job[c] EXCEPT !.pc = "unlocked", !.on = enabled]
            /\ \A e \in Call \ {c} : job'[e] = job[e]
        BY <1>0, <3>3, WorksMeans
      <4> QED BY <1>0, <4>1 DEF Job
    <3> QED BY <2>1, <3>1, <3>2, <3>3 DEF ReadSettings
  <2>2. CASE SeesLock(c)
    <3>1. CASE job[c].task # "work"
      <4>1. job'[c] = [job[c] EXCEPT !.pc = IF open /\ IsGet(c) THEN "list" ELSE "answer",
                                     !.open = open, !.ok = TRUE]
            /\ \A e \in Call \ {c} : job'[e] = job[e]
        BY <1>0, <2>2, <3>1, WorksMeans DEF SeesLock
      <4> QED BY <1>0, <3>1, <4>1 DEF Job
    <3>2. CASE job[c].task = "work" /\ ~open
      BY <1>0, <2>2, <3>2, AnswersMeans DEF SeesLock
    <3>3. CASE job[c].task = "work" /\ open
      BY <1>0, <2>2, <3>3, StepMeans DEF SeesLock, Stage
    <3> QED BY <3>1, <3>2, <3>3
  <2>3. CASE ListAccounts(c)
    <3>1. job'[c] = [job[c] EXCEPT !.pc = "answer", !.list = Allowed(c, Records)]
          /\ \A e \in Call \ {c} : job'[e] = job[e]
      BY <1>0, <2>3, WorksMeans DEF ListAccounts
    <3>2. job[c].task # "work"
      BY <2>3 DEF ListAccounts
    <3> QED BY <1>0, <3>1, <3>2 DEF Job
  <2>4. CASE Exclude(c)
    BY <1>0, <2>4, StepMeans, AnswersMeans DEF Exclude, Stage
  <2> QED BY <2>1, <2>2, <2>3, <2>4
<1>3. WorkerStep(c)
  BY <1>0, <1>1, <1>2 DEF WorkerStep, CallInv
<1> QED BY <1>0, <1>3, WorkerStepKeepsCalls

LEMMA ActKeepsCalls ==
  ASSUME IInv, NEW c \in Call, NEW d \in Call,
         Sign(c) \/ StorePasskey(c) \/ Touch(c) \/ SaveTouched(c)
  PROVE  CallInv(d)'
<1>0. TypeOK /\ used \in [Call -> Passkey \cup {None}] /\ CallInv(c) /\ CallInv(d)
  BY DEF IInv, TypeOK
<1>1. /\ job[c].pc # "none"
      /\ UNCHANGED <<prompt, shown, inFlight, consented, dropped>>
  BY DEF Sign, StorePasskey, Touch, SaveTouched, At, bridge, history
<1>2. CASE Sign(c)
  <2>1. ASSUME Answers(c, FALSE), UNCHANGED used PROVE WorkerStep(c)
    <3>1. /\ job'[c].pc = "answer" /\ job'[c].ok = FALSE /\ job'[c].task = job[c].task
          /\ \A e \in Call \ {c} : job'[e] = job[e]
      BY <1>0, <2>1, AnswersMeans
    <3> QED BY <1>0, <1>1, <2>1, <3>1 DEF WorkerStep
  <2>2. ASSUME NEW k \in Candidates(c), used' = [used EXCEPT ![c] = k], Step(c, "touch")
        PROVE  WorkerStep(c)
    <3>1. k # None
      BY <1>0, CandidatesWithin DEF TypeOK, Passkey
    <3>2. job[c].task = "work"
      BY <1>2 DEF Sign
    <3> QED BY <1>0, <1>1, <2>2, <3>1, <3>2, StepMeans DEF WorkerStep, Stage
  <2>3. WorkerStep(c)
    BY <1>2, <2>1, <2>2 DEF Sign
  <2> QED BY <1>0, <2>3, WorkerStepKeepsCalls
<1>3. CASE StorePasskey(c)
  <2>1. job[c].task = "work"
    BY <1>0, <1>3 DEF StorePasskey, At, CallInv
  <2>2. WorkerStep(c)
    BY <1>0, <1>1, <1>3, <2>1, AnswersMeans DEF StorePasskey, WorkerStep
  <2> QED BY <1>0, <2>2, WorkerStepKeepsCalls
<1>4. CASE Touch(c) \/ SaveTouched(c)
  <2>1. used' = used /\ job[c].task = "work" /\ used[c] # None
    BY <1>0, <1>4 DEF Touch, SaveTouched, At, CallInv, history
  <2>2. Step(c, "save") \/ Answers(c, TRUE)
    BY <1>4 DEF Touch, SaveTouched
  <2>3. WorkerStep(c)
    BY <1>0, <1>1, <2>1, <2>2, StepMeans, AnswersMeans DEF WorkerStep, Stage
  <2> QED BY <1>0, <2>3, WorkerStepKeepsCalls
<1> QED BY <1>2, <1>3, <1>4

LEMMA WorkedKeepsCalls ==
  ASSUME IInv, NEW c \in Call, NEW d \in Call, Worked(c)
  PROVE  CallInv(d)'
  BY WorksMeans, JobsMean DEF IInv, Worked, Ends, CallInv, Busy, At, TypeOK, history

LEMMA BridgeKeepsCalls ==
  ASSUME IInv, NEW c \in Call, NEW d \in Call, Prepared(c) \/ Refreshed(c)
  PROVE  CallInv(d)'
<1> USE DEF IInv
<1>1. CASE Prepared(c)
  <2>1. job'[c] = NoJob /\ \A e \in Call \ {c} : job'[e] = job[e]
    BY <1>1, WorksMeans DEF Prepared
  <2>2. CASE c \notin inFlight
    BY <1>1, <2>1, <2>2, JobsMean DEF Prepared, CallInv, Busy, At, history
  <2>3. CASE c \in inFlight /\ AskUser(c)
    BY <1>1, <2>1, <2>3, JobsMean DEF Prepared, AskUser, CallInv, Busy, At, TypeOK, history
  <2>4. CASE Ends(c, IF job[c].ok THEN "native" ELSE "error") /\ UNCHANGED <<prompt, shown>>
    BY <1>1, <2>1, <2>4, JobsMean DEF Prepared, Ends, CallInv, Busy, At, history
  <2> QED BY <1>1, <2>2, <2>3, <2>4 DEF Prepared
<1>2. CASE Refreshed(c)
  BY <1>2, WorksMeans, JobsMean DEF Refreshed, CallInv, Busy, At, TypeOK, history
<1> QED BY <1>1, <1>2

LEMMA UserKeepsCalls ==
  ASSUME IInv, NEW c \in Call, NEW d \in Call, User(c) \/ Expire(c) \/ Poll(c)
  PROVE  CallInv(d)'
<1> USE DEF IInv
<1>1. ASSUME NEW what \in Reply, prompt[c] # "none", GivesUp(c, what), Settles(c)
      PROVE  CallInv(d)'
  BY <1>1, WorksMeans, JobsMean DEF GivesUp, Ends, Settles, CallInv, Busy, TypeOK, history
<1>2. CASE Cancel(c) \/ Fallback(c) \/ Expire(c)
  BY <1>1, <1>2 DEF Cancel, Fallback, Expire, CallInv, Reply
<1>3. CASE OpenVault(c)
  BY <1>3 DEF OpenVault, CallInv, Busy, TypeOK, history
<1>4. CASE Poll(c)
  BY <1>4, WorksMeans, JobsMean DEF Poll, CallInv, Busy, At, bridge, history
<1>5. ASSUME NEW k \in Passkey \cup {None}, Approve(c, k) PROVE CallInv(d)'
  BY <1>5, WorksMeans, JobsMean DEF Approve, CallInv, Busy, TypeOK
<1> QED BY <1>2, <1>3, <1>4, <1>5 DEF User

LEMMA EscapeKeepsCalls == ASSUME IInv, NEW d \in Call, Escape PROVE CallInv(d)'
  BY JobsMean DEF IInv, Escape, Asking, CallInv, Busy, TypeOK, history

LEMMA StopKeepsCalls == ASSUME IInv, NEW d \in Call, WorkerStops PROVE CallInv(d)'
<1>1. \/ job'[d] = job[d]
      \/ /\ job[d].pc # "none"
         /\ job'[d].pc = "answer" /\ ~job'[d].ok /\ job'[d].task = job[d].task
  <2>1. job[d] \in Job
    BY DEF IInv, TypeOK
  <2>2. job'[d] = IF job[d].pc \in {"none", "answer"} THEN job[d]
                  ELSE [job[d] EXCEPT !.pc = "answer", !.ok = FALSE]
    BY DEF WorkerStops
  <2> QED BY <2>1, <2>2 DEF Job
<1> QED BY <1>1 DEF IInv, WorkerStops, CallInv, Busy, bridge, history

LEMMA WindowKeepsCalls ==
  ASSUME IInv, NEW c \in Call, NEW d \in Call, Start(c) \/ Abort(c) \/ Deliver
  PROVE  CallInv(d)'
<1> USE DEF IInv
<1>1. CASE Start(c) \/ Abort(c) \/ DeliverReply
  BY <1>1 DEF Start, Abort, DeliverReply, CallInv, Busy, bridge, history
<1>2. CASE DeliverRequest
  <2>1. Head(posted).call \in Call /\ Untouched(Head(posted).call)
    <3>1. 1 \in DOMAIN posted /\ Head(posted) = posted[1] /\ Head(posted).what = "request"
      BY <1>2 DEF DeliverRequest, TypeOK
    <3> QED BY <1>2, <3>1, HeadTyped DEF DeliverRequest, TypeOK, MailInv
  <2> QED BY <1>2, <2>1, WorksMeans, JobsMean
          DEF DeliverRequest, CallInv, Busy, Untouched, TypeOK, history
<1>3. CASE DeliverAbort
  BY <1>3, HeadTyped DEF DeliverAbort, CallInv, Busy, TypeOK
<1> QED BY <1>1, <1>2, <1>3 DEF Deliver

LEMMA SurroundingsKeepCalls ==
  ASSUME IInv, NEW d \in Call,
         LockOrUnlock \/ SwitchPasskeys \/ \E k \in Passkey : Delete(k) \/ Arrive(k)
  PROVE  CallInv(d)'
  BY DEF IInv, LockOrUnlock, SwitchPasskeys, Delete, Arrive, CallInv, Busy, bridge, history
-----------------------------------------------------------------------------
(* The inductive invariant is kept: the window's messages. *)

\* What a step must not disturb.  (`page` becomes "waiting" only in Start.)
Carries ==
  /\ \A d \in Call : Untouched(d) => Untouched(d)'
  /\ \A d \in Call : page'[d] = "new" <=> page[d] = "new"
  /\ \A d \in Call : used[d] # None => used'[d] # None
  /\ \A d \in Call : page'[d] \in {"made", "signed"} => used'[d] # None

\* A message that may be posted: no request, of a call that was made, and true.
Postable(msg) ==
  /\ msg \in Message /\ msg.what # "request"
  /\ page'[msg.call] # "new"
  /\ msg.what \in {"made", "signed"} => used'[msg.call] # None

LEMMA ConcatKeepsMail ==
  ASSUME IInv, Carries, NEW more \in Seq(Message), posted' = posted \o more,
         \A i \in 1..Len(more) : Postable(more[i])
  PROVE  MailInv'
<1>1. /\ posted \in Seq(Message) /\ posted' \in Seq(Message)
      /\ Len(posted') = Len(posted) + Len(more)
      /\ \A i \in 1..Len(posted') :
            posted'[i] = IF i <= Len(posted) THEN posted[i] ELSE more[i - Len(posted)]
  BY ConcatProperties DEF IInv, TypeOK
<1>2. Len(posted) \in Nat /\ Len(more) \in Nat
  BY <1>1
<1>3. \A i \in DOMAIN posted : posted[i].call \in Call
  BY <1>1, MailTyped
<1>4. \A i \in DOMAIN posted' :
        \/ i \in DOMAIN posted /\ posted'[i] = posted[i]
        \/ i > Len(posted) /\ Postable(posted'[i])
  BY <1>1, <1>2
<1>5. \A i, j \in DOMAIN posted' :
        posted'[i].what = "request" /\ posted'[j].call = posted'[i].call => i <= j
  BY <1>1, <1>2, <1>4 DEF IInv, MailInv, Postable
<1>6. ASSUME NEW i \in DOMAIN posted'
      PROVE  /\ page'[posted'[i].call] # "new"
             /\ posted'[i].what \in {"made", "signed"} => used'[posted'[i].call] # None
             /\ \A c \in Call :
                   posted'[i].what = "request" /\ posted'[i].call = c => Untouched(c)'
  BY <1>3, <1>4 DEF IInv, MailInv, Postable, Carries
<1>7. \A c \in Call : page'[c] = "new" => Untouched(c)'
  BY DEF IInv, MailInv, Carries
<1> QED BY <1>5, <1>6, <1>7 DEF MailInv, Carries

LEMMA PostKeepsMail ==
  ASSUME IInv, Carries, NEW c \in Call, NEW what \in Reply \cup {"abort"}, Post(c, what),
         page'[c] # "new", what \in {"made", "signed"} => used'[c] # None
  PROVE  MailInv'
<1>1. Msg(c, what) \in Message /\ Msg(c, what).call = c /\ Msg(c, what).what = what
  BY DEF Msg, Message
<1>2. posted' = posted \o <<Msg(c, what)>>
  BY <1>1, AppendIsConcat DEF Post, IInv, TypeOK
<1>3. <<Msg(c, what)>> \in Seq(Message) /\ Len(<<Msg(c, what)>>) = 1
  BY <1>1
<1>4. Postable(Msg(c, what))
  BY <1>1 DEF Postable, Reply
<1>5. \A i \in 1..Len(<<Msg(c, what)>>) : Postable(<<Msg(c, what)>>[i])
  BY <1>3, <1>4
<1> QED BY <1>2, <1>3, <1>5, ConcatKeepsMail

LEMMA SilenceKeepsMail ==
  ASSUME IInv, Carries, posted' = posted
  PROVE  MailInv'
<1>1. \A i \in DOMAIN posted : posted[i].call \in Call
  BY MailTyped DEF IInv, TypeOK
<1> QED BY <1>1 DEF IInv, MailInv, Carries

\* A message is delivered: what the step does to its call is for that call's
\* request only, and the request, if it was that, is gone.
LEMMA TailKeepsMail ==
  ASSUME IInv, posted # <<>>, posted' = Tail(posted), used' = used,
         \A d \in Call \ {Head(posted).call} : Untouched(d) => Untouched(d)',
         \A d \in Call : page'[d] = "new" <=> page[d] = "new",
         \A d \in Call : page'[d] \in {"made", "signed"} => used[d] # None
  PROVE  MailInv'
<1>1. /\ posted \in Seq(Message) /\ posted' \in Seq(Message) /\ Len(posted) \in Nat \ {0}
      /\ Head(posted) = posted[1] /\ Len(posted') = Len(posted) - 1
      /\ \A i \in 1..Len(posted') : posted'[i] = posted[i + 1]
  BY HeadTailProperties DEF IInv, TypeOK
<1>2. ASSUME NEW i \in DOMAIN posted'
      PROVE  i + 1 \in DOMAIN posted /\ posted'[i] = posted[i + 1] /\ posted'[i].call \in Call
  <2>1. i + 1 \in DOMAIN posted /\ posted'[i] = posted[i + 1]
    BY <1>1
  <2> QED BY <2>1, MailTyped DEF IInv, TypeOK
<1>3. \A i, j \in DOMAIN posted' :
        posted'[i].what = "request" /\ posted'[j].call = posted'[i].call => i <= j
  <2>1. ASSUME NEW i \in DOMAIN posted', NEW j \in DOMAIN posted',
               posted'[i].what = "request", posted'[j].call = posted'[i].call
        PROVE  i + 1 <= j + 1
    BY <1>2, <2>1 DEF IInv, MailInv
  <2> QED BY <1>1, <2>1
<1>4. ASSUME NEW i \in DOMAIN posted', NEW c \in Call,
             posted'[i].what = "request", posted'[i].call = c
      PROVE  Untouched(c)'
  <2>1. c # posted[1].call
    BY <1>1, <1>2, <1>4 DEF IInv, MailInv
  <2> QED BY <1>1, <1>2, <1>4, <2>1 DEF IInv, MailInv
<1>5. ASSUME NEW i \in DOMAIN posted'
      PROVE  /\ page'[posted'[i].call] # "new"
             /\ posted'[i].what \in {"made", "signed"} => used'[posted'[i].call] # None
  BY <1>2 DEF IInv, MailInv
<1>6. ASSUME NEW c \in Call, page'[c] = "new" PROVE Untouched(c)'
  BY <1>1, <1>6 DEF IInv, MailInv
<1> QED BY <1>3, <1>4, <1>5, <1>6 DEF MailInv

\* Whoever works for one call leaves the untouched ones alone.
LEMMA OthersCarry ==
  ASSUME IInv, NEW c \in Call, ~Untouched(c),
         \A d \in Call \ {c} : /\ job'[d] = job[d] /\ prompt'[d] = prompt[d]
                               /\ used'[d] = used[d],
         used[c] # None => used'[c] # None,
         inFlight' \subseteq inFlight, consented' \subseteq consented \cup {c},
         shown' \in {shown, c, None}, UNCHANGED <<page, dropped>>
  PROVE  Carries
<1>1. ASSUME NEW d \in Call, Untouched(d) PROVE Untouched(d)'
  <2>1. d # c
    BY <1>1
  <2>2. d # None
    BY DEF Passkey
  <2> QED BY <1>1, <2>1, <2>2 DEF Untouched
<1>2. \A d \in Call : used[d] # None => used'[d] # None
  OBVIOUS
<1> QED BY <1>1, <1>2 DEF Carries, IInv, MailInv

LEMMA WorkerKeepsMail ==
  ASSUME IInv, NEW c \in Call,
         \/ ReadSettings(c) \/ SeesLock(c) \/ ListAccounts(c) \/ Exclude(c)
         \/ Sign(c) \/ StorePasskey(c) \/ Touch(c) \/ SaveTouched(c)
  PROVE  MailInv'
<1>1. TypeOK /\ ~Untouched(c)
  BY DEF IInv, Untouched, ReadSettings, SeesLock, ListAccounts, Exclude, Sign, StorePasskey,
         Touch, SaveTouched, At
<1>2. UNCHANGED <<page, posted, inFlight, prompt, shown, consented, dropped>>
  BY DEF bridge, history, ReadSettings, SeesLock, ListAccounts, Exclude, Sign, StorePasskey,
         Touch, SaveTouched
<1>3. \E j : Works(c, j)
  BY DEF Step, Answers, ReadSettings, SeesLock, ListAccounts, Exclude, Sign, StorePasskey,
         Touch, SaveTouched
<1>4. \A d \in Call \ {c} : job'[d] = job[d]
  BY <1>1, <1>3, WorksMeans
<1>5. /\ \A d \in Call \ {c} : used'[d] = used[d]
      /\ used[c] # None => used'[c] # None
  <2>1. CASE Sign(c)
    <3>1. \A k \in Candidates(c) : k # None
      BY <1>1, CandidatesWithin DEF TypeOK, Passkey
    <3>2. used' = used \/ \E k \in Candidates(c) : used' = [used EXCEPT ![c] = k]
      BY <2>1 DEF Sign
    <3> QED BY <1>1, <3>1, <3>2 DEF TypeOK
  <2>2. CASE StorePasskey(c)
    BY <1>1, <2>2 DEF StorePasskey, TypeOK
  <2>3. CASE ~Sign(c) /\ ~StorePasskey(c)
    BY <2>3 DEF history, ReadSettings, SeesLock, ListAccounts, Exclude, Touch, SaveTouched
  <2> QED BY <2>1, <2>2, <2>3
<1>6. Carries
  BY <1>1, <1>2, <1>4, <1>5, OthersCarry
<1> QED BY <1>2, <1>6, SilenceKeepsMail

LEMMA EndsKeepsMail ==
  ASSUME IInv, Carries, NEW c \in Call, c \in inFlight \/ Busy(c, "work"), page' = page,
         NEW what \in Reply, GivesUp(c, what), what \in {"made", "signed"} => used'[c] # None
  PROVE  MailInv'
<1>1. page'[c] # "new"
  BY DEF IInv, MailInv, Untouched, Busy
<1>2. Post(c, what) \/ posted' = posted
  BY DEF GivesUp, Ends
<1> QED BY <1>1, <1>2, PostKeepsMail, SilenceKeepsMail

LEMMA BridgeKeepsMail ==
  ASSUME IInv, NEW c \in Call, Prepared(c) \/ Refreshed(c) \/ Worked(c)
  PROVE  MailInv'
<1>1. TypeOK /\ ~Untouched(c) /\ CallInv(c)
  BY DEF IInv, Untouched, Prepared, Refreshed, Worked, At
<1>2. Works(c, NoJob) /\ UNCHANGED <<page, consented, dropped, used>>
  BY DEF Prepared, Refreshed, Worked, history
<1>3. \A d \in Call \ {c} : job'[d] = job[d]
  BY <1>1, <1>2, WorksMeans
<1>4. CASE Prepared(c)
  <2>1. /\ inFlight' \subseteq inFlight /\ shown' \in {shown, c}
        /\ \A d \in Call \ {c} : prompt'[d] = prompt[d]
    BY <1>1, <1>4 DEF Prepared, AskUser, Ends, TypeOK
  <2>2. Carries
    BY <1>1, <1>2, <1>3, <2>1, OthersCarry
  <2>3. \E what \in {"native", "error"} : GivesUp(c, what) \/ posted' = posted
    BY <1>4 DEF Prepared, AskUser, GivesUp
  <2>4. CASE posted' = posted
    BY <2>2, <2>4, SilenceKeepsMail
  <2>5. ASSUME NEW what \in {"native", "error"}, GivesUp(c, what), posted' # posted
        PROVE  MailInv'
    <3>1. c \in inFlight /\ what \in Reply /\ what \notin {"made", "signed"}
      BY <2>5 DEF GivesUp, Reply
    <3> QED BY <1>2, <2>2, <2>5, <3>1, EndsKeepsMail
  <2> QED BY <2>3, <2>4, <2>5
<1>5. CASE Refreshed(c)
  <2>1. /\ UNCHANGED <<posted, inFlight, shown>>
        /\ \A d \in Call \ {c} : prompt'[d] = prompt[d]
    BY <1>1, <1>5 DEF Refreshed, TypeOK
  <2>2. Carries
    BY <1>1, <1>2, <1>3, <2>1, OthersCarry
  <2> QED BY <2>1, <2>2, SilenceKeepsMail
<1>6. CASE Worked(c)
  <2>1. UNCHANGED <<prompt, shown>> /\ inFlight' \subseteq inFlight
    BY <1>6 DEF Worked, Ends
  <2>2. Carries
    BY <1>1, <1>2, <1>3, <2>1, OthersCarry
  <2> DEFINE what == IF ~job[c].ok THEN "error" ELSE IF IsGet(c) THEN "signed" ELSE "made"
  <2>3. what \in Reply /\ GivesUp(c, what)
    BY <1>6 DEF Worked, GivesUp, Reply
  <2>4. Busy(c, "work") /\ (what \in {"made", "signed"} => used'[c] # None)
    BY <1>1, <1>2, <1>6 DEF Worked, At, Busy, CallInv
  <2> HIDE DEF what
  <2> QED BY <1>2, <2>2, <2>3, <2>4, EndsKeepsMail
<1> QED BY <1>4, <1>5, <1>6

LEMMA UserKeepsMail ==
  ASSUME IInv, NEW c \in Call, User(c) \/ Expire(c) \/ Poll(c)
  PROVE  MailInv'
<1>1. TypeOK /\ CallInv(c)
  BY DEF IInv
<1>2. ASSUME NEW what \in {"native", "error"}, prompt[c] # "none", GivesUp(c, what), Settles(c)
      PROVE  MailInv'
  <2>1. Works(c, NoJob) /\ UNCHANGED <<page, consented, dropped, used>>
    BY <1>2 DEF Settles, history
  <2>2. \A d \in Call \ {c} : job'[d] = job[d] /\ prompt'[d] = prompt[d]
    BY <1>1, <1>2, <2>1, WorksMeans DEF Settles, TypeOK
  <2>3. shown' \in {shown, None} /\ inFlight' \subseteq inFlight
    BY <1>2 DEF Settles, GivesUp, Ends
  <2>4. Carries
    BY <1>2, <2>1, <2>2, <2>3, OthersCarry DEF Untouched
  <2>5. CASE c \in inFlight
    BY <1>2, <2>1, <2>4, <2>5, EndsKeepsMail DEF Reply
  <2>6. CASE c \notin inFlight
    BY <1>2, <2>4, <2>6, SilenceKeepsMail DEF GivesUp
  <2> QED BY <2>5, <2>6
<1>3. CASE Cancel(c) \/ Fallback(c) \/ Expire(c)
  BY <1>1, <1>2, <1>3 DEF Cancel, Fallback, Expire, CallInv
<1>4. CASE OpenVault(c) \/ Poll(c) \/ \E k \in Passkey \cup {None} : Approve(c, k)
  <2>1. /\ prompt[c] # "none" /\ UNCHANGED <<page, posted, inFlight, dropped, used>>
        /\ shown' \in {shown, None} /\ consented' \subseteq consented \cup {c}
    BY <1>4 DEF OpenVault, Poll, Approve, bridge, history
  <2>2. job' = job \/ \E j : Works(c, j)
    BY <1>4 DEF OpenVault, Poll, Approve
  <2>3. \A d \in Call \ {c} : job'[d] = job[d]
    BY <1>1, <2>2, WorksMeans
  <2>4. \A d \in Call \ {c} : prompt'[d] = prompt[d]
    BY <1>1, <1>4 DEF OpenVault, Poll, Approve, TypeOK, bridge
  <2>5. Carries
    BY <2>1, <2>3, <2>4, OthersCarry DEF Untouched
  <2> QED BY <2>1, <2>5, SilenceKeepsMail
<1> QED BY <1>3, <1>4 DEF User

LEMMA EscapeKeepsMail == ASSUME IInv, Escape PROVE MailInv'
<1>1. PICK order \in SetToSeqs(Asking \cap inFlight) :
        posted' = posted \o [i \in DOMAIN order |-> Msg(order[i], "error")]
  BY DEF Escape
<1> DEFINE more == [i \in DOMAIN order |-> Msg(order[i], "error")]
<1>2. /\ more \in Seq(Message)
      /\ \A i \in 1..Len(more) : more[i].what = "error" /\ more[i].call \in inFlight
  BY RefusalsTyped DEF Asking
<1>3. UNCHANGED <<page, used>>
  BY DEF Escape, history
<1>4. \A c \in inFlight : page'[c] # "new"
  BY <1>3 DEF IInv, TypeOK, MailInv, Untouched
<1>5. \A i \in 1..Len(more) : Postable(more[i])
  BY <1>2, <1>3, <1>4, ElementOfSeq DEF Postable
<1>6. ASSUME NEW d \in Call, Untouched(d) PROVE Untouched(d)'
  <2>1. job'[d] = job[d] /\ prompt'[d] = "none" /\ shown' # d
    BY <1>6 DEF Escape, Asking, Untouched, Passkey
  <2> QED BY <1>6, <2>1 DEF Escape, Untouched, history
<1>7. Carries
  BY <1>3, <1>6 DEF Carries, IInv, MailInv
<1> HIDE DEF more
<1> QED BY <1>1, <1>2, <1>5, <1>7, ConcatKeepsMail DEF more

LEMMA SurroundingsKeepMail ==
  ASSUME IInv,
         \/ WorkerStops \/ LockOrUnlock \/ SwitchPasskeys
         \/ \E k \in Passkey : Delete(k) \/ Arrive(k)
  PROVE  MailInv'
<1>1. UNCHANGED <<page, posted, inFlight, prompt, shown, consented, dropped, used>>
  BY DEF WorkerStops, LockOrUnlock, SwitchPasskeys, Delete, Arrive, bridge, history
<1>2. ASSUME NEW d \in Call, Untouched(d) PROVE job'[d].pc = "none"
  BY <1>2 DEF WorkerStops, LockOrUnlock, SwitchPasskeys, Delete, Arrive, Untouched
<1>3. Carries
  BY <1>1, <1>2 DEF Carries, Untouched, IInv, MailInv
<1> QED BY <1>1, <1>3, SilenceKeepsMail

LEMMA WindowKeepsMail ==
  ASSUME IInv, NEW c \in Call, Start(c) \/ Abort(c) \/ Deliver
  PROVE  MailInv'
<1>1. TypeOK /\ (posted # <<>> => 1 \in DOMAIN posted /\ Head(posted) = posted[1]
                                  /\ Head(posted).call \in Call)
  BY HeadTyped DEF IInv, TypeOK
<1>2. CASE Start(c)
  <2>1. /\ posted \in Seq(Message) /\ posted' = Append(posted, Msg(c, "request"))
        /\ Msg(c, "request") \in Message /\ Msg(c, "request").call = c
        /\ Msg(c, "request").what = "request"
    BY <1>1, <1>2 DEF Start, Post, Msg, Message, TypeOK
  <2>2. /\ posted' \in Seq(Message) /\ Len(posted') = Len(posted) + 1 /\ Len(posted) \in Nat
        /\ \A i \in 1..Len(posted) : posted'[i] = posted[i] /\ posted[i].call \in Call \ {c}
        /\ posted'[Len(posted) + 1].call = c
    <3>1. \A i \in 1..Len(posted) : posted[i].call \in Call \ {c}
      BY <1>1, <1>2, MailTyped DEF Start, IInv, MailInv, TypeOK
    <3> QED BY <2>1, <3>1, AppendProperties
  <2>3. /\ UNCHANGED <<inFlight, consented, dropped, job, prompt, shown, used>>
        /\ page[c] = "new" /\ page'[c] = "waiting" /\ \A d \in Call \ {c} : page'[d] = page[d]
    BY <1>1, <1>2 DEF Start, bridge, history, TypeOK
  <2>4. \A d \in Call : Untouched(d) => Untouched(d)'
    BY <2>3 DEF Untouched
  <2>5. \A i \in DOMAIN posted' : \/ i \in DOMAIN posted /\ posted'[i] = posted[i]
                                     /\ posted[i].call \in Call \ {c}
                                  \/ i = Len(posted) + 1 /\ posted'[i] = Msg(c, "request")
    BY <2>1, <2>2, AppendProperties
  <2>6. \A i, j \in DOMAIN posted' :
          posted'[i].what = "request" /\ posted'[j].call = posted'[i].call => i <= j
    BY <2>1, <2>2, <2>5 DEF IInv, MailInv
  <2>7. ASSUME NEW i \in DOMAIN posted'
        PROVE  /\ page'[posted'[i].call] # "new"
               /\ posted'[i].what \in {"made", "signed"} => used'[posted'[i].call] # None
    BY <2>1, <2>3, <2>5 DEF IInv, MailInv
  <2>8. ASSUME NEW i \in DOMAIN posted', NEW d \in Call,
               posted'[i].what = "request" /\ posted'[i].call = d
        PROVE  Untouched(d)'
    BY <2>1, <2>3, <2>4, <2>5, <2>8 DEF IInv, MailInv
  <2>9. \A d \in Call : /\ page'[d] = "new" => Untouched(d)'
                        /\ page'[d] \in {"made", "signed"} => used'[d] # None
    BY <2>3, <2>4 DEF IInv, MailInv
  <2> QED BY <2>6, <2>7, <2>8, <2>9 DEF MailInv
<1>3. CASE Abort(c)
  <2>1. /\ UNCHANGED <<inFlight, consented, dropped, job, prompt, shown, used>>
        /\ page[c] = "waiting" /\ page'[c] = "aborted"
        /\ \A d \in Call \ {c} : page'[d] = page[d]
    BY <1>1, <1>3 DEF Abort, bridge, history, TypeOK
  <2>2. Carries
    BY <2>1 DEF Carries, Untouched, IInv, MailInv
  <2> QED BY <1>3, <2>1, <2>2, PostKeepsMail DEF Abort
<1>4. CASE DeliverReply
  <2>1. UNCHANGED <<inFlight, consented, dropped, job, prompt, shown, used>>
    BY <1>4 DEF DeliverReply, bridge, history
  <2>2. posted # <<>> /\ posted' = Tail(posted) /\ Head(posted).what # "new"
    BY <1>4 DEF DeliverReply, Reply
  <2>3. \A d \in Call : \/ page'[d] = page[d]
                        \/ /\ page[d] = "waiting" /\ d = Head(posted).call
                           /\ page'[d] = Head(posted).what
    BY <1>1, <1>4 DEF DeliverReply, TypeOK
  <2>4. \A d \in Call : page'[d] = "new" <=> page[d] = "new"
    BY <2>2, <2>3
  <2>5. \A d \in Call : page'[d] \in {"made", "signed"} => used[d] # None
    BY <1>1, <2>2, <2>3 DEF IInv, MailInv
  <2> QED BY <2>1, <2>2, <2>4, <2>5, TailKeepsMail DEF Untouched
<1>5. CASE DeliverRequest \/ DeliverAbort
  <2>1. posted # <<>> /\ posted' = Tail(posted) /\ UNCHANGED <<page, used>>
    BY <1>5 DEF DeliverRequest, DeliverAbort, history
  <2> DEFINE h == Head(posted).call
  <2>2. \A d \in Call \ {h} : job'[d] = job[d]
    BY <1>1, <1>5, <2>1, WorksMeans DEF DeliverRequest, DeliverAbort
  <2>3. /\ inFlight' \subseteq inFlight \cup {h} /\ dropped' \subseteq dropped \cup {h}
        /\ UNCHANGED <<prompt, consented>> /\ shown' \in {shown, None}
    BY <1>5 DEF DeliverRequest, DeliverAbort, history
  <2>4. ASSUME NEW d \in Call \ {h}, Untouched(d) PROVE Untouched(d)'
    BY <2>2, <2>3, <2>4 DEF Untouched, Passkey
  <2>5. \A d \in Call : page'[d] \in {"made", "signed"} => used[d] # None
    BY <2>1 DEF IInv, MailInv
  <2> QED BY <2>1, <2>4, <2>5, TailKeepsMail
<1> QED BY <1>2, <1>3, <1>4, <1>5 DEF Deliver

-----------------------------------------------------------------------------
(* The inductive invariant is kept: what is listed, chosen and stored. *)

\* A step that stores and deletes nothing new, and lists only what it knows.
LEMMA SameData ==
  ASSUME NEW d \in Call, DataInv(d), UNCHANGED <<ask, chosen, consented, used, held>>,
         Known \subseteq Known', gone \subseteq gone', blinked \subseteq blinked',
         job'[d].list \subseteq Known', offered'[d] \subseteq Known',
         \/ job'[d].pc # "store"
         \/ job[d].pc = "store"
         \/ ~IsGet(d) /\ (held[d] \subseteq gone' \/ d \in blinked')
  PROVE  DataInv(d)'
  BY DEF DataInv, IsGet

LEMMA ReadKeepsData ==
  ASSUME IInv, NEW c \in Call, NEW d \in Call,
         ReadSettings(c) \/ SeesLock(c) \/ ListAccounts(c) \/ Exclude(c)
  PROVE  DataInv(d)'
<1>0. TypeOK /\ job[c] \in Job /\ DataInv(c) /\ DataInv(d)
  BY DEF IInv, TypeOK
<1>1. /\ UNCHANGED <<ask, chosen, consented, used, held, vault, gone, offered>>
      /\ blinked \subseteq blinked'
  BY DEF ReadSettings, SeesLock, ListAccounts, Exclude, bridge, history
<1>2. Known' = Known
  BY <1>1 DEF Known
<1>3. \E j : Works(c, j)
  BY DEF ReadSettings, SeesLock, ListAccounts, Exclude, Step, Answers
<1>4. CASE d # c
  <2>1. job'[d] = job[d]
    BY <1>0, <1>3, <1>4, WorksMeans
  <2> QED BY <1>0, <1>1, <1>2, <2>1, SameData DEF DataInv
<1>5. CASE ReadSettings(c) /\ d = c
  <2>1. job'[c].list = job[c].list /\ job'[c].pc # "store"
    <3>1. CASE Step(c, "unlocked")
      BY <1>0, <3>1, StepMeans DEF Stage
    <3>2. CASE Answers(c, FALSE)
      BY <1>0, <3>2, AnswersMeans
    <3>3. CASE Works(c, [job[c] EXCEPT !.pc = "unlocked", !.on = enabled])
      <4>1. job'[c] = [job[c] EXCEPT !.pc = "unlocked", !.on = enabled]
        BY <1>0, <3>3, WorksMeans
      <4> QED BY <1>0, <4>1 DEF Job
    <3> QED BY <1>5, <3>1, <3>2, <3>3 DEF ReadSettings
  <2> QED BY <1>0, <1>1, <1>2, <1>5, <2>1, SameData DEF DataInv
<1>6. CASE SeesLock(c) /\ d = c
  <2>1. /\ job'[c].list = job[c].list
        /\ job'[c].pc # "store" \/ (~IsGet(c) /\ ask[c].wants = {})
    <3>1. CASE job[c].task # "work"
      <4>1. job'[c] = [job[c] EXCEPT !.pc = IF open /\ IsGet(c) THEN "list" ELSE "answer",
                                     !.open = open, !.ok = TRUE]
        BY <1>0, <1>6, <3>1, WorksMeans DEF SeesLock
      <4> QED BY <1>0, <4>1 DEF Job
    <3>2. CASE job[c].task = "work" /\ ~open
      BY <1>0, <1>6, <3>2, AnswersMeans DEF SeesLock
    <3>3. CASE job[c].task = "work" /\ open
      BY <1>0, <1>6, <3>3, StepMeans DEF SeesLock, Stage
    <3> QED BY <3>1, <3>2, <3>3
  <2>2. ask[c].wants = {} => held[c] \subseteq gone'
    BY <1>0 DEF DataInv
  <2> QED BY <1>0, <1>1, <1>2, <1>6, <2>1, <2>2, SameData DEF DataInv
<1>7. CASE ListAccounts(c) /\ d = c
  <2>1. job'[c] = [job[c] EXCEPT !.pc = "answer", !.list = Allowed(c, Records)]
    BY <1>0, <1>7, WorksMeans DEF ListAccounts
  <2>2. job'[c].list \subseteq Known /\ job'[c].pc # "store"
    BY <1>0, <2>1, AllowedWithin, RecordsTyped DEF Job, Known
  <2> QED BY <1>0, <1>1, <1>2, <1>7, <2>2, SameData DEF DataInv
<1>8. CASE Exclude(c) /\ d = c
  <2>1. job'[c].list = job[c].list
    BY <1>0, <1>8, StepMeans, AnswersMeans DEF Exclude, Stage
  <2>2. job'[c].pc # "store" \/ ask[c].wants \cap Records = {}
    BY <1>0, <1>8, AnswersMeans DEF Exclude
  <2>3. CASE open /\ ask[c].wants \cap Records = {}
    <3>1. held[c] \subseteq gone' /\ ~IsGet(c)
      BY <1>0, <1>1, <1>8, <2>3 DEF DataInv, Known, Records, Exclude
    <3> QED BY <1>0, <1>1, <1>2, <1>8, <2>1, <3>1, SameData DEF DataInv
  <2>4. CASE ~open
    <3>1. d \in blinked' /\ ~IsGet(c)
      BY <1>8, <2>4 DEF Exclude
    <3> QED BY <1>0, <1>1, <1>2, <1>8, <2>1, <3>1, SameData DEF DataInv
  <2>5. CASE job'[c].pc # "store"
    BY <1>0, <1>1, <1>2, <1>8, <2>1, <2>5, SameData DEF DataInv
  <2> QED BY <2>2, <2>3, <2>4, <2>5
<1> QED BY <1>4, <1>5, <1>6, <1>7, <1>8

LEMMA ActKeepsData ==
  ASSUME IInv, NEW c \in Call, NEW d \in Call,
         Sign(c) \/ StorePasskey(c) \/ Touch(c) \/ SaveTouched(c)
  PROVE  DataInv(d)'
<1>0. /\ TypeOK /\ CallInv(c) /\ DataInv(c) /\ DataInv(d)
      /\ used \in [Call -> Passkey \cup {None}]
  BY DEF IInv, TypeOK
<1>1. /\ UNCHANGED <<ask, chosen, offered, consented, held, gone, blinked>>
      /\ vault \subseteq vault'
  BY DEF Sign, StorePasskey, Touch, SaveTouched, bridge, history
<1>2. Known \subseteq Known'
  BY <1>1 DEF Known
<1>3. /\ job'[c].list = job[c].list /\ job'[c].pc # "store"
      /\ \A e \in Call \ {c} : job'[e] = job[e]
  <2>1. Step(c, "touch") \/ Step(c, "save") \/ Answers(c, FALSE) \/ Answers(c, TRUE)
        \/ Answers(c, open)
    BY DEF Sign, StorePasskey, Touch, SaveTouched
  <2> QED BY <1>0, <2>1, StepMeans, AnswersMeans DEF Stage
<1>4. \A e \in Call \ {c} : used'[e] = used[e]
  BY <1>0 DEF Sign, StorePasskey, Touch, SaveTouched, history
<1>5. CASE d # c
  BY <1>0, <1>1, <1>2, <1>3, <1>4, <1>5 DEF DataInv, IsGet
<1>6. CASE d = c /\ Sign(c)
  <2>1. IsGet(c) /\ c \in consented
    BY <1>0, <1>6 DEF Sign, At, CallInv, Busy
  <2>2. \A k \in Candidates(c) : k \in Known' /\ k # None
                                 /\ (k = chosen[c] \/ chosen[c] \in gone)
    <3>1. Candidates(c) \subseteq vault /\ None \notin vault
      BY <1>0, CandidatesWithin DEF TypeOK, Passkey
    <3>2. ASSUME NEW k \in Candidates(c), k # chosen[c] PROVE chosen[c] \in gone
      <4>1. chosen[c] \notin Records /\ k \in Records
        BY <3>2, AllowedWithin DEF Candidates
      <4> QED BY <1>0, <2>1, <4>1 DEF Records, DataInv, Known
    <3> QED BY <1>1, <3>1, <3>2 DEF Known
  <2>3. used' = used \/ \E k \in Candidates(c) : used' = [used EXCEPT ![c] = k]
    BY <1>6 DEF Sign
  <2>4. used'[c] = used[c] \/ (used'[c] \in Known'
                               /\ (used'[c] = chosen[c] \/ chosen[c] \in gone))
    BY <1>0, <2>2, <2>3
  <2> QED BY <1>0, <1>1, <1>2, <1>3, <1>6, <2>1, <2>4 DEF DataInv, IsGet
<1>7. CASE d = c /\ StorePasskey(c)
  <2>1. ~IsGet(c) /\ (held[c] \subseteq gone \/ c \in blinked)
    BY <1>0, <1>7 DEF StorePasskey, At, DataInv
  <2>2. used'[c] = used[c] \/ (used'[c] = c /\ c \in vault')
    BY <1>0, <1>7 DEF StorePasskey
  <2>3. used'[c] # None => used'[c] \in Known'
    BY <1>0, <1>2, <2>2 DEF Known, DataInv
  <2> QED BY <1>0, <1>1, <1>2, <1>3, <1>7, <2>1, <2>3 DEF DataInv, IsGet
<1>8. CASE d = c /\ (Touch(c) \/ SaveTouched(c))
  <2>1. used' = used
    BY <1>8 DEF Touch, SaveTouched, history
  <2> QED BY <1>0, <1>1, <1>2, <1>3, <1>8, <2>1, SameData DEF DataInv
<1> QED BY <1>5, <1>6, <1>7, <1>8

LEMMA UserKeepsData ==
  ASSUME IInv, NEW c \in Call, NEW d \in Call, User(c) \/ Expire(c) \/ Poll(c)
  PROVE  DataInv(d)'
<1>0. TypeOK /\ DataInv(c) /\ DataInv(d) /\ CallInv(c)
  BY DEF IInv
<1>1. CASE \E k \in Passkey \cup {None} : Approve(c, k)
  <2>1. PICK k \in Passkey \cup {None} : Approve(c, k)
    BY <1>1
  <2>2. c \in inFlight /\ c \notin consented /\ used[c] = None
    BY <1>0, <2>1 DEF Approve, CallInv
  <2>3. /\ UNCHANGED <<ask, offered, vault, used, gone, blinked>>
        /\ \A e \in Call \ {c} : chosen'[e] = chosen[e] /\ held'[e] = held[e]
        /\ consented' = consented \cup {c}
        /\ chosen'[c] = k /\ held'[c] = IF IsGet(c) THEN {} ELSE ask[c].wants \cap vault
        /\ IsGet(c) => k \in offered[c]
    BY <1>0, <2>1, <2>2 DEF Approve, TypeOK
  <2>4. job'[c] = Begin("work") /\ \A e \in Call \ {c} : job'[e] = job[e]
    BY <1>0, <2>1, <2>2, WorksMeans DEF Approve
  <2>5. Known' = Known
    BY <2>3 DEF Known
  <2>6. CASE d = c
    BY <1>0, <2>2, <2>3, <2>4, <2>5, <2>6, JobsMean DEF DataInv, IsGet, Known
  <2>7. CASE d # c
    BY <1>0, <2>3, <2>4, <2>5, <2>7 DEF DataInv, IsGet
  <2> QED BY <2>6, <2>7
<1>2. CASE ~ \E k \in Passkey \cup {None} : Approve(c, k)
  <2>1. UNCHANGED <<ask, offered, chosen, consented, used, held, vault, gone, blinked>>
    BY <1>2 DEF User, Cancel, Fallback, Expire, Settles, OpenVault, Poll, bridge, history
  <2>2. job' = job \/ Works(c, NoJob) \/ Works(c, Begin("refresh"))
    BY <1>2 DEF User, Cancel, Fallback, Expire, Settles, OpenVault, Poll
  <2>3. job'[d] = job[d] \/ job'[d] = NoJob \/ job'[d] = Begin("refresh")
    BY <1>0, <2>2, WorksMeans
  <2>4. Known' = Known
    BY <2>1 DEF Known
  <2> QED BY <1>0, <2>1, <2>3, <2>4, JobsMean, SameData DEF DataInv
<1> QED BY <1>1, <1>2

LEMMA BridgeKeepsData ==
  ASSUME IInv, NEW c \in Call, NEW d \in Call, Prepared(c) \/ Refreshed(c) \/ Worked(c)
  PROVE  DataInv(d)'
<1>0. TypeOK /\ DataInv(c) /\ DataInv(d)
  BY DEF IInv
<1>1. UNCHANGED <<ask, chosen, consented, used, held, vault, gone, blinked>>
  BY DEF Prepared, Refreshed, Worked, history
<1>2. Known' = Known
  BY <1>1 DEF Known
<1>3. job'[d] = job[d] \/ job'[d] = NoJob
  BY <1>0, WorksMeans DEF Prepared, Refreshed, Worked
<1>4. offered' = offered \/ offered' = [offered EXCEPT ![c] = job[c].list]
  BY DEF Prepared, AskUser, Refreshed, Worked
<1>5. offered'[d] = offered[d] \/ offered'[d] \subseteq Known
  BY <1>0, <1>4 DEF TypeOK, DataInv
<1> QED BY <1>0, <1>1, <1>2, <1>3, <1>5, JobsMean, SameData DEF DataInv

LEMMA WindowKeepsData ==
  ASSUME IInv, NEW c \in Call, NEW d \in Call, Start(c) \/ Abort(c) \/ Deliver
  PROVE  DataInv(d)'
<1>0. TypeOK /\ DataInv(d)
  BY DEF IInv
<1>1. UNCHANGED <<ask, offered, chosen, consented, used, held, vault, gone, blinked>>
  BY DEF Start, Abort, Deliver, DeliverReply, DeliverRequest, DeliverAbort, bridge, history
<1>2. Known' = Known
  BY <1>1 DEF Known
<1>3. job' = job \/ (DeliverRequest /\ Works(Head(posted).call, Begin("prepare")))
  BY DEF Start, Abort, Deliver, DeliverReply, DeliverRequest, DeliverAbort
<1>4. job'[d] = job[d] \/ job'[d] = Begin("prepare")
  BY <1>0, <1>3, WorksMeans, HeadTyped DEF DeliverRequest, TypeOK
<1> QED BY <1>0, <1>1, <1>2, <1>4, JobsMean, SameData DEF DataInv

LEMMA SurroundingsKeepData ==
  ASSUME IInv, NEW d \in Call,
         \/ Escape \/ WorkerStops \/ LockOrUnlock \/ SwitchPasskeys
         \/ \E k \in Passkey : Delete(k) \/ Arrive(k)
  PROVE  DataInv(d)'
<1>0. TypeOK /\ DataInv(d) /\ job[d] \in Job
  BY DEF IInv, TypeOK
<1>1. UNCHANGED <<ask, offered, chosen, consented, used, held, blinked>>
  BY DEF Escape, WorkerStops, LockOrUnlock, SwitchPasskeys, Delete, Arrive, bridge, history
<1>2. Known \subseteq Known' /\ gone \subseteq gone'
  BY DEF Escape, WorkerStops, LockOrUnlock, SwitchPasskeys, Delete, Arrive, history, Known
<1>3. \/ job'[d] = job[d] \/ job'[d] = NoJob
      \/ job'[d] = [job[d] EXCEPT !.pc = "answer", !.ok = FALSE]
  BY DEF Escape, WorkerStops, LockOrUnlock, SwitchPasskeys, Delete, Arrive
<1>4. /\ job'[d].list \subseteq job[d].list
      /\ job'[d].pc = "store" => job[d].pc = "store"
  BY <1>0, <1>3, JobsMean DEF Job
<1> QED BY <1>0, <1>1, <1>2, <1>4, SameData DEF DataInv

-----------------------------------------------------------------------------
(* The theorems. *)

LEMMA IInvStep == ASSUME IInv, [Next]_vars PROVE IInv'
<1>0. TypeOK /\ MailInv /\ \A d \in Call : CallInv(d) /\ DataInv(d)
  BY DEF IInv
<1>1. ASSUME NEW c \in Call, Start(c) \/ Abort(c) \/ Deliver PROVE IInv'
  BY <1>0, <1>1, PageTyped, WindowKeepsMail, WindowKeepsCalls, WindowKeepsData DEF IInv
<1>2. CASE Deliver
  <2>1. Call # {}
    BY <1>0, <1>2, HeadTyped DEF Deliver, DeliverReply, DeliverRequest, DeliverAbort, TypeOK
  <2> QED BY <1>1, <1>2, <2>1
<1>3. ASSUME NEW c \in Call, User(c) \/ Expire(c) \/ Poll(c) PROVE IInv'
  BY <1>0, <1>3, UserTyped, UserKeepsMail, UserKeepsCalls, UserKeepsData DEF IInv
<1>4. ASSUME NEW c \in Call, Serve(c) PROVE IInv'
  <2>1. CASE ReadSettings(c) \/ SeesLock(c) \/ ListAccounts(c) \/ Exclude(c)
    BY <1>0, <2>1, ReadTyped, WorkerKeepsMail, ReadKeepsCalls, ReadKeepsData DEF IInv
  <2>2. job[c].pc = "save" => used[c] # None
    BY <1>0 DEF CallInv
  <2>3. CASE Sign(c) \/ StorePasskey(c) \/ Touch(c) \/ SaveTouched(c)
    BY <1>0, <2>2, <2>3, ActTyped, WorkerKeepsMail, ActKeepsCalls, ActKeepsData DEF IInv
  <2>4. CASE Prepared(c) \/ Refreshed(c)
    BY <1>0, <2>4, PreparedTyped, BridgeKeepsMail, BridgeKeepsCalls, BridgeKeepsData DEF IInv
  <2>5. CASE Worked(c)
    BY <1>0, <2>2, <2>5, ActTyped, BridgeKeepsMail, WorkedKeepsCalls, BridgeKeepsData DEF IInv
  <2> QED BY <1>4, <2>1, <2>3, <2>4, <2>5 DEF Serve
<1>5. CASE Escape
  BY <1>0, <1>5, EscapeTyped, EscapeKeepsMail, EscapeKeepsCalls, SurroundingsKeepData DEF IInv
<1>6. CASE WorkerStops
  BY <1>0, <1>6, WorkerStopsTyped, SurroundingsKeepMail, StopKeepsCalls, SurroundingsKeepData
  DEF IInv
<1>7. CASE LockOrUnlock \/ SwitchPasskeys \/ \E k \in Passkey : Delete(k) \/ Arrive(k)
  BY <1>0, <1>7, SurroundingsTyped, SurroundingsKeepMail, SurroundingsKeepCalls,
     SurroundingsKeepData DEF IInv
<1>8. CASE UNCHANGED vars
  <2>1. TypeOK'
    BY <1>0, <1>8, UnchangedTyped
  <2>2. Carries /\ posted' = posted
    BY <1>0, <1>8 DEF Carries, Untouched, MailInv, vars, bridge, surroundings, history
  <2>3. \A d \in Call : CallInv(d)'
    BY <1>0, <1>8 DEF CallInv, Busy, vars, bridge, surroundings, history
  <2>4. \A d \in Call : DataInv(d)'
    BY <1>0, <1>8 DEF DataInv, Known, IsGet, vars, bridge, surroundings, history
  <2> QED BY <2>1, <2>2, <2>3, <2>4, SilenceKeepsMail DEF IInv
<1> QED BY <1>1, <1>2, <1>3, <1>4, <1>5, <1>6, <1>7, <1>8 DEF Next

LEMMA IInvAlways == Spec => []IInv
<1>1. Init => IInv
  BY IInvInit
<1>2. IInv /\ [Next]_vars => IInv'
  BY IInvStep
<1> QED BY <1>1, <1>2, PTL DEF Spec

\* Type correctness: every message, prompt and piece of work keeps its shape.
THEOREM PasskeysTypeCorrect == Spec => []TypeOK
<1>1. IInv => TypeOK
  BY DEF IInv
<1> QED BY <1>1, IInvAlways, PTL

\* The worker signs and stores (performGet, performCreate) only for a ceremony
\* the user approved, with the account chosen there while it exists, however the
\* steps of the ceremonies interleave and whatever the vault does meanwhile.
THEOREM WorkerActsAsApproved == Spec => []ActsAsApproved
<1>1. IInv => ActsAsApproved
  <2>1. ASSUME IInv, NEW c \in Call, used[c] # None
        PROVE  c \in consented /\ (IsGet(c) => used[c] = chosen[c] \/ chosen[c] \in gone)
    BY <2>1 DEF IInv, CallInv, DataInv
  <2> QED BY <2>1 DEF ActsAsApproved
<1> QED BY <1>1, IInvAlways, PTL

\* A ceremony aborted before the approval leaves no trace: inFlight is what the
\* bridge looks at after each of its waits (handleCeremony).
THEOREM AbortedIsInert == Spec => []AbortedDoesNothing
<1>1. IInv => AbortedDoesNothing
  BY DEF IInv, CallInv, AbortedDoesNothing, TypeOK
<1> QED BY <1>1, IInvAlways, PTL

\* The user is never asked about a ceremony that is over (requestConsent and
\* dismissConsent, the module-wide prompt of consent.ts).
THEOREM NobodyIsAskedInVain == Spec => []PromptIsLive
<1>1. IInv => PromptIsLive
  BY DEF IInv, CallInv, PromptIsLive, TypeOK
<1> QED BY <1>1, IInvAlways, PTL

\* Success as the page is told it is success in the vault.
THEOREM PageIsToldTheTruth == Spec => []SuccessIsReal
<1>1. IInv => SuccessIsReal
  BY DEF IInv, MailInv, DataInv, Known, SuccessIsReal
<1> QED BY <1>1, IInvAlways, PTL

\* performCreate makes no second passkey where the site excluded the first, save
\* for the moment in which the vault had locked while it looked.
THEOREM RegistrationHonoursExclusion == Spec => []ExcludedIsRefused
<1>1. IInv => ExcludedIsRefused
  BY DEF IInv, DataInv, ExcludedIsRefused
<1> QED BY <1>1, IInvAlways, PTL
=============================================================================
