--------------------------- MODULE PageSave_proofs ---------------------------
(***************************************************************************)
(* What holds of the save prompt for any number of tabs, frames, logins,   *)
(* hosts and submissions, and under any haste.                             *)
(***************************************************************************)
EXTENDS PageSave, SequenceTheorems, FiniteSetTheorems, TLAPS

(***************************************************************************)
(* Hosts                                                                   *)
(***************************************************************************)
Host == Seq(STRING) \ {<<>>}

LEMMA LastOfHost ==
  ASSUME NEW h \in Host, NEW n \in 1..Len(h), NEW d, d = Last(h, n)
  PROVE  d \in Host /\ Len(d) <= Len(h)
<1>1. Len(h) - n + 1 \in 1..Len(h) /\ Len(h) \in Nat /\ n <= Len(h)
  BY LenProperties DEF Host
<1>2. \A i \in (Len(h) - n + 1)..Len(h) : h[i] \in STRING
  BY <1>1, ElementOfSeq DEF Host
<1>3. Last(h, n) \in Seq(STRING) /\ Len(Last(h, n)) = n
  BY <1>1, <1>2, SubSeqProperties DEF Last, Host
<1>4. d \in Host
  BY <1>3, EmptySeq DEF Host
<1>5. Len(d) = n
  BY <1>3
<1> QED BY <1>1, <1>4, <1>5

LEMMA GetHostOfHost ==
  ASSUME NEW h \in Host
  PROVE  GetHost(h) \in Host /\ Len(GetHost(h)) <= Len(h)
<1>1. Len(h) \in Nat \ {0}
  BY EmptySeq DEF Host
<1>2. CASE Len(h) > 1 /\ h[1] = "www"
  <2>1. Tail(h) \in Seq(STRING) /\ Len(Tail(h)) = Len(h) - 1
    BY HeadTailProperties DEF Host
  <2>2. Len(<<>>) = 0
    BY EmptySeq
  <2>3. GetHost(h) = Tail(h)
    BY <1>2 DEF GetHost
  <2>4. Tail(h) # <<>>
    BY <1>1, <1>2, <2>1, <2>2
  <2> QED BY <1>1, <2>1, <2>3, <2>4 DEF Host
<1>3. CASE ~(Len(h) > 1 /\ h[1] = "www")
  BY <1>1, <1>3 DEF GetHost
<1> QED BY <1>2, <1>3

\* A registrable domain is no longer than the host it was taken from.
LEMMA RegistrableIsShorter ==
  ASSUME NEW input, NEW h \in Host, h = GetHost(input)
  PROVE  RegistrableDomain(input) \in Host /\ Len(RegistrableDomain(input)) <= Len(h)
<1>1. Len(h) \in Nat \ {0}
  BY EmptySeq DEF Host
<1>2. CASE h \in Address
  BY <1>1, <1>2 DEF RegistrableDomain
<1>3. CASE h \notin Address /\ UnderShared(h, 3)
  <2>1. 4 \in 1..Len(h)
    BY <1>1, <1>3 DEF UnderShared
  <2>2. RegistrableDomain(input) = Last(h, 4)
    BY <1>3 DEF RegistrableDomain
  <2> QED BY <2>1, <2>2, LastOfHost
<1>4. CASE h \notin Address /\ ~UnderShared(h, 3) /\ UnderShared(h, 2)
  <2>1. 3 \in 1..Len(h)
    BY <1>1, <1>4 DEF UnderShared
  <2>2. RegistrableDomain(input) = Last(h, 3)
    BY <1>4 DEF RegistrableDomain
  <2> QED BY <2>1, <2>2, LastOfHost
<1>5. CASE h \notin Address /\ ~UnderShared(h, 3) /\ ~UnderShared(h, 2)
  <2>1. RegistrableDomain(input) = IF Len(h) <= 2 THEN h
          ELSE IF Last(h, 2) \in MultiLabel THEN Last(h, 3) ELSE Last(h, 2)
    BY <1>5 DEF RegistrableDomain
  <2>2. CASE Len(h) <= 2
    BY <1>1, <2>1, <2>2
  <2>3. CASE ~(Len(h) <= 2)
    <3>1. 2 \in 1..Len(h) /\ 3 \in 1..Len(h)
      BY <1>1, <2>3
    <3>2. RegistrableDomain(input) \in {Last(h, 3), Last(h, 2)}
      BY <2>1, <2>3
    <3> QED BY <3>1, <3>2, LastOfHost
  <2> QED BY <2>2, <2>3
<1> QED BY <1>2, <1>3, <1>4, <1>5

LEMMA ExactIsSame ==
  ASSUME NEW h, NEW k
  PROVE  MatchStrength(h, k) = Exact <=> SameHost(h, k)
  BY DEF MatchStrength, Exact, Parent, NoMatch, SameHost

LEMMA MatchIsBelow ==
  ASSUME NEW h, NEW k, MatchStrength(h, k) # NoMatch, ~SameHost(h, k)
  PROVE  Len(GetHost(k)) > Len(GetHost(h))
  BY DEF MatchStrength, Exact, Parent, NoMatch, SameHost, Below

\* A login that has its host in the metadata is of the save's own host by that
\* one; an older one is by its URL or its domain.
Fitting(login, save) ==
  IF login.host # None THEN SameHost(login.host, save.site)
  ELSE \E h \in {login.url, login.domain} : SameHost(h, save.site)

\* The login found for a save: looser as the test of any of the three hosts
\* reads, where the metadata names a host it is that one that matches exactly.
LEMMA BelongsIsFitting ==
  ASSUME NEW l \in Login, vault[l] \in Record, Coherent(vault[l]), NEW save \in Save,
         Belongs(l, save)
  PROVE  Fitting(vault[l], save) /\ vault[l].user = save.user
<1> DEFINE login == vault[l]
<1>1. /\ login.url \in Site /\ save.site \in Site
      /\ login.host \in {None, GetHost(login.url)}
      /\ login.domain \in {RegistrableDomain(login.url), GetHost(login.url)}
  BY DEF Record, Save, Coherent
<1>2. PICK h \in {login.host, login.domain, login.url} \ {None} : SameHost(h, save.site)
  BY ExactIsSame DEF Belongs
<1>3. login.user = save.user
  BY DEF Belongs
<1>4. CASE login.host = None
  BY <1>2, <1>3, <1>4 DEF Fitting
<1>5. CASE login.host # None
  <2>1. login.host = GetHost(login.url) /\ MatchStrength(login.host, save.site) # NoMatch
    BY <1>1, <1>5 DEF Belongs, Key
  <2>2. GetHost(login.host) = login.host
    BY <1>1, <2>1, SiteAssumption
  <2>3. CASE h = login.host
    BY <1>2, <1>3, <1>5, <2>3 DEF Fitting
  <2>4. CASE h = login.url
    BY <1>2, <1>3, <1>5, <2>1, <2>2, <2>4 DEF Fitting, SameHost
  <2>6. CASE h = login.domain /\ login.domain = GetHost(login.url)
    BY <1>2, <1>3, <1>5, <2>1, <2>6 DEF Fitting
  <2>5. CASE h = login.domain /\ login.domain = RegistrableDomain(login.url)
    <3>1. login.url \in Host
      BY <1>1, SiteAssumption DEF Host
    <3>2. login.host \in Host
      BY <2>1, <3>1, GetHostOfHost
    <3>7. login.domain \in Host /\ Len(login.domain) <= Len(login.host)
      BY <2>1, <2>5, <3>2, RegistrableIsShorter
    <3>3. Len(GetHost(save.site)) <= Len(login.domain)
      BY <1>2, <2>5, <3>7, GetHostOfHost DEF SameHost
    <3>4. SameHost(login.host, save.site) \/ Len(GetHost(save.site)) > Len(GetHost(login.host))
      BY <2>1, MatchIsBelow
    <3>5. GetHost(save.site) \in Host
      BY <1>1, SiteAssumption, GetHostOfHost DEF Host
    <3>6. Len(login.host) \in Nat /\ Len(login.domain) \in Nat /\ Len(GetHost(save.site)) \in Nat
      BY <3>2, <3>5, <3>7, LenProperties DEF Host
    <3> QED BY <1>3, <1>5, <2>2, <3>3, <3>4, <3>6, <3>7 DEF Fitting
  <2> QED BY <1>1, <1>2, <2>3, <2>4, <2>5, <2>6
<1> QED BY <1>4, <1>5

(***************************************************************************)
(* Types                                                                   *)
(***************************************************************************)
\* What is about to be written is a table.
QueueShape == \A q \in queue : q.stage = "write" => q.copy \in Table

Typing == TypeOK /\ QueueShape

LEMMA NoneIsNothing ==
  /\ None \notin Login /\ None \notin Typed /\ None \notin Site /\ None \notin Save
  /\ None \notin Table /\ None \notin Record /\ None \notin 1..MaxSubs /\ Gone \notin Record
  BY PageSaveAssumption

LEMMA PendingIsTable ==
  ASSUME TypeOK
  PROVE  ReadPendingSaves \in Table
  BY DEF TypeOK, ReadPendingSaves, Table

LEMMA SentIsQueueing ==
  ASSUME TypeOK, NEW f \in Frame, NEW c \in Typed, count < MaxSubs
  PROVE  Sent(f, c) \in Queueing /\ count + 1 \in 1..MaxSubs /\ Sent(f, c).stage = "decide"
<1>1. count + 1 \in 1..MaxSubs
  BY PageSaveAssumption DEF TypeOK
<1>2. page[f].site \in Site /\ page[f].load \in 0..MaxLoads
  BY DEF TypeOK, Document
<1>3. c.user \in Name /\ c.pass \in Pass
  BY PageSaveAssumption
<1>4. [site |-> page[f].site, user |-> c.user, pass |-> c.pass, item |-> None, n |-> count + 1] \in Save
  BY <1>1, <1>2, <1>3 DEF Save
<1> QED BY <1>1, <1>2, <1>4 DEF Sent, Queueing

LEMMA HideTypes ==
  ASSUME Typing, NEW f \in Frame, NEW typed \in Typed \cup {None}, Hide(f, typed)
  PROVE  /\ queue' \subseteq Queueing /\ count' \in 0..MaxSubs
         /\ \A q \in queue' : q.stage = "write" => q.copy \in Table
<1>1. CASE typed = None \/ typed = page[f].queued \/ ~Ready(f)
  BY <1>1 DEF Hide, Typing, TypeOK, QueueShape
<1>2. CASE ~(typed = None \/ typed = page[f].queued \/ ~Ready(f))
  <2>1. count < MaxSubs /\ queue' = queue \cup {Sent(f, typed)} /\ count' = count + 1
    BY <1>2 DEF Hide
  <2>2. Sent(f, typed) \in Queueing /\ count + 1 \in 1..MaxSubs /\ Sent(f, typed).stage = "decide"
    BY <1>2, <2>1, SentIsQueueing DEF Typing
  <2> QED BY <2>1, <2>2 DEF Typing, TypeOK, QueueShape
<1> QED BY <1>1, <1>2

LEMMA PromptedTypes ==
  ASSUME TypeOK, NEW f \in Frame, NEW load, NEW save \in Save, Prompted(f, load, save)
  PROVE  page' \in [Frame -> Document]
  BY DEF TypeOK, Document, Prompted

LEMMA PageTypes ==
  ASSUME Typing, PageStep
  PROVE  Typing'
<1> USE DEF Typing
<1>1. ASSUME NEW f \in Frame, NEW c \in Typed, Submit(f, c) PROVE Typing'
  <2>1. Sent(f, c) \in Queueing /\ count + 1 \in 1..MaxSubs /\ Sent(f, c).stage = "decide"
    BY <1>1, SentIsQueueing DEF Submit
  <2>2. page' \in [Frame -> Document]
    BY <1>1 DEF Submit, TypeOK, Document
  <2> QED BY <1>1, <2>1, <2>2 DEF Submit, TypeOK, QueueShape, history
<1>2. ASSUME NEW f \in Frame, NEW c \in Typed \cup {None}, Leave(f, c) PROVE Typing'
  <2>1. /\ queue' \subseteq Queueing /\ count' \in 0..MaxSubs
        /\ \A q \in queue' : q.stage = "write" => q.copy \in Table
    BY <1>2, HideTypes DEF Leave
  <2>4. page \in [Frame -> Document] /\ page[f] \in Document
    BY DEF TypeOK
  <2>5. PICK d : /\ d = [page[f] EXCEPT !.open = FALSE, !.queued = None, !.prompt = None]
                 /\ page' = [page EXCEPT ![f] = d]
    BY <1>2, <2>4 DEF Leave
  <2>6. d \in Document
    BY <2>4, <2>5 DEF Document
  <2>3. page' \in [Frame -> Document]
    BY <2>4, <2>5, <2>6
  <2> QED BY <1>2, <2>1, <2>3 DEF Leave, TypeOK, QueueShape, history
<1>9. ASSUME NEW f \in Frame, NEW s \in Shown[f], Load(f, s) PROVE Typing'
  <2>1. Shown \in [Frame -> SUBSET Site] /\ MaxLoads \in Nat
    BY PageSaveAssumption
  <2>7. s \in Site
    BY <2>1
  <2>8. page[f].load \in 0..MaxLoads /\ page[f].load < MaxLoads
    BY <1>9 DEF Load, TypeOK, Document
  <2>2. page[f].load + 1 \in 0..MaxLoads /\ s \in Site
    BY <2>1, <2>7, <2>8
  <2>4. page \in [Frame -> Document] /\ page[f] \in Document
    BY DEF TypeOK
  <2>5. PICK d : /\ d = [page[f] EXCEPT !.open = TRUE, !.site = s, !.load = page[f].load + 1,
                                        !.asked = FALSE]
                 /\ page' = [page EXCEPT ![f] = d]
    BY <1>9, <2>4 DEF Load
  <2>6. d \in Document
    BY <2>2, <2>4, <2>5 DEF Document
  <2>3. page' \in [Frame -> Document]
    BY <2>4, <2>5, <2>6
  <2> QED BY <1>9, <2>3 DEF Load, TypeOK, QueueShape, history
<1>3. ASSUME NEW f \in Frame, AskHeld(f) PROVE Typing'
  <2>4. page \in [Frame -> Document] /\ page[f] \in Document
    BY DEF TypeOK
  <2>5. PICK d : d = [page[f] EXCEPT !.asked = TRUE]
    OBVIOUS
  <2>6. d \in Document
    BY <2>4, <2>5 DEF Document
  <2>7. page' = [page EXCEPT ![f] = d]
    BY <1>3, <2>4, <2>5 DEF AskHeld, Document
  <2>1. page' \in [Frame -> Document] /\ page[f].load \in 0..MaxLoads
    BY <2>4, <2>6, <2>7 DEF Document
  <2>2. ReadPendingSaves[TabOf[f]] \in Save \cup {None}
    BY PendingIsTable, FrameAssumption DEF Table
  <2>3. told' \subseteq Telling
    BY <1>3, <2>1, <2>2 DEF AskHeld, TypeOK, Telling
  <2> QED BY <1>3, <2>1, <2>3 DEF AskHeld, TypeOK, QueueShape, history
<1>4. ASSUME NEW f \in Frame, Answered(f)
      PROVE  /\ page' \in [Frame -> Document] /\ answered' \subseteq 1..MaxSubs
             /\ due' \in [Tab -> 1..MaxSubs \cup {None}] /\ page[f].prompt \in Save
             /\ Clearing(TabOf[f]) \in Clearance
  <2>1. page[f].prompt \in Save /\ page[f].prompt.n \in 1..MaxSubs
    BY <1>4 DEF Answered, TypeOK, Document, Save
  <2>2. page' \in [Frame -> Document]
    BY <1>4 DEF Answered, TypeOK, Document
  <2>3. answered' \subseteq 1..MaxSubs /\ due' \in [Tab -> 1..MaxSubs \cup {None}]
    BY <1>4, <2>1 DEF Answered, TypeOK
  <2>4. Clearing(TabOf[f]) \in Clearance
    BY PendingIsTable, FrameAssumption DEF Clearing, Clearance
  <2> QED BY <2>1, <2>2, <2>3, <2>4
<1>5. ASSUME NEW f \in Frame, Confirm(f) PROVE Typing'
  <2>1. [save |-> page[f].prompt, login |-> None] \in Saving
    BY <1>4, <1>5 DEF Confirm, Saving
  <2>2. crowded' \in BOOLEAN
    BY <1>5 DEF Confirm, Crowd, TypeOK
  <2> QED BY <1>4, <1>5, <2>1, <2>2 DEF Confirm, TypeOK, QueueShape
<1>6. ASSUME NEW f \in Frame, Dismiss(f) PROVE Typing'
  BY <1>4, <1>6 DEF Dismiss, TypeOK, QueueShape
<1>7. ASSUME NEW t \in Tab, CloseTab(t) PROVE Typing'
  <2>3. Clearing(t) \in Clearance
    BY PendingIsTable DEF Clearing, Clearance
  <2>4. due' \in [Tab -> 1..MaxSubs \cup {None}] /\ closed' \subseteq Tab
    BY <1>7 DEF CloseTab, TypeOK
  <2> QED BY <1>7, <2>3, <2>4 DEF CloseTab, TypeOK, QueueShape
<1>8. ASSUME NEW a \in told, HeldShown(a) PROVE Typing'
  <2>1. a \in Telling
    BY DEF TypeOK
  <2>2. a.frame \in Frame /\ a.save \in Save
    BY <2>1 DEF Telling
  <2>3. page' \in [Frame -> Document]
    BY <1>8, <2>2, PromptedTypes DEF HeldShown
  <2> QED BY <1>8, <2>3 DEF HeldShown, TypeOK, QueueShape, history
<1> QED BY <1>1, <1>2, <1>3, <1>5, <1>6, <1>7, <1>8, <1>9 DEF PageStep

LEMMA WorkerTypes ==
  ASSUME Typing, WorkerStep
  PROVE  Typing'
<1> USE DEF Typing
<1>1. ASSUME NEW q \in queue, NEW d \in Login \cup {None, "locked", "same"}, Decide(q, d)
      PROVE  Typing'
  <2>1. q \in Queueing /\ TabOf[q.frame] \in Tab /\ q.save \in Save /\ q.save.n \in 1..MaxSubs
    BY FrameAssumption DEF TypeOK, Queueing, Save
  <2>2. CASE Actionable(d)
    <3>1. d \in Login \cup {None}
      BY <2>2 DEF Actionable
    <3>2. [q.save EXCEPT !.item = d] \in Save
      BY <2>1, <3>1 DEF Save
    <3>3. PICK e : /\ e = [q EXCEPT !.stage = "write", !.save.item = d, !.copy = ReadPendingSaves]
                   /\ queue' = (queue \ {q}) \cup {e}
      BY <1>1, <2>2 DEF Decide
    <3>4. e.copy = ReadPendingSaves /\ e \in Queueing
      BY <2>1, <3>2, <3>3, PendingIsTable DEF Queueing
    <3>5. due' \in [Tab -> 1..MaxSubs \cup {None}]
      BY <1>1, <2>1, <2>2 DEF Decide, TypeOK
    <3> QED BY <1>1, <3>3, <3>4, <3>5, PendingIsTable DEF Decide, TypeOK, QueueShape
  <2>3. CASE ~Actionable(d)
    BY <1>1, <2>3 DEF Decide, TypeOK, QueueShape
  <2> QED BY <2>2, <2>3
<1>2. ASSUME NEW q \in queue, WritePending(q) PROVE Typing'
  <2>1. q \in Queueing /\ TabOf[q.frame] \in Tab /\ q.save \in Save /\ q.copy \in Table
    BY <1>2, FrameAssumption DEF WritePending, TypeOK, Queueing, QueueShape
  <2>2. table' \in Table
    BY <1>2, <2>1 DEF WritePending, Table
  <2>3. PICK e : /\ e = [q EXCEPT !.stage = "reply", !.copy = None]
                 /\ queue' = (queue \ {q}) \cup {e}
    BY <1>2 DEF WritePending
  <2>4. e \in Queueing /\ e.stage = "reply"
    BY <2>1, <2>3 DEF Queueing
  <2> QED BY <1>2, <2>2, <2>3, <2>4 DEF WritePending, TypeOK, QueueShape, history
<1>3. ASSUME NEW q \in queue, Reply(q) PROVE Typing'
  <2>1. q.frame \in Frame /\ q.save \in Save
    BY DEF TypeOK, Queueing
  <2>2. page' \in [Frame -> Document]
    BY <1>3, <2>1, PromptedTypes DEF Reply
  <2> QED BY <1>3, <2>2 DEF Reply, TypeOK, QueueShape, history
<1>4. ASSUME NEW j \in clears, ClearPending(j) PROVE Typing'
  <2>1. table' \in Table
    BY <1>4 DEF ClearPending, TypeOK, Clearance, Table
  <2> QED BY <1>4, <2>1 DEF ClearPending, TypeOK, QueueShape, history
<1>5. ASSUME NEW j \in saves, SaveFind(j) PROVE Typing'
  <2>1. j \in Saving /\ j.save \in Save /\ j.save.item \in Login
    BY <1>5 DEF SaveFind, TypeOK, Saving, Save
  <2>2. CASE unlocked /\ j.save.item \in Stored
    <3>1. vault[j.save.item] \in Record
      BY <2>1, <2>2 DEF Stored, TypeOK
    <3>2. [j EXCEPT !.login = vault[j.save.item]] \in Saving
      BY <2>1, <3>1 DEF Saving
    <3> QED BY <1>5, <2>2, <3>2 DEF SaveFind, TypeOK, QueueShape, history
  <2>3. CASE ~(unlocked /\ j.save.item \in Stored)
    BY <1>5, <2>3 DEF SaveFind, TypeOK, QueueShape, history
  <2> QED BY <2>2, <2>3
<1>6. ASSUME NEW j \in saves, SaveUpdate(j) PROVE Typing'
  <2>1. j.login \in Record /\ j.save.pass \in Pass
    BY <1>6 DEF SaveUpdate, TypeOK, Saving, Save
  <2>4. GetHost(j.login.url) \in Site
    BY <2>1, SiteAssumption DEF Record
  <2>2. [j.login EXCEPT !.host = GetHost(j.login.url), !.pass = j.save.pass] \in Record
    BY <2>1, <2>4 DEF Record
  <2>3. vault' \in [Login -> Record \cup {None, Gone}]
    BY <1>6, <2>2 DEF SaveUpdate, TypeOK
  <2> QED BY <1>6, <2>3 DEF SaveUpdate, TypeOK, QueueShape, history
<1>7. ASSUME NEW j \in saves, NEW l \in Login, SaveCreate(j, l) PROVE Typing'
  <2>1. j.save \in Save /\ j.save.site \in Site
    BY DEF TypeOK, Saving, Save
  <2>2. [host |-> GetHost(j.save.site), domain |-> RegistrableDomain(j.save.site),
         url |-> j.save.site, user |-> j.save.user, pass |-> j.save.pass] \in Record
    BY <2>1, SiteAssumption DEF Record, Save
  <2>3. vault' \in [Login -> Record \cup {None, Gone}]
    BY <1>7, <2>2 DEF SaveCreate, TypeOK
  <2> QED BY <1>7, <2>3 DEF SaveCreate, TypeOK, QueueShape, history
<1> QED BY <1>1, <1>2, <1>3, <1>4, <1>5, <1>6, <1>7 DEF WorkerStep

LEMMA OtherTypes ==
  ASSUME Typing, Next, ~PageStep, ~WorkerStep
  PROVE  Typing'
<1> USE DEF Typing
<1>1. CASE ToggleLock
  BY <1>1 DEF ToggleLock, TypeOK, QueueShape, history
<1>2. CASE Evict
  BY <1>2 DEF Evict, TypeOK, QueueShape, history
<1>3. ASSUME NEW n \in 1..MaxSubs, Expire(n) PROVE Typing'
  <2>1. due' \in [Tab -> 1..MaxSubs \cup {None}]
    BY <1>3 DEF Expire, TypeOK
  <2> QED BY <1>3, <2>1 DEF Expire, TypeOK, QueueShape
<1>4. ASSUME NEW l \in Login, DeleteLogin(l) PROVE Typing'
  BY <1>4 DEF DeleteLogin, TypeOK, QueueShape, history
<1>5. ASSUME NEW e \in Edits, Edit(e) PROVE Typing'
  <2>1. e.login \in Login /\ e.user \in Name /\ e.url \in Site /\ GetHost(e.url) \in Site
    BY PageSaveAssumption, SiteAssumption
  <2>2. vault[e.login] \in Record
    BY <1>5, <2>1 DEF Edit, Stored, TypeOK
  <2>3. [vault[e.login] EXCEPT !.host = GetHost(e.url), !.domain = GetHost(e.url),
                               !.url = e.url, !.user = e.user] \in Record
    BY <2>1, <2>2 DEF Record
  <2>4. vault' \in [Login -> Record \cup {None, Gone}]
    BY <1>5, <2>1, <2>3 DEF Edit, TypeOK
  <2> QED BY <1>5, <2>1, <2>4 DEF Edit, TypeOK, QueueShape
<1> QED BY <1>1, <1>2, <1>3, <1>4, <1>5 DEF Next

LEMMA InitTypes ==
  ASSUME Init
  PROVE  Typing
<1>1. vault \in [Login -> Record \cup {None, Gone}] /\ haste \subseteq Haste
  BY PageSaveAssumption DEF Init
<1>4. ASSUME NEW s \in Site, NEW b \in BOOLEAN
      PROVE  [open |-> b, site |-> s, load |-> 0, asked |-> TRUE,
              queued |-> None, prompt |-> None] \in Document
  <2>1. 0 \in 0..MaxLoads
    BY PageSaveAssumption
  <2> QED BY <2>1 DEF Document
<1>2. page \in [Frame -> Document]
  <2>1. PICK s \in [Tab -> Site] :
          page = [f \in Frame |-> [open |-> f = Top[TabOf[f]], site |-> s[TabOf[f]], load |-> 0,
                                   asked |-> TRUE, queued |-> None, prompt |-> None]]
    BY DEF Init
  <2>2. \A f \in Frame : s[TabOf[f]] \in Site /\ (f = Top[TabOf[f]]) \in BOOLEAN
    BY FrameAssumption
  <2> QED BY <1>4, <2>1, <2>2
<1>3. count \in 0..MaxSubs
  BY PageSaveAssumption DEF Init
<1> QED BY <1>1, <1>2, <1>3 DEF Init, Typing, TypeOK, QueueShape, Table

LEMMA TypingKept ==
  ASSUME Typing, [Next]_vars
  PROVE  Typing'
<1>1. CASE UNCHANGED vars
  BY <1>1 DEF vars, Typing, TypeOK, QueueShape
<1> QED BY <1>1, PageTypes, WorkerTypes, OtherTypes

LEMMA AlwaysTyped == Spec => []Typing
BY InitTypes, TypingKept, PTL DEF Spec

\* Every part of the save prompt keeps its shape: the pages, what the worker
\* handles, the table of pending saves and the vault.
THEOREM PageSaveTypeCorrect == Spec => []TypeOK
<1>1. Typing => TypeOK
  BY DEF Typing
<1> QED BY <1>1, AlwaysTyped, PTL

(***************************************************************************)
(* Whose password a save replaces                                          *)
(***************************************************************************)
InTable(T, s) == \E t \in Tab : T[t] = s

\* Where a submission may be on its way from the form to the vault.
Held(s) ==
  \/ \E q \in queue : q.save = s \/ (q.stage = "write" /\ InTable(q.copy, s))
  \/ \E j \in clears : InTable(j.copy, s)
  \/ \E a \in told : a.save = s
  \/ \E j \in saves : j.save = s
  \/ \E f \in Frame : page[f].prompt = s
  \/ InTable(table, s)

\* One login at two times: saves from pages give it its URL as the host.
Kin(old, new, l, r) ==
  \/ l \in r
  \/ /\ new.domain = old.domain /\ new.url = old.url /\ new.user = old.user
     /\ new.host \in {old.host, GetHost(old.url)}

\* One of the login's hosts is the one a save is for, and so is its identifier.
IsFor(login, save) ==
  /\ \E h \in {login.host, login.domain, login.url} \ {None} : SameHost(h, save.site)
  /\ login.user = save.user

\* The item of a submission, as long as it is there, is a login it may update.
Fits(s) ==
  s.item \in Login =>
    /\ vault[s.item] # None
    /\ vault[s.item] \in Record => s.item \in edited \/ IsFor(vault[s.item], s)

\* What a save has opened is the login as it was.
CopyFits(j) ==
  j.login # None =>
    /\ j.save.item \in Login /\ vault[j.save.item] # None /\ Coherent(j.login)
    /\ vault[j.save.item] \in Record => Kin(j.login, vault[j.save.item], j.save.item, edited)

MatchInv ==
  /\ \A l \in Login : vault[l] \in Record => Coherent(vault[l])
  /\ \A s \in Save : Held(s) => Fits(s)
  /\ \A j \in saves : CopyFits(j)

LEMMA StoredIsRecord ==
  ASSUME TypeOK
  PROVE  \A l \in Login : l \in Stored <=> vault[l] \in Record
BY NoneIsNothing DEF TypeOK, Stored

\* What a login's record may become in a step.
VaultStep ==
  /\ edited \subseteq edited'
  /\ \A l \in Login :
       /\ vault[l] # None => vault'[l] # None
       /\ vault[l] # None /\ vault'[l] \in Record =>
            vault[l] \in Record /\ Kin(vault[l], vault'[l], l, edited')
       /\ vault'[l] \in Record => Coherent(vault'[l])

LEMMA KinOfItself ==
  ASSUME NEW login, NEW l, NEW r
  PROVE  Kin(login, login, l, r)
BY DEF Kin

LEMMA OneLogin ==
  ASSUME Typing, MatchInv, NEW k \in Login, NEW new, vault' = [vault EXCEPT ![k] = new],
         edited \subseteq edited',
         vault[k] # None => new # None,
         vault[k] # None /\ new \in Record => vault[k] \in Record /\ Kin(vault[k], new, k, edited'),
         new \in Record => Coherent(new)
  PROVE  VaultStep
<1>1. vault \in [Login -> Record \cup {None, Gone}]
  BY DEF Typing, TypeOK
<1>2. vault'[k] = new
  BY <1>1
<1>3. ASSUME NEW l \in Login, l # k PROVE vault'[l] = vault[l]
  BY <1>1, <1>3
<1>4. ASSUME NEW l \in Login
      PROVE  /\ vault[l] # None => vault'[l] # None
             /\ vault[l] # None /\ vault'[l] \in Record =>
                  vault[l] \in Record /\ Kin(vault[l], vault'[l], l, edited')
             /\ vault'[l] \in Record => Coherent(vault'[l])
  <2>1. CASE l = k
    BY <1>2, <2>1
  <2>2. CASE l # k
    BY <1>3, <2>2, KinOfItself, NoneIsNothing DEF MatchInv
  <2> QED BY <2>1, <2>2
<1> QED BY <1>4 DEF VaultStep

LEMMA VaultSteps ==
  ASSUME Typing, MatchInv, [Next]_vars
  PROVE  VaultStep
<1>1. CASE vault' = vault /\ edited' = edited
  <2>1. \A l \in Login : vault'[l] = vault[l] /\ Kin(vault[l], vault[l], l, edited')
    BY <1>1, KinOfItself
  <2> QED BY <1>1, <2>1, NoneIsNothing DEF VaultStep, MatchInv
<1>2. ASSUME NEW j \in saves, SaveUpdate(j) PROVE VaultStep
  <2>1. edited' = edited
    BY <1>2 DEF SaveUpdate, history
  <2>2. CASE unlocked /\ j.save.item \in Stored
    <3>1. j.save.item \in Login /\ vault[j.save.item] \in Record
      BY <2>2, StoredIsRecord DEF Stored, Typing
    <3>2. Coherent(j.login) /\ Kin(j.login, vault[j.save.item], j.save.item, edited)
      BY <1>2, <3>1 DEF SaveUpdate, MatchInv, CopyFits
    <3>3. j.login \in Record
      BY <1>2 DEF SaveUpdate, Typing, TypeOK, Saving
    <3>4. PICK new : /\ new = [j.login EXCEPT !.host = GetHost(j.login.url), !.pass = j.save.pass]
                     /\ vault' = [vault EXCEPT ![j.save.item] = new]
      BY <1>2, <2>2 DEF SaveUpdate
    <3>5. /\ new.host = GetHost(j.login.url) /\ new.domain = j.login.domain
          /\ new.url = j.login.url /\ new.user = j.login.user
      BY <3>3, <3>4 DEF Record
    <3>6. Kin(vault[j.save.item], new, j.save.item, edited)
      BY <3>2, <3>5 DEF Kin
    <3>7. Coherent(new)
      BY <3>2, <3>5 DEF Coherent
    <3>8. [j.login EXCEPT !.host = GetHost(j.login.url), !.pass = j.save.pass] \in Record
      <4>1. j.save.pass \in Pass /\ GetHost(j.login.url) \in Site
        BY <3>3, SiteAssumption DEF Typing, TypeOK, Saving, Save, Record
      <4> QED BY <3>3, <4>1 DEF Record
    <3>9. new # None
      BY <3>4, <3>8, NoneIsNothing
    <3> QED BY <2>1, <3>1, <3>4, <3>6, <3>7, <3>9, OneLogin
  <2>3. CASE ~(unlocked /\ j.save.item \in Stored)
    BY <1>1, <1>2, <2>1, <2>3 DEF SaveUpdate
  <2> QED BY <2>2, <2>3
<1>3. ASSUME NEW j \in saves, NEW k \in Login, SaveCreate(j, k) PROVE VaultStep
  <2>1. edited' = edited
    BY <1>3 DEF SaveCreate, history
  <2>2. CASE unlocked
    <3>1. PICK new : /\ new = [host |-> GetHost(j.save.site),
                               domain |-> RegistrableDomain(j.save.site),
                               url |-> j.save.site, user |-> j.save.user, pass |-> j.save.pass]
                     /\ vault' = [vault EXCEPT ![k] = new]
      BY <1>3, <2>2 DEF SaveCreate
    <3>2. Coherent(new) /\ vault[k] = None
      BY <1>3, <3>1 DEF Coherent, SaveCreate
    <3> QED BY <2>1, <3>1, <3>2, OneLogin
  <2>3. CASE ~unlocked
    BY <1>1, <1>3, <2>1, <2>3 DEF SaveCreate
  <2> QED BY <2>2, <2>3
<1>4. ASSUME NEW k \in Login, DeleteLogin(k) PROVE VaultStep
  <2>1. vault' = [vault EXCEPT ![k] = Gone] /\ edited' = edited
    BY <1>4 DEF DeleteLogin, history
  <2>2. Gone \notin Record /\ Gone # None
    BY PageSaveAssumption
  <2> QED BY <2>1, <2>2, OneLogin
<1>5. ASSUME NEW e \in Edits, Edit(e) PROVE VaultStep
  <2>1. e.login \in Login /\ e.url \in Site
    BY PageSaveAssumption
  <2>2. vault[e.login] \in Record
    BY <1>5, <2>1, StoredIsRecord DEF Edit, Typing
  <2>3. PICK new : /\ new = [vault[e.login] EXCEPT !.host = GetHost(e.url), !.domain = GetHost(e.url),
                                                   !.url = e.url, !.user = e.user]
                   /\ vault' = [vault EXCEPT ![e.login] = new]
    BY <1>5, <2>1 DEF Edit, Typing, TypeOK
  <2>4. new.host = GetHost(e.url) /\ new.domain = GetHost(e.url) /\ new.url = e.url
    BY <2>2, <2>3 DEF Record
  <2>5. edited' = edited \cup {e.login}
    BY <1>5 DEF Edit
  <2>6. Coherent(new) /\ Kin(vault[e.login], new, e.login, edited')
    BY <2>4, <2>5 DEF Coherent, Kin
  <2>8. [vault[e.login] EXCEPT !.host = GetHost(e.url), !.domain = GetHost(e.url),
                               !.url = e.url, !.user = e.user] \in Record
    <3>1. e.user \in Name /\ GetHost(e.url) \in Site
      BY <2>1, PageSaveAssumption, SiteAssumption
    <3> QED BY <2>1, <2>2, <3>1 DEF Record
  <2>7. new # None
    BY <2>3, <2>8, NoneIsNothing
  <2> QED BY <2>1, <2>2, <2>3, <2>5, <2>6, <2>7, OneLogin
<1>6. CASE PageStep \/ ToggleLock \/ Evict \/ (\E n \in 1..MaxSubs : Expire(n)) \/ UNCHANGED vars
  <2>1. vault' = vault /\ edited' = edited
    BY <1>6 DEF PageStep, Submit, Leave, Load, AskHeld, Confirm, Dismiss, CloseTab,
         HeldShown, ToggleLock, Evict, Expire, vars, history
  <2> QED BY <1>1, <2>1
<1>7. ASSUME WorkerStep, ~(\E j \in saves : SaveUpdate(j)),
             ~(\E j \in saves, l \in Login : SaveCreate(j, l))
      PROVE  VaultStep
  <2>1. vault' = vault /\ edited' = edited
    BY <1>7 DEF WorkerStep, Decide, WritePending, Reply, ClearPending, SaveFind, history
  <2> QED BY <1>1, <2>1
<1> QED BY <1>2, <1>3, <1>4, <1>5, <1>6, <1>7 DEF Next

LEMMA PendingIsHeld ==
  ASSUME NEW s \in Save, InTable(ReadPendingSaves, s)
  PROVE  Held(s)
<1>1. PICK t \in Tab : ReadPendingSaves[t] = s
  BY DEF InTable
<1>2. table[t] = s
  BY <1>1, NoneIsNothing DEF ReadPendingSaves
<1> QED BY <1>2 DEF Held, InTable

LEMMA HideHeld ==
  ASSUME Typing, NEW f \in Frame, NEW typed, Hide(f, typed), NEW q \in queue'
  PROVE  q \in queue \/ (q.stage = "decide" /\ q.save.item = None)
BY DEF Hide, Sent

LEMMA PromptedHeld ==
  ASSUME NEW g \in Frame, NEW load, NEW save, Prompted(g, load, save), Typing, NEW f \in Frame
  PROVE  page'[f].prompt \in {page[f].prompt, save}
<1>1. page \in [Frame -> Document] /\ page[f] \in Document /\ page[g] \in Document
  BY DEF Typing, TypeOK
<1> QED BY <1>1 DEF Prompted, Document

\* Where a submission comes from: it was there before, or it has no item yet, or
\* its item has just been found.
Found(s) ==
  /\ vault' = vault /\ edited' = edited
  /\ s.item \in Login /\ vault[s.item] \in Record /\ Belongs(s.item, s)

LEMMA HeldOnPage ==
  ASSUME Typing, PageStep, NEW s \in Save, Held(s)'
  PROVE  Held(s) \/ s.item = None
<1>0. page \in [Frame -> Document]
  BY DEF Typing, TypeOK
<1>1. ASSUME NEW f \in Frame, NEW c \in Typed, Submit(f, c) PROVE Held(s) \/ s.item = None
  <2>1. \A k \in Frame : page'[k].prompt = page[k].prompt
    BY <1>0, <1>1 DEF Submit, Document
  <2>2. \A q \in queue' : q \in queue \/ (q.stage = "decide" /\ q.save.item = None)
    BY <1>1 DEF Submit, Sent
  <2>3. UNCHANGED <<table, told, clears, saves>>
    BY <1>1 DEF Submit
  <2> QED BY <2>1, <2>2, <2>3 DEF Held, InTable
<1>2. ASSUME NEW f \in Frame, NEW c \in Typed \cup {None}, Leave(f, c)
      PROVE  Held(s) \/ s.item = None
  <2>1. \A k \in Frame : page'[k].prompt \in {page[k].prompt, None}
    BY <1>0, <1>2 DEF Leave, Document
  <2>2. \A q \in queue' : q \in queue \/ (q.stage = "decide" /\ q.save.item = None)
    BY <1>2, HideHeld DEF Leave
  <2>3. UNCHANGED <<table, told, clears, saves>>
    BY <1>2 DEF Leave
  <2> QED BY <2>1, <2>2, <2>3, NoneIsNothing DEF Held, InTable
<1>3. ASSUME NEW f \in Frame, AskHeld(f) PROVE Held(s) \/ s.item = None
  <2>1. \A k \in Frame : page'[k].prompt = page[k].prompt
    BY <1>0, <1>3 DEF AskHeld, Document
  <2>2. \A a \in told' : a \in told \/ a.save = ReadPendingSaves[TabOf[f]]
    BY <1>3 DEF AskHeld
  <2>3. UNCHANGED <<table, queue, clears, saves>>
    BY <1>3 DEF AskHeld
  <2>4. ReadPendingSaves[TabOf[f]] = s => Held(s)
    BY PendingIsHeld, FrameAssumption DEF InTable
  <2> QED BY <2>1, <2>2, <2>3, <2>4 DEF Held, InTable
<1>4. ASSUME NEW f \in Frame, Answered(f)
      PROVE  \A k \in Frame : page'[k].prompt \in {page[k].prompt, None}
  BY <1>0, <1>4 DEF Answered, Document
<1>5. ASSUME NEW t \in Tab, clears' = clears \cup {Clearing(t)}, NEW j \in clears', InTable(j.copy, s)
      PROVE  Held(s)
  <2>1. CASE j \in clears
    BY <1>5, <2>1 DEF Held
  <2>2. CASE j = Clearing(t)
    BY <1>5, <2>2, PendingIsHeld DEF Clearing
  <2> QED BY <1>5, <2>1, <2>2
<1>6. ASSUME NEW f \in Frame, Confirm(f) PROVE Held(s) \/ s.item = None
  <2>1. \A k \in Frame : page'[k].prompt \in {page[k].prompt, None}
    BY <1>4, <1>6 DEF Confirm
  <2>2. \A j \in saves' : j \in saves \/ j.save = page[f].prompt
    BY <1>6 DEF Confirm
  <2>3. UNCHANGED <<table, queue, told>> /\ clears' = clears \cup {Clearing(TabOf[f])}
    BY <1>6 DEF Confirm
  <2>4. \A j \in clears' : InTable(j.copy, s) => Held(s)
    BY <1>5, <2>3, FrameAssumption
  <2> QED BY <2>1, <2>2, <2>3, <2>4, NoneIsNothing DEF Held, InTable
<1>7. ASSUME NEW f \in Frame, Dismiss(f) PROVE Held(s) \/ s.item = None
  <2>1. \A k \in Frame : page'[k].prompt \in {page[k].prompt, None}
    BY <1>4, <1>7 DEF Dismiss
  <2>2. UNCHANGED <<table, queue, told, saves>> /\ clears' = clears \cup {Clearing(TabOf[f])}
    BY <1>7 DEF Dismiss
  <2>3. \A j \in clears' : InTable(j.copy, s) => Held(s)
    BY <1>5, <2>2, FrameAssumption
  <2> QED BY <2>1, <2>2, <2>3, NoneIsNothing DEF Held, InTable
<1>8. ASSUME NEW t \in Tab, CloseTab(t) PROVE Held(s) \/ s.item = None
  <2>3. UNCHANGED <<table, page, queue, told, saves>> /\ clears' = clears \cup {Clearing(t)}
    BY <1>8 DEF CloseTab
  <2>4. \A j \in clears' : InTable(j.copy, s) => Held(s)
    BY <1>5, <2>3
  <2> QED BY <2>3, <2>4 DEF Held, InTable
<1>10. ASSUME NEW f \in Frame, NEW h \in Shown[f], Load(f, h) PROVE Held(s) \/ s.item = None
  <2>1. \A k \in Frame : page'[k].prompt = page[k].prompt
    BY <1>0, <1>10 DEF Load, Document
  <2>2. UNCHANGED <<table, queue, told, clears, saves>>
    BY <1>10 DEF Load
  <2> QED BY <2>1, <2>2 DEF Held, InTable
<1>9. ASSUME NEW a \in told, HeldShown(a) PROVE Held(s) \/ s.item = None
  <2>1. a.frame \in Frame
    BY DEF Typing, TypeOK, Telling
  <2>2. \A k \in Frame : page'[k].prompt \in {page[k].prompt, a.save}
    BY <1>9, <2>1, PromptedHeld DEF HeldShown
  <2>3. UNCHANGED <<table, queue, clears, saves>> /\ told' \subseteq told
    BY <1>9 DEF HeldShown
  <2> QED BY <2>2, <2>3 DEF Held, InTable
<1> QED BY <1>1, <1>2, <1>3, <1>6, <1>7, <1>8, <1>9, <1>10 DEF PageStep

LEMMA HeldInWorker ==
  ASSUME Typing, WorkerStep, NEW s \in Save, Held(s)'
  PROVE  Held(s) \/ s.item = None \/ Found(s)
<1>1. ASSUME NEW q \in queue, NEW d \in Login \cup {None, "locked", "same"}, Decide(q, d)
      PROVE  Held(s) \/ s.item = None \/ Found(s)
  <2>1. UNCHANGED <<table, page, told, clears, saves, vault, edited>>
    BY <1>1 DEF Decide
  <2>2. CASE Actionable(d)
    <3>1. PICK e : /\ e = [q EXCEPT !.stage = "write", !.save.item = d, !.copy = ReadPendingSaves]
                   /\ queue' = (queue \ {q}) \cup {e}
      BY <1>1, <2>2 DEF Decide
    <3>2. q \in Queueing /\ q.save \in Save
      BY DEF Typing, TypeOK, Queueing
    <3>3. e.copy = ReadPendingSaves /\ e.save = [q.save EXCEPT !.item = d]
      BY <3>1, <3>2 DEF Queueing
    <3>4. /\ e.save.item = d /\ e.save.site = q.save.site /\ e.save.user = q.save.user
      BY <3>2, <3>3 DEF Save
    <3>5. d # None => d \in Stored /\ Belongs(d, q.save)
      BY <1>1, <2>2 DEF Decide, Decisions, Actionable
    <3>6. d # None => d \in Login /\ vault[d] \in Record
      BY <3>5, StoredIsRecord DEF Typing, Stored
    <3>7. e.save = s => s.item = None \/ Found(s)
      BY <2>1, <3>4, <3>5, <3>6 DEF Found, Belongs
    <3>8. InTable(e.copy, s) => Held(s)
      BY <3>3, PendingIsHeld
    <3> QED BY <2>1, <3>1, <3>7, <3>8 DEF Held, InTable
  <2>3. CASE ~Actionable(d)
    <3>1. queue' \subseteq queue
      BY <1>1, <2>3 DEF Decide
    <3> QED BY <2>1, <3>1 DEF Held, InTable
  <2> QED BY <2>2, <2>3
<1>2. ASSUME NEW q \in queue, WritePending(q) PROVE Held(s)
  <2>1. UNCHANGED <<page, told, clears, saves>>
    BY <1>2 DEF WritePending
  <2>2. q \in Queueing /\ TabOf[q.frame] \in Tab /\ q.copy \in Table /\ q.stage = "write"
    BY <1>2, FrameAssumption DEF WritePending, Typing, TypeOK, QueueShape, Queueing
  <2>3. \A t \in Tab : table'[t] \in {q.copy[t], q.save}
    BY <1>2, <2>2 DEF WritePending, Table
  <2>4. PICK e : /\ e = [q EXCEPT !.stage = "reply", !.copy = None]
                 /\ queue' = (queue \ {q}) \cup {e}
    BY <1>2 DEF WritePending
  <2>5. e.stage = "reply" /\ e.save = q.save
    BY <2>2, <2>4 DEF Queueing
  <2> QED BY <2>1, <2>2, <2>3, <2>4, <2>5 DEF Held, InTable
<1>3. ASSUME NEW q \in queue, Reply(q) PROVE Held(s)
  <2>1. q.frame \in Frame
    BY DEF Typing, TypeOK, Queueing
  <2>2. \A k \in Frame : page'[k].prompt \in {page[k].prompt, q.save}
    BY <1>3, <2>1, PromptedHeld DEF Reply
  <2>3. UNCHANGED <<table, told, clears, saves>> /\ queue' \subseteq queue
    BY <1>3 DEF Reply
  <2> QED BY <2>2, <2>3 DEF Held, InTable
<1>4. ASSUME NEW j \in clears, ClearPending(j) PROVE Held(s)
  <2>1. UNCHANGED <<page, queue, told, saves>> /\ clears' \subseteq clears
    BY <1>4 DEF ClearPending
  <2>2. \A t \in Tab : table'[t] \in {j.copy[t], None}
    BY <1>4 DEF ClearPending, Typing, TypeOK, Clearance, Table
  <2> QED BY <2>1, <2>2, NoneIsNothing DEF Held, InTable
<1>5. ASSUME NEW j \in saves, \/ SaveFind(j) \/ SaveUpdate(j) \/ \E l \in Login : SaveCreate(j, l)
      PROVE  Held(s)
  <2>1. UNCHANGED <<table, page, queue, told, clears>>
    BY <1>5 DEF SaveFind, SaveUpdate, SaveCreate
  <2>2. j \in Saving
    BY DEF Typing, TypeOK
  <2>3. \A k \in saves' : k \in saves \/ k = [j EXCEPT !.login = vault[j.save.item]]
    BY <1>5 DEF SaveFind, SaveUpdate, SaveCreate
  <2>4. \A k \in saves' : k \in saves \/ k.save = j.save
    BY <2>2, <2>3 DEF Saving
  <2> QED BY <2>1, <2>4 DEF Held, InTable
<1> QED BY <1>1, <1>2, <1>3, <1>4, <1>5 DEF WorkerStep

LEMMA HeldElsewhere ==
  ASSUME [Next]_vars, ~PageStep, ~WorkerStep, NEW s \in Save, Held(s)'
  PROVE  Held(s)
<1>1. UNCHANGED <<table, page>>
  BY DEF Next, ToggleLock, Evict, Expire, DeleteLogin, Edit, vars
<1>2. queue' \subseteq queue /\ told' \subseteq told /\ clears' \subseteq clears /\ saves' \subseteq saves
  BY DEF Next, ToggleLock, Evict, Expire, DeleteLogin, Edit, vars
<1> QED BY <1>1, <1>2 DEF Held, InTable

LEMMA FitsKept ==
  ASSUME Typing, MatchInv, [Next]_vars, NEW s \in Save, Held(s)'
  PROVE  Fits(s)'
<1>1. VaultStep
  BY VaultSteps
<1>2. CASE Held(s)
  <2>1. Fits(s)
    BY <1>2 DEF MatchInv
  <2>2. ASSUME s.item \in Login PROVE vault'[s.item] # None
    BY <1>1, <2>1, <2>2 DEF Fits, VaultStep
  <2>3. ASSUME s.item \in Login, vault'[s.item] \in Record, s.item \notin edited'
        PROVE  IsFor(vault'[s.item], s)
    <3>1. /\ vault[s.item] \in Record /\ Kin(vault[s.item], vault'[s.item], s.item, edited')
          /\ edited \subseteq edited'
      BY <1>1, <2>1, <2>3 DEF Fits, VaultStep
    <3>2. Coherent(vault[s.item]) /\ IsFor(vault[s.item], s)
      BY <2>1, <2>3, <3>1 DEF Fits, MatchInv
    <3>3. PICK old, new : old = vault[s.item] /\ new = vault'[s.item]
      OBVIOUS
    <3>4. /\ new.domain = old.domain /\ new.url = old.url /\ new.user = old.user
          /\ new.host \in {old.host, GetHost(old.url)} /\ old.host \in {None, GetHost(old.url)}
      BY <2>3, <3>1, <3>2, <3>3 DEF Kin, Coherent
    <3>5. PICK h \in {old.host, old.domain, old.url} \ {None} : SameHost(h, s.site)
      BY <3>2, <3>3 DEF IsFor
    <3>6. h \in {new.host, new.domain, new.url}
      BY <3>4, <3>5
    <3> QED BY <3>2, <3>3, <3>4, <3>5, <3>6 DEF IsFor
  <2> QED BY <2>2, <2>3 DEF Fits
<1>3. CASE s.item = None
  BY <1>3, NoneIsNothing DEF Fits
<1>4. CASE Found(s)
  <2>1. s.item \in Login /\ vault[s.item] \in Record
    BY <1>4 DEF Found
  <2>2. IsFor(vault[s.item], s)
    BY <1>4, ExactIsSame DEF Found, Belongs, IsFor
  <2> QED BY <1>4, <2>1, <2>2, NoneIsNothing DEF Found, Fits
<1> QED BY <1>2, <1>3, <1>4, HeldOnPage, HeldInWorker, HeldElsewhere

LEMMA CopiesKept ==
  ASSUME Typing, MatchInv, [Next]_vars, NEW j \in saves'
  PROVE  CopyFits(j)'
<1>1. VaultStep
  BY VaultSteps
<1>2. CASE j \in saves
  <2>1. SUFFICES ASSUME j.login # None PROVE CopyFits(j)'
    BY DEF CopyFits
  <2>2. /\ j.save.item \in Login /\ vault[j.save.item] # None /\ Coherent(j.login)
        /\ vault[j.save.item] \in Record =>
             Kin(j.login, vault[j.save.item], j.save.item, edited)
    BY <1>2, <2>1 DEF MatchInv, CopyFits
  <2>3. vault'[j.save.item] # None
    BY <1>1, <2>2 DEF VaultStep
  <2>4. ASSUME vault'[j.save.item] \in Record
        PROVE  Kin(j.login, vault'[j.save.item], j.save.item, edited')
    <3>1. /\ vault[j.save.item] \in Record /\ edited \subseteq edited'
          /\ Kin(vault[j.save.item], vault'[j.save.item], j.save.item, edited')
      BY <1>1, <2>2, <2>4 DEF VaultStep
    <3>2. Kin(j.login, vault[j.save.item], j.save.item, edited)
      BY <2>2, <3>1
    <3> QED BY <3>1, <3>2 DEF Kin
  <2> QED BY <2>2, <2>3, <2>4 DEF CopyFits
<1>3. CASE j \notin saves /\ j.login = None
  BY <1>3 DEF CopyFits
<1>4. ASSUME j \notin saves, j.login # None PROVE CopyFits(j)'
  <2>6. ASSUME PageStep PROVE FALSE
    <3>1. saves' \subseteq saves \/ \E f \in Frame : Confirm(f)
      BY <2>6 DEF PageStep, Submit, Leave, Load, AskHeld, Dismiss, CloseTab, HeldShown
    <3>2. ASSUME NEW f \in Frame, Confirm(f)
          PROVE  saves' = saves \cup {[save |-> page[f].prompt, login |-> None]}
      BY <3>2 DEF Confirm
    <3> QED BY <1>4, <3>1, <3>2
  <2>7. ASSUME WorkerStep /\ ~(\E k \in saves : SaveFind(k)) PROVE FALSE
    <3>1. saves' \subseteq saves
      BY <2>7 DEF WorkerStep, Decide, WritePending, Reply, ClearPending, SaveUpdate, SaveCreate, history
    <3> QED BY <1>4, <3>1
  <2>8. ASSUME ~PageStep /\ ~WorkerStep PROVE FALSE
    <3>1. saves' \subseteq saves
      BY <2>8 DEF Next, ToggleLock, Evict, Expire, DeleteLogin, Edit, vars
    <3> QED BY <1>4, <3>1
  <2>1. PICK k \in saves : SaveFind(k)
    BY <2>6, <2>7, <2>8
  <2>9. k \in Saving /\ k.save \in Save
    BY DEF Typing, TypeOK, Saving
  <2>2. k \in Saving /\ k.save.item \in Login
    BY <2>1, <2>9 DEF SaveFind, Save
  <2>3. k.save.item \in Stored /\ j = [k EXCEPT !.login = vault[k.save.item]]
    BY <1>4, <2>1 DEF SaveFind
  <2>4. j.save = k.save /\ j.login = vault[k.save.item]
    BY <2>2, <2>3 DEF Saving
  <2>5. vault' = vault /\ edited' = edited
    BY <2>1 DEF SaveFind, history
  <2>10. vault[k.save.item] \in Record
    BY <2>2, <2>3, StoredIsRecord DEF Typing
  <2> QED BY <2>2, <2>4, <2>5, <2>10, KinOfItself, NoneIsNothing DEF CopyFits, MatchInv
<1> QED BY <1>2, <1>3, <1>4

LEMMA MatchInvKept ==
  ASSUME Typing, MatchInv, [Next]_vars
  PROVE  MatchInv'
<1>1. ASSUME NEW l \in Login, vault'[l] \in Record PROVE Coherent(vault'[l])
  BY <1>1, VaultSteps DEF VaultStep
<1> QED BY <1>1, FitsKept, CopiesKept DEF MatchInv

LEMMA NoPromptFirst ==
  ASSUME Init
  PROVE  \A f \in Frame : page[f].prompt = None
<1>1. PICK s \in [Tab -> Site] :
        page = [f \in Frame |-> [open |-> f = Top[TabOf[f]], site |-> s[TabOf[f]], load |-> 0,
                                 asked |-> TRUE, queued |-> None, prompt |-> None]]
  BY DEF Init
<1>2. ASSUME NEW f \in Frame PROVE page[f].prompt = None
  <2>1. page[f] = [open |-> f = Top[TabOf[f]], site |-> s[TabOf[f]], load |-> 0,
                   asked |-> TRUE, queued |-> None, prompt |-> None]
    BY <1>1
  <2> QED BY <2>1
<1> QED BY <1>2

LEMMA MatchInvInit ==
  ASSUME Init
  PROVE  MatchInv
<1>1. \A l \in Login : vault[l] \in Record => Coherent(vault[l])
  <2>1. PICK b \in Start : vault = b.vault
    BY DEF Init
  <2>2. \A l \in Login : b.vault[l] \in Record => Coherent(b.vault[l])
    BY PageSaveAssumption
  <2> QED BY <2>1, <2>2
<1>2. \A s \in Save : ~Held(s)
  <2>1. \A f \in Frame : page[f].prompt = None
    BY NoPromptFirst
  <2>2. /\ queue = {} /\ clears = {} /\ told = {} /\ saves = {}
        /\ \A t \in Tab : table[t] = None
    BY DEF Init
  <2> QED BY <2>1, <2>2, NoneIsNothing DEF Held, InTable
<1> QED BY <1>1, <1>2 DEF Init, MatchInv

\* A step replaces no password but the one it should.
Overwrites(l) ==
  l \in Stored /\ l \in Stored' /\ vault'[l].pass # vault[l].pass =>
    \E j \in saves \ saves' :
      /\ j.save.item = l /\ vault'[l].pass = j.save.pass
      /\ \/ l \in edited
         \/ /\ \E h \in {vault[l].host, vault[l].domain, vault[l].url} \ {None} :
                 SameHost(h, j.save.site)
            /\ vault[l].user = j.save.user

LEMMA StepOverwrites ==
  ASSUME Typing, MatchInv, [Next]_vars, NEW l \in Login
  PROVE  Overwrites(l)
<1>1. SUFFICES ASSUME l \in Stored, l \in Stored', vault'[l].pass # vault[l].pass
               PROVE  \E j \in saves \ saves' :
                        /\ j.save.item = l /\ vault'[l].pass = j.save.pass
                        /\ l \in edited \/ IsFor(vault[l], j.save)
  BY DEF Overwrites, IsFor
<1>2. vault \in [Login -> Record \cup {None, Gone}] /\ vault[l] \in Record
  BY <1>1, StoredIsRecord DEF Typing, TypeOK
<1>3. ASSUME NEW j \in saves, SaveUpdate(j)
      PROVE  /\ j \notin saves' /\ j.save.item = l /\ vault'[l].pass = j.save.pass
  <2>1. unlocked /\ j.save.item \in Stored
    BY <1>1, <1>3 DEF SaveUpdate
  <2>2. j.save.item \in Login /\ j.login \in Record
    BY <1>3, <2>1 DEF Stored, SaveUpdate, Typing, TypeOK, Saving
  <2>3. PICK new : /\ new = [j.login EXCEPT !.host = GetHost(j.login.url), !.pass = j.save.pass]
                   /\ vault' = [vault EXCEPT ![j.save.item] = new]
    BY <1>3, <2>1 DEF SaveUpdate
  <2>4. new.pass = j.save.pass
    BY <2>2, <2>3 DEF Record
  <2>5. j.save.item = l
    BY <1>1, <1>2, <2>2, <2>3
  <2> QED BY <1>2, <1>3, <2>2, <2>3, <2>4, <2>5 DEF SaveUpdate
<1>4. ASSUME NEW j \in saves, SaveUpdate(j)
      PROVE  l \in edited \/ IsFor(vault[l], j.save)
  <2>1. j.save \in Save /\ Held(j.save)
    BY DEF Typing, TypeOK, Saving, Held
  <2>2. Fits(j.save)
    BY <2>1 DEF MatchInv
  <2> QED BY <1>2, <1>3, <1>4, <2>2 DEF Fits
<1>5. ASSUME NEW j \in saves, NEW k \in Login, SaveCreate(j, k) PROVE FALSE
  <2>1. k # l
    BY <1>2, <1>5, NoneIsNothing DEF SaveCreate
  <2> QED BY <1>1, <1>2, <1>5, <2>1 DEF SaveCreate
<1>6. ASSUME NEW k \in Login, DeleteLogin(k) PROVE FALSE
  <2>1. vault' = [vault EXCEPT ![k] = Gone]
    BY <1>6 DEF DeleteLogin
  <2>2. vault'[l] # Gone
    BY <1>1 DEF Stored
  <2> QED BY <1>1, <1>2, <2>1, <2>2
<1>7. ASSUME NEW e \in Edits, Edit(e) PROVE FALSE
  <2>1. e.login \in Login
    BY PageSaveAssumption
  <2>2. PICK new : /\ new = [vault[e.login] EXCEPT !.host = GetHost(e.url), !.domain = GetHost(e.url),
                                                   !.url = e.url, !.user = e.user]
                   /\ vault' = [vault EXCEPT ![e.login] = new]
    BY <1>2, <1>7, <2>1 DEF Edit
  <2>3. e.login = l => new.pass = vault[l].pass
    BY <1>2, <2>2 DEF Record
  <2> QED BY <1>1, <1>2, <2>1, <2>2, <2>3
<1>8. ASSUME vault' = vault PROVE FALSE
  BY <1>1, <1>8
<1>9. \/ \E j \in saves : SaveUpdate(j) \/ \E k \in Login : SaveCreate(j, k)
      \/ (\E k \in Login : DeleteLogin(k)) \/ (\E e \in Edits : Edit(e))
      \/ vault' = vault
  BY DEF Next, PageStep, WorkerStep, Submit, Leave, Load, AskHeld, Confirm, Dismiss, CloseTab,
       HeldShown, Decide, WritePending, Reply, ClearPending, SaveFind,
       ToggleLock, Evict, Expire, vars, history
<1> QED BY <1>3, <1>4, <1>5, <1>6, <1>7, <1>8, <1>9

\* A save from a page replaces the password only of a login one of whose hosts is
\* the page's own, and under the identifier submitted, unless the user edited the
\* login - for any number of tabs, frames, logins, hosts and submissions, locked
\* and evicted as one may, and whatever updates rewrote the login's host before.
THEOREM SavesOverwriteTheirOwn == Spec => OverwritesMatch
<1>1. Typing /\ MatchInv /\ [Next]_vars => \A l \in Login : Overwrites(l)
  BY StepOverwrites
<1>2. Spec => []MatchInv
  BY InitTypes, TypingKept, MatchInvInit, MatchInvKept, PTL DEF Spec
<1>3. Typing /\ MatchInv /\ [Next]_vars =>
        [\A l \in Login :
           l \in Stored /\ l \in Stored' /\ vault'[l].pass # vault[l].pass =>
             \E j \in saves \ saves' :
               /\ j.save.item = l /\ vault'[l].pass = j.save.pass
               /\ \/ l \in edited
                  \/ /\ \E h \in {vault[l].host, vault[l].domain, vault[l].url} \ {None} :
                          SameHost(h, j.save.site)
                     /\ vault[l].user = j.save.user]_vars
  BY <1>1 DEF Overwrites
<1> QED BY <1>2, <1>3, AlwaysTyped, PTL DEF Spec, OverwritesMatch

(***************************************************************************)
(* What is asked, kept and answered, while the table has one writer at a   *)
(* time and neither page, user nor worker runs ahead (haste is empty)      *)
(***************************************************************************)
In(T, t, n) == T[t] # None /\ T[t].n = n

\* Where a submission of a tab may be once the worker has looked it up.
Placed(t, n) ==
  \/ In(table, t, n)
  \/ \E q \in Storing : In(q.copy, t, n)
  \/ \E j \in clears : In(j.copy, t, n)
  \/ \E a \in told : TabOf[a.frame] = t /\ a.save.n = n
  \/ \E f \in Frame : TabOf[f] = t /\ page[f].prompt # None /\ page[f].prompt.n = n
  \/ due[t] = n

Located(t, n) == Placed(t, n) \/ \E q \in queue : TabOf[q.frame] = t /\ q.save.n = n

\* A submission is of one tab, and what is not looked up yet is nowhere else.
NumberInv ==
  /\ \A t \in Tab, n \in 1..MaxSubs : Located(t, n) => n <= count
  /\ \A t, u \in Tab, n \in 1..MaxSubs : Located(t, n) /\ Located(u, n) => t = u
  /\ \A n \in stale \cup answered : n <= count
  /\ \A q, e \in queue : q.save.n = e.save.n => q = e
  /\ \A q \in queue : q.stage = "decide" =>
       /\ q.save.n \notin stale \cup answered
       /\ \A t \in Tab : ~Placed(t, q.save.n)

\* The table has one writer at a time.
OneWriter ==
  /\ \A q \in Storing : clears = {} /\ Storing = {q}
  /\ \A j \in clears : clears = {j}

\* A writer of the table has read what the other tabs wait for.
CopiesDue ==
  /\ \A q \in Storing : \A t \in Tab : due[t] # None =>
       IF t = TabOf[q.frame] THEN q.save.n = due[t] ELSE In(q.copy, t, due[t])
  /\ \A j \in clears : \A t \in Tab : due[t] # None => t # j.tab /\ In(j.copy, t, due[t])

HeldDue ==
  \A t \in Tab : due[t] # None =>
    /\ t \notin closed /\ due[t] \notin stale
    /\ In(table, t, due[t]) \/ \E q \in Storing : TabOf[q.frame] = t /\ q.save.n = due[t]

\* n is where no frame is told of it any more; a prompt that was up may stay.
Over(n) ==
  /\ \A q \in queue : q.save.n # n
  /\ \A a \in told : a.save.n # n
  /\ \A t \in Tab :
       /\ In(table, t, n) => \E j \in clears : j.tab = t
       /\ \A q \in Storing : ~In(q.copy, t, n)
       /\ \A j \in clears : j.tab # t => ~In(j.copy, t, n)

AnsweredInv == \A n \in answered : Over(n)

QuietInv == NumberInv /\ OneWriter /\ CopiesDue /\ HeldDue /\ AnsweredInv

Quietly == haste = {} => QuietInv

(***************************************************************************)
(* What the steps do to what these invariants speak of                     *)
(***************************************************************************)
Sends(t) ==
  \E s : /\ queue' = queue \cup {s} /\ s.stage = "decide"
         /\ TabOf[s.frame] = t /\ s.save.n = count + 1 /\ count' = count + 1
SendsNothing == queue' = queue /\ count' = count

SamePrompt(f) == page'[f].prompt = page[f].prompt

\* A form is sent, a document goes or another one comes.
Moves(f) ==
  /\ Sends(TabOf[f]) \/ SendsNothing
  /\ \A g \in Frame : page'[g].prompt \in {None, page[g].prompt}
  /\ UNCHANGED <<table, told, clears, stale, closed, due, answered>>

Asks(f) ==
  /\ Settled(TabOf[f]) /\ \A g \in Frame : SamePrompt(g)
  /\ IF ReadPendingSaves[TabOf[f]] = None THEN told' = told
     ELSE \E a : /\ told' = told \cup {a} /\ TabOf[a.frame] = TabOf[f]
                 /\ a.save = ReadPendingSaves[TabOf[f]]
  /\ SendsNothing /\ UNCHANGED <<table, clears, stale, closed, due, answered>>

\* A prompt for frame f, which may be gone.
Hears(f, save) ==
  \A g \in Frame : SamePrompt(g) \/ (g = f /\ page'[g].prompt = save)

ShowsHeld(a) ==
  /\ told' = told \ {a} /\ Hears(a.frame, a.save)
  /\ SendsNothing /\ UNCHANGED <<table, clears, stale, closed, due, answered>>

Answers(f) ==
  /\ Settled(TabOf[f]) /\ Storing = {} /\ clears = {}
  /\ ~ \E a \in told : TabOf[a.frame] = TabOf[f]
  /\ page[f].prompt # None /\ page'[f].prompt = None
  /\ \A g \in Frame \ {f} : SamePrompt(g)
  /\ answered' = answered \cup {page[f].prompt.n}
  /\ \A u \in Tab : due'[u] = IF u = TabOf[f] THEN None ELSE due[u]
  /\ clears' = {Clearing(TabOf[f])}
  /\ SendsNothing /\ UNCHANGED <<table, told, stale, closed>>

Closes(t) ==
  /\ Storing = {} /\ clears = {}
  /\ \A g \in Frame : SamePrompt(g)
  /\ closed' = closed \cup {t}
  /\ \A u \in Tab : due'[u] = IF u = t THEN None ELSE due[u]
  /\ clears' = {Clearing(t)}
  /\ SendsNothing /\ UNCHANGED <<table, told, stale, answered>>

Advances(q, e) ==
  /\ queue' = (queue \ {q}) \cup {e} /\ count' = count
  /\ e.frame = q.frame /\ e.save.n = q.save.n

Takes(q) ==
  /\ q.stage = "decide" /\ Storing = {} /\ clears = {}
  /\ \E e : /\ Advances(q, e) /\ e.stage = "write" /\ e.copy = ReadPendingSaves
  /\ \A u \in Tab : due'[u] = IF u = TabOf[q.frame] /\ u \notin closed THEN q.save.n ELSE due[u]
  /\ UNCHANGED <<table, page, told, clears, stale, closed, answered>>

Drops(q) ==
  /\ q.stage = "decide" /\ queue' = queue \ {q}
  /\ UNCHANGED <<table, page, told, clears, stale, count, closed, due, answered>>

Writes(q) ==
  /\ q.stage = "write"
  /\ \E e : Advances(q, e) /\ e.stage = "reply"
  /\ \A u \in Tab : table'[u] = IF u = TabOf[q.frame] THEN q.save ELSE q.copy[u]
  /\ UNCHANGED <<page, told, clears, stale, closed, due, answered>>

Replies(q) ==
  /\ q.stage = "reply" /\ queue' = queue \ {q}
  /\ Hears(q.frame, q.save)
  /\ UNCHANGED <<table, told, clears, stale, count, closed, due, answered>>

Removes(j) ==
  /\ clears' = clears \ {j}
  /\ \A u \in Tab : table'[u] = IF u = j.tab THEN None ELSE j.copy[u]
  /\ UNCHANGED <<page, queue, told, stale, count, closed, due, answered>>

Expires(n) ==
  /\ stale' = stale \cup {n} /\ \E t \in Tab : Placed(t, n)
  /\ \A u \in Tab : due'[u] = IF due[u] = n THEN None ELSE due[u]
  /\ UNCHANGED <<table, page, queue, told, clears, count, closed, answered>>

Elsewhere ==
  UNCHANGED <<table, page, queue, told, clears, stale, count, closed, due, answered>>

QuietStep ==
  \/ \E f \in Frame : Moves(f) \/ Asks(f) \/ Answers(f)
  \/ \E t \in Tab : Closes(t)
  \/ \E a \in told : ShowsHeld(a)
  \/ \E q \in queue : Takes(q) \/ Drops(q) \/ Writes(q) \/ Replies(q)
  \/ \E j \in clears : Removes(j)
  \/ \E n \in 1..MaxSubs : Expires(n)
  \/ Elsewhere

LEMMA Fields ==
  ASSUME Typing
  PROVE  /\ \A q \in queue : /\ q \in Queueing /\ q.frame \in Frame /\ TabOf[q.frame] \in Tab
                             /\ q.save \in Save /\ q.save.n \in 1..MaxSubs
                             /\ q.stage = "write" => q.copy \in Table
         /\ \A a \in told : /\ a.frame \in Frame /\ TabOf[a.frame] \in Tab
                            /\ a.save \in Save /\ a.save.n \in 1..MaxSubs
         /\ \A j \in clears : j.tab \in Tab /\ j.copy \in Table
         /\ \A f \in Frame : /\ page[f] \in Document /\ TabOf[f] \in Tab
                             /\ page[f].prompt # None =>
                                  page[f].prompt \in Save /\ page[f].prompt.n \in 1..MaxSubs
         /\ \A t \in Tab : due[t] # None => due[t] \in 1..MaxSubs
         /\ page \in [Frame -> Document] /\ count \in Nat
  BY FrameAssumption DEF Typing, TypeOK, QueueShape, Queueing, Telling, Clearance, Document, Save

LEMMA SendingSends ==
  ASSUME Typing, NEW f \in Frame, NEW c \in Typed,
         queue' = queue \cup {Sent(f, c)}, count' = count + 1
  PROVE  Sends(TabOf[f])
<1>1. PICK s : s = Sent(f, c)
  OBVIOUS
<1>2. s.stage = "decide" /\ s.frame = f /\ s.save.n = count + 1
  BY <1>1 DEF Sent
<1> QED BY <1>1, <1>2 DEF Sends

LEMMA HidingSends ==
  ASSUME Typing, NEW f \in Frame, NEW c \in Typed \cup {None}, Hide(f, c)
  PROVE  Sends(TabOf[f]) \/ SendsNothing
<1>1. CASE c = None \/ c = page[f].queued \/ ~Ready(f)
  BY <1>1 DEF Hide, SendsNothing
<1>2. CASE ~(c = None \/ c = page[f].queued \/ ~Ready(f))
  BY <1>2, SendingSends DEF Hide
<1> QED BY <1>1, <1>2

LEMMA Hearing ==
  ASSUME Typing, NEW f \in Frame, NEW load, NEW save, Prompted(f, load, save)
  PROVE  Hears(f, save)
  BY Fields DEF Prompted, Hears, SamePrompt, Document

LEMMA AnsweringAnswers ==
  ASSUME Typing, haste = {}, NEW f \in Frame, Answered(f), MayUseTable,
         clears' = clears \cup {Clearing(TabOf[f])},
         UNCHANGED <<table, closed, queue, told, stale, count>>
  PROVE  Answers(f)
<1>1. page'[f].prompt = None /\ \A g \in Frame \ {f} : SamePrompt(g)
  BY Fields DEF Answered, SamePrompt, Document
<1>2. \A u \in Tab : due'[u] = IF u = TabOf[f] THEN None ELSE due[u]
  BY DEF Answered, Typing, TypeOK
<1>3. Storing = {} /\ clears = {} /\ clears' = {Clearing(TabOf[f])}
  BY DEF MayUseTable
<1> QED BY <1>1, <1>2, <1>3 DEF Answered, Answers, SendsNothing

LEMMA QuietPageSteps ==
  ASSUME Typing, haste = {}, PageStep
  PROVE  QuietStep
<1>1. ASSUME NEW f \in Frame, NEW c \in Typed, Submit(f, c) PROVE Moves(f)
  <2>1. Sends(TabOf[f])
    BY <1>1, SendingSends DEF Submit
  <2>2. \A g \in Frame : page'[g].prompt = page[g].prompt
    BY <1>1, Fields DEF Submit, Document
  <2> QED BY <1>1, <2>1, <2>2 DEF Submit, Moves, history
<1>2. ASSUME NEW f \in Frame, NEW c \in Typed \cup {None}, Leave(f, c) PROVE Moves(f)
  <2>1. PICK d : /\ d = [page[f] EXCEPT !.open = FALSE, !.queued = None, !.prompt = None]
                 /\ page' = [page EXCEPT ![f] = d]
    BY <1>2, Fields DEF Leave
  <2>2. d.prompt = None
    BY <2>1, Fields DEF Document
  <2>3. \A g \in Frame : page'[g].prompt \in {None, page[g].prompt}
    BY <2>1, <2>2, Fields
  <2>4. Sends(TabOf[f]) \/ SendsNothing
    BY <1>2, HidingSends DEF Leave
  <2> QED BY <1>2, <2>3, <2>4 DEF Leave, Moves, history
<1>3. ASSUME NEW f \in Frame, NEW s \in Shown[f], Load(f, s) PROVE Moves(f)
  <2>1. PICK d : /\ d = [page[f] EXCEPT !.open = TRUE, !.site = s, !.load = page[f].load + 1,
                                        !.asked = FALSE]
                 /\ page' = [page EXCEPT ![f] = d]
    BY <1>3, Fields DEF Load
  <2>2. d.prompt = page[f].prompt
    BY <2>1, Fields DEF Document
  <2>3. \A g \in Frame : page'[g].prompt = page[g].prompt
    BY <2>1, <2>2, Fields
  <2> QED BY <1>3, <2>3 DEF Load, Moves, SendsNothing, history
<1>4. ASSUME NEW f \in Frame, AskHeld(f) PROVE Asks(f)
  <2>1. \A g \in Frame : SamePrompt(g)
    BY <1>4, Fields DEF AskHeld, SamePrompt, Document
  <2>2. CASE ReadPendingSaves[TabOf[f]] = None
    BY <1>4, <2>1, <2>2 DEF AskHeld, Asks, SendsNothing, history
  <2>3. CASE ReadPendingSaves[TabOf[f]] # None
    <3>1. PICK a : a = [frame |-> f, load |-> page[f].load, save |-> ReadPendingSaves[TabOf[f]]]
      OBVIOUS
    <3>3. told' = told \cup {a}
      BY <1>4, <2>3, <3>1 DEF AskHeld
    <3>2. a.frame = f /\ a.save = ReadPendingSaves[TabOf[f]]
      BY <3>1
    <3> QED BY <1>4, <2>1, <2>3, <3>2, <3>3 DEF AskHeld, Asks, SendsNothing, history
  <2> QED BY <2>2, <2>3
<1>5. ASSUME NEW a \in told, HeldShown(a) PROVE ShowsHeld(a)
  BY <1>5, Fields, Hearing DEF HeldShown, ShowsHeld, SendsNothing, history
<1>6. ASSUME NEW f \in Frame, Confirm(f) \/ Dismiss(f) PROVE Answers(f)
  BY <1>6, AnsweringAnswers DEF Confirm, Dismiss
<1>7. ASSUME NEW t \in Tab, CloseTab(t) PROVE Closes(t)
  <2>1. \A u \in Tab : due'[u] = IF u = t THEN None ELSE due[u]
    BY <1>7 DEF CloseTab, Typing, TypeOK
  <2>2. Storing = {} /\ clears = {} /\ clears' = {Clearing(t)}
    BY <1>7 DEF CloseTab, MayUseTable
  <2> QED BY <1>7, <2>1, <2>2 DEF CloseTab, Closes, SamePrompt, SendsNothing
<1> QED BY <1>1, <1>2, <1>3, <1>4, <1>5, <1>6, <1>7 DEF PageStep, QuietStep

LEMMA QuietWorkerSteps ==
  ASSUME Typing, haste = {}, WorkerStep
  PROVE  QuietStep
<1>1. ASSUME NEW q \in queue, NEW d \in Login \cup {None, "locked", "same"}, Decide(q, d)
      PROVE  Takes(q) \/ Drops(q)
  <2>1. CASE Actionable(d)
    <3>1. PICK e : /\ e = [q EXCEPT !.stage = "write", !.save.item = d, !.copy = ReadPendingSaves]
                   /\ queue' = (queue \ {q}) \cup {e}
      BY <1>1, <2>1 DEF Decide
    <3>2. /\ e.stage = "write" /\ e.copy = ReadPendingSaves /\ e.frame = q.frame
          /\ e.save.n = q.save.n
      BY <3>1, Fields DEF Queueing, Save
    <3>3. \A u \in Tab : due'[u] = IF u = TabOf[q.frame] /\ u \notin closed
                                   THEN q.save.n ELSE due[u]
      BY <1>1, <2>1, Fields DEF Decide, Typing, TypeOK
    <3>4. Storing = {} /\ clears = {}
      BY <1>1, <2>1 DEF Decide, MayUseTable
    <3>5. Advances(q, e)
      BY <1>1, <3>1, <3>2 DEF Decide, Advances
    <3> QED BY <1>1, <3>2, <3>3, <3>4, <3>5 DEF Decide, Takes
  <2>2. CASE ~Actionable(d)
    BY <1>1, <2>2 DEF Decide, Drops
  <2> QED BY <2>1, <2>2
<1>2. ASSUME NEW q \in queue, WritePending(q) PROVE Writes(q)
  <2>1. PICK e : /\ e = [q EXCEPT !.stage = "reply", !.copy = None]
                 /\ queue' = (queue \ {q}) \cup {e}
    BY <1>2 DEF WritePending
  <2>2. e.stage = "reply" /\ e.frame = q.frame /\ e.save = q.save
    BY <2>1, Fields DEF Queueing
  <2>3. Advances(q, e)
    BY <1>2, <2>1, <2>2 DEF WritePending, Advances
  <2>4. \A u \in Tab : table'[u] = IF u = TabOf[q.frame] THEN q.save ELSE q.copy[u]
    BY <1>2, Fields DEF WritePending, Table
  <2> QED BY <1>2, <2>2, <2>3, <2>4 DEF WritePending, Writes, history
<1>3. ASSUME NEW q \in queue, Reply(q) PROVE Replies(q)
  BY <1>3, Fields, Hearing DEF Reply, Replies, history
<1>4. ASSUME NEW j \in clears, ClearPending(j) PROVE Removes(j)
  <2>1. \A u \in Tab : table'[u] = IF u = j.tab THEN None ELSE j.copy[u]
    BY <1>4, Fields DEF ClearPending, Table
  <2> QED BY <1>4, <2>1 DEF ClearPending, Removes, history
<1>5. ASSUME NEW j \in saves, SaveFind(j) \/ SaveUpdate(j) \/ \E l \in Login : SaveCreate(j, l)
      PROVE  Elsewhere
  BY <1>5 DEF SaveFind, SaveUpdate, SaveCreate, Elsewhere, history
<1> QED BY <1>1, <1>2, <1>3, <1>4, <1>5 DEF WorkerStep, QuietStep

LEMMA QuietSteps ==
  ASSUME Typing, haste = {}, [Next]_vars
  PROVE  QuietStep
<1>1. ASSUME NEW n \in 1..MaxSubs, Expire(n) PROVE Expires(n)
  <2>1. \E t \in Tab : Placed(t, n)
    BY <1>1 DEF Expire, Placed, In, Storing
  <2>2. \A u \in Tab : due'[u] = IF due[u] = n THEN None ELSE due[u]
    BY <1>1 DEF Expire
  <2> QED BY <1>1, <2>1, <2>2 DEF Expire, Expires
<1>2. ASSUME ToggleLock \/ (\E l \in Login : DeleteLogin(l)) \/ \E e \in Edits : Edit(e)
      PROVE  Elsewhere
  BY <1>2 DEF ToggleLock, DeleteLogin, Edit, Elsewhere, history
<1>3. ~Evict
  BY DEF Evict
<1>4. CASE UNCHANGED vars
  BY <1>4 DEF vars, Elsewhere, QuietStep
<1>5. CASE Next
  BY <1>1, <1>2, <1>3, <1>5, QuietPageSteps, QuietWorkerSteps DEF Next, QuietStep
<1> QED BY <1>4, <1>5

LEMMA ReadIsIn ==
  ASSUME NEW t \in Tab, NEW n
  PROVE  In(ReadPendingSaves, t, n) <=> In(table, t, n) /\ n \notin stale
  BY DEF In, ReadPendingSaves

(***************************************************************************)
(* Submissions and their numbers                                           *)
(***************************************************************************)
\* A submission is where it was, or is the one that is being looked up.
PlacedFrom(t, n) == \A u \in Tab, m \in 1..MaxSubs : Placed(u, m)' =>
                      Placed(u, m) \/ (u = t /\ m = n)
Reached(t, n) ==
  Placed(t, n) \/ \E q \in queue : q.stage # "decide" /\ TabOf[q.frame] = t /\ q.save.n = n
PlacedBefore == \A u \in Tab, m \in 1..MaxSubs : Placed(u, m)' => Reached(u, m)
MarkedBefore ==
  \A n \in stale' \cup answered' : n \in stale \cup answered \/ \E t \in Tab : Placed(t, n)

LEMMA SendKeepsNumbers ==
  ASSUME Typing, Typing', NumberInv, NEW t \in Tab, Sends(t), PlacedBefore, MarkedBefore
  PROVE  NumberInv'
<1>1. PICK s : /\ queue' = queue \cup {s} /\ s.stage = "decide" /\ TabOf[s.frame] = t
               /\ s.save.n = count + 1 /\ count' = count + 1
  BY DEF Sends
<1>2. \A q \in queue : TabOf[q.frame] \in Tab /\ q.save.n \in 1..MaxSubs /\ q.save.n <= count
  BY Fields DEF NumberInv, Located
<1>3. \A u \in Tab, n \in 1..MaxSubs : Placed(u, n)' => n <= count
  BY DEF PlacedBefore, Reached, NumberInv, Located
<1>4. \A n \in stale' \cup answered' : n \in 1..MaxSubs /\ n <= count
  BY DEF MarkedBefore, NumberInv, Located, Typing, TypeOK
<1>5. count \in Nat /\ s \in queue' /\ count + 1 \in 1..MaxSubs
  BY <1>1, Fields DEF Typing, TypeOK, Queueing, Save
<1>6. \A u \in Tab, n \in 1..MaxSubs : Located(u, n)' => Located(u, n) \/ (u = t /\ n = count + 1)
  BY <1>1 DEF Located, PlacedBefore, Reached
<1>7. \A u \in Tab, n \in 1..MaxSubs : Located(u, n) => n <= count
  BY DEF NumberInv
<1>8. \A u \in Tab, n \in 1..MaxSubs : Located(u, n)' => n <= count'
  BY <1>1, <1>5, <1>6, <1>7
<1>9. \A u, v \in Tab, n \in 1..MaxSubs : Located(u, n)' /\ Located(v, n)' => u = v
  BY <1>5, <1>6, <1>7 DEF NumberInv
<1>10. \A n \in stale' \cup answered' : n <= count'
  BY <1>1, <1>4, <1>5
<1>11. \A q, e \in queue' : q.save.n = e.save.n => q = e
  BY <1>1, <1>2, <1>5 DEF NumberInv
<1>12. ASSUME NEW q \in queue', q.stage = "decide"
       PROVE  /\ q.save.n \notin stale' \cup answered'
              /\ \A u \in Tab : ~Placed(u, q.save.n)'
  <2>1. CASE q = s
    BY <1>1, <1>2, <1>3, <1>4, <1>5, <2>1
  <2>2. CASE q \in queue
    <3>1. \A u \in Tab : ~Reached(u, q.save.n)
      BY <1>12, <2>2 DEF NumberInv, Reached
    <3>2. q.save.n \notin stale \cup answered
      BY <1>12, <2>2 DEF NumberInv
    <3> QED BY <1>2, <2>2, <3>1, <3>2 DEF PlacedBefore, MarkedBefore, Reached
  <2> QED BY <1>1, <2>1, <2>2
<1> QED BY <1>8, <1>9, <1>10, <1>11, <1>12 DEF NumberInv

LEMMA RestKeepsNumbers ==
  ASSUME Typing, Typing', NumberInv, queue' \subseteq queue, count' = count, PlacedBefore, MarkedBefore
  PROVE  NumberInv'
<1>1. \A u \in Tab, n \in 1..MaxSubs : Located(u, n)' => Located(u, n)
  BY DEF Located, PlacedBefore, Reached
<1>2. \A n \in stale' \cup answered' : n \in stale \cup answered \/
         \E t \in Tab : Placed(t, n)
  BY DEF MarkedBefore
<1>3. \A n \in stale' \cup answered' : n <= count'
  <2> TAKE n \in stale' \cup answered'
  <2>1. CASE n \in stale \cup answered
    BY <2>1 DEF NumberInv
  <2>2. CASE \E t \in Tab : Placed(t, n)
    <3>1. n \in 1..MaxSubs
      BY DEF Typing, TypeOK
    <3> QED BY <2>2, <3>1 DEF NumberInv, Located
  <2> QED BY <1>2, <2>1, <2>2
<1>4. ASSUME NEW q \in queue', q.stage = "decide"
      PROVE  /\ q.save.n \notin stale' \cup answered'
             /\ \A u \in Tab : ~Placed(u, q.save.n)'
  <2>1. q \in queue /\ q.save.n \in 1..MaxSubs
    BY Fields
  <2>2. \A u \in Tab : ~Reached(u, q.save.n)
    BY <1>4, <2>1 DEF NumberInv, Reached
  <2>3. q.save.n \notin stale \cup answered
    BY <1>4, <2>1 DEF NumberInv
  <2> QED BY <1>2, <2>1, <2>2, <2>3 DEF PlacedBefore, Reached
<1>5. \A u \in Tab, n \in 1..MaxSubs : Located(u, n)' => n <= count'
  BY <1>1 DEF NumberInv
<1>6. \A u, v \in Tab, n \in 1..MaxSubs : Located(u, n)' /\ Located(v, n)' => u = v
  BY <1>1 DEF NumberInv
<1>7. \A q, e \in queue' : q.save.n = e.save.n => q = e
  BY DEF NumberInv
<1> QED BY <1>3, <1>4, <1>5, <1>6, <1>7 DEF NumberInv

LEMMA AdvanceKeepsNumbers ==
  ASSUME Typing, NumberInv, NEW q \in queue, NEW e, Advances(q, e), e.stage # "decide",
         PlacedFrom(TabOf[q.frame], q.save.n), stale' = stale, answered' = answered
  PROVE  NumberInv'
<1>1. queue' = (queue \ {q}) \cup {e} /\ e.frame = q.frame /\ e.save.n = q.save.n /\ count' = count
  BY DEF Advances
<1>2. /\ TabOf[q.frame] \in Tab /\ q.save.n \in 1..MaxSubs /\ Located(TabOf[q.frame], q.save.n)
  BY Fields DEF Located
<1>3. \A u \in Tab, n \in 1..MaxSubs : Located(u, n)' => Located(u, n)
  BY <1>1, <1>2 DEF Located, PlacedFrom
<1>4. \A u \in Tab, n \in 1..MaxSubs : Located(u, n)' => n <= count'
  BY <1>1, <1>3 DEF NumberInv
<1>5. \A u, v \in Tab, n \in 1..MaxSubs : Located(u, n)' /\ Located(v, n)' => u = v
  BY <1>3 DEF NumberInv
<1>6. \A n \in stale' \cup answered' : n <= count'
  BY <1>1 DEF NumberInv
<1>7. \A p, r \in queue' : p.save.n = r.save.n => p = r
  BY <1>1 DEF NumberInv
<1>8. ASSUME NEW p \in queue', p.stage = "decide"
      PROVE  /\ p.save.n \notin stale' \cup answered'
             /\ \A u \in Tab : ~Placed(u, p.save.n)'
  <2>1. p \in queue /\ p # q /\ p.save.n \in 1..MaxSubs /\ p.save.n # q.save.n
    BY <1>1, <1>8, Fields DEF NumberInv
  <2>2. \A u \in Tab : ~Placed(u, p.save.n)
    BY <1>8, <2>1 DEF NumberInv
  <2>3. \A u \in Tab : ~Placed(u, p.save.n)'
    BY <2>1, <2>2 DEF PlacedFrom
  <2>4. p.save.n \notin stale' \cup answered'
    BY <1>8, <2>1 DEF NumberInv
  <2> QED BY <2>3, <2>4
<1> QED BY <1>4, <1>5, <1>6, <1>7, <1>8 DEF NumberInv

LEMMA NumberInvKept ==
  ASSUME Typing, Typing', NumberInv, QuietStep
  PROVE  NumberInv'
<1> USE DEF MarkedBefore
<1>1. ASSUME NEW f \in Frame, Moves(f) PROVE NumberInv'
  <2>1. Storing' = Storing
    BY <1>1 DEF Moves, Sends, SendsNothing, Storing
  <2>2. PlacedBefore
    BY <1>1, <2>1, NoneIsNothing DEF Moves, PlacedBefore, Reached, Placed, In
  <2>3. TabOf[f] \in Tab
    BY Fields
  <2> QED BY <1>1, <2>2, <2>3, SendKeepsNumbers, RestKeepsNumbers DEF Moves, SendsNothing
<1>4. ASSUME NEW f \in Frame, Asks(f) PROVE NumberInv'
  <2>1. Storing' = Storing
    BY <1>4 DEF Asks, SendsNothing, Storing
  <2>2. \A a \in told' : a \in told \/ (TabOf[a.frame] = TabOf[f] /\ In(table, TabOf[f], a.save.n))
    BY <1>4, Fields DEF Asks, ReadPendingSaves, In
  <2>3. PlacedBefore
    BY <1>4, <2>1, <2>2 DEF Asks, SamePrompt, PlacedBefore, Reached, Placed, In
  <2> QED BY <1>4, <2>3, RestKeepsNumbers DEF Asks, SendsNothing
<1>5. ASSUME NEW a \in told, ShowsHeld(a) PROVE NumberInv'
  <2>1. Storing' = Storing
    BY <1>5 DEF ShowsHeld, SendsNothing, Storing
  <2>2. \A g \in Frame : page'[g].prompt # page[g].prompt => g = a.frame /\ page'[g].prompt = a.save
    BY <1>5 DEF ShowsHeld, Hears, SamePrompt
  <2>3. PlacedBefore
    BY <1>5, <2>1, <2>2 DEF ShowsHeld, PlacedBefore, Reached, Placed, In
  <2> QED BY <1>5, <2>3, RestKeepsNumbers DEF ShowsHeld, SendsNothing
<1>6. ASSUME NEW t \in Tab, clears' = {Clearing(t)}, Storing' = Storing,
             UNCHANGED <<table, told>>,
             \A u \in Tab : due'[u] \in {None, due[u]},
             \A g \in Frame : page'[g].prompt \in {None, page[g].prompt}
      PROVE  PlacedBefore
  <2>1. \A u \in Tab, n \in 1..MaxSubs : \A j \in clears' : In(j.copy, u, n) => In(table, u, n)
    BY <1>6, ReadIsIn DEF Clearing
  <2> QED BY <1>6, <2>1, NoneIsNothing DEF PlacedBefore, Reached, Placed, In
<1>7. ASSUME NEW f \in Frame, Answers(f) PROVE NumberInv'
  <2>1. Storing' = Storing /\ TabOf[f] \in Tab
    BY <1>7, Fields DEF Answers, SendsNothing, Storing
  <2>2. PlacedBefore
    BY <1>6, <1>7, <2>1 DEF Answers, SamePrompt
  <2>3. Placed(TabOf[f], page[f].prompt.n)
    BY <1>7 DEF Answers, Placed
  <2> QED BY <1>7, <2>1, <2>2, <2>3, RestKeepsNumbers DEF Answers, SendsNothing
<1>8. ASSUME NEW t \in Tab, Closes(t) PROVE NumberInv'
  <2>1. Storing' = Storing
    BY <1>8 DEF Closes, SendsNothing, Storing
  <2>2. PlacedBefore
    BY <1>6, <1>8, <2>1 DEF Closes, SamePrompt
  <2> QED BY <1>8, <2>2, RestKeepsNumbers DEF Closes, SendsNothing
<1>9. ASSUME NEW q \in queue, Takes(q) PROVE NumberInv'
  <2>1. PICK e : Advances(q, e) /\ e.stage = "write" /\ e.copy = ReadPendingSaves
    BY <1>9 DEF Takes
  <2>2. Storing' = {e}
    BY <1>9, <2>1 DEF Takes, Advances, Storing
  <2>3. \A u \in Tab, n \in 1..MaxSubs : In(e.copy, u, n) => In(table, u, n)
    BY <2>1, ReadIsIn
  <2>4. PlacedFrom(TabOf[q.frame], q.save.n)
    BY <1>9, <2>2, <2>3 DEF Takes, PlacedFrom, Placed
  <2> QED BY <1>9, <2>1, <2>4, AdvanceKeepsNumbers DEF Takes
<1>10. ASSUME NEW q \in queue, Drops(q) PROVE NumberInv'
  <2>1. Storing' = Storing
    BY <1>10 DEF Drops, Storing
  <2>2. PlacedBefore
    BY <1>10, <2>1 DEF Drops, PlacedBefore, Reached, Placed
  <2> QED BY <1>10, <2>2, RestKeepsNumbers DEF Drops
<1>11. ASSUME NEW q \in queue, Writes(q) PROVE NumberInv'
  <2>1. PICK e : Advances(q, e) /\ e.stage = "reply"
    BY <1>11 DEF Writes
  <2>2. Storing' \subseteq Storing /\ q \in Storing
    BY <1>11, <2>1 DEF Writes, Advances, Storing
  <2>3. PlacedFrom(TabOf[q.frame], q.save.n)
    BY <1>11, <2>2 DEF Writes, PlacedFrom, Placed, In
  <2> QED BY <1>11, <2>1, <2>3, AdvanceKeepsNumbers DEF Writes
<1>12. ASSUME NEW q \in queue, Replies(q) PROVE NumberInv'
  <2>1. Storing' = Storing
    BY <1>12 DEF Replies, Storing
  <2>2. \A g \in Frame : page'[g].prompt # page[g].prompt => g = q.frame /\ page'[g].prompt = q.save
    BY <1>12 DEF Replies, Hears, SamePrompt
  <2>3. PlacedBefore
    BY <1>12, <2>1, <2>2 DEF Replies, PlacedBefore, Reached, Placed, In
  <2> QED BY <1>12, <2>3, RestKeepsNumbers DEF Replies
<1>13. ASSUME NEW j \in clears, Removes(j) PROVE NumberInv'
  <2>1. Storing' = Storing
    BY <1>13 DEF Removes, Storing
  <2>2. PlacedBefore
    BY <1>13, <2>1 DEF Removes, PlacedBefore, Reached, Placed, In
  <2> QED BY <1>13, <2>2, RestKeepsNumbers DEF Removes
<1>14. ASSUME NEW n \in 1..MaxSubs, Expires(n) PROVE NumberInv'
  <2>1. Storing' = Storing
    BY <1>14 DEF Expires, Storing
  <2>2. PlacedBefore
    BY <1>14, <2>1, NoneIsNothing DEF Expires, PlacedBefore, Reached, Placed, In
  <2> QED BY <1>14, <2>2, RestKeepsNumbers DEF Expires
<1>15. ASSUME Elsewhere PROVE NumberInv'
  <2>1. Storing' = Storing
    BY <1>15 DEF Elsewhere, Storing
  <2>2. PlacedBefore
    BY <1>15, <2>1 DEF Elsewhere, PlacedBefore, Reached, Placed, In
  <2> QED BY <1>15, <2>2, RestKeepsNumbers DEF Elsewhere
<1> QED BY <1>1, <1>4, <1>5, <1>7, <1>8, <1>9, <1>10, <1>11, <1>12, <1>13, <1>14, <1>15
        DEF QuietStep

(***************************************************************************)
(* One writer, and what it has read                                        *)
(***************************************************************************)
LEMMA SameStoring ==
  ASSUME \/ \E t \in Tab : Sends(t)
         \/ SendsNothing
         \/ \E q \in queue : q.stage # "write" /\ queue' = queue \ {q}
  PROVE  Storing' = Storing
  BY DEF Sends, SendsNothing, Storing

LEMMA TakeStores ==
  ASSUME NEW q \in queue, Takes(q)
  PROVE  \E e : /\ Storing' = {e} /\ e \in queue' /\ e.stage = "write" /\ e.frame = q.frame
                /\ e.save.n = q.save.n /\ e.copy = ReadPendingSaves
                /\ queue' = (queue \ {q}) \cup {e}
<1>1. PICK e : Advances(q, e) /\ e.stage = "write" /\ e.copy = ReadPendingSaves
  BY DEF Takes
<1>2. Storing = {}
  BY DEF Takes
<1>3. Storing' = {e}
  BY <1>1, <1>2 DEF Advances, Storing
<1> QED BY <1>1, <1>3 DEF Advances

LEMMA StoringSteps ==
  ASSUME Typing, OneWriter, QuietStep
  PROVE  \/ Storing' = Storing
         \/ Storing' = {}
         \/ \E q \in queue : Takes(q)
<1>1. CASE \E q \in queue : Takes(q)
  BY <1>1
<1>2. CASE \E q \in queue : Writes(q)
  <2>1. PICK q \in queue : Writes(q)
    BY <1>2
  <2>2. PICK e : Advances(q, e) /\ e.stage = "reply"
    BY <2>1 DEF Writes
  <2>3. q \in Storing
    BY <2>1 DEF Writes, Storing
  <2>4. Storing = {q} /\ clears = {}
    BY <2>3 DEF OneWriter
  <2>5. Storing' = {}
    BY <2>2, <2>4 DEF Advances, Storing
  <2> QED BY <2>5
<1>3. CASE ~ \E q \in queue : Takes(q) \/ Writes(q)
  <2>1. \/ \E t \in Tab : Sends(t)
        \/ SendsNothing
        \/ \E q \in queue : q.stage # "write" /\ queue' = queue \ {q}
    BY <1>3, Fields DEF QuietStep, Moves, Asks, Answers, Closes, ShowsHeld, Drops, Replies,
                Removes, Expires, Elsewhere, SendsNothing
  <2> QED BY <1>3, <2>1, SameStoring
<1> QED BY <1>1, <1>2, <1>3

LEMMA ClearsSteps ==
  ASSUME QuietStep
  PROVE  \/ clears' \subseteq clears
         \/ \E f \in Frame : Answers(f)
         \/ \E t \in Tab : Closes(t)
  BY DEF QuietStep, Moves, Asks, Answers, Closes, ShowsHeld, Takes, Writes, Drops,
         Replies, Removes, Expires, Elsewhere

\* An answer and the end of a tab are alike: the tab waits for nothing any more.
LEMMA TabsEnd ==
  ASSUME Typing, (\E f \in Frame : Answers(f)) \/ (\E t \in Tab : Closes(t))
  PROVE  \E t \in Tab :
           /\ Storing = {} /\ Storing' = {} /\ clears = {} /\ clears' = {Clearing(t)}
           /\ due'[t] = None
           /\ \A u \in Tab : due'[u] # None => due'[u] = due[u] /\ u # t
           /\ closed' \subseteq closed \cup {t}
           /\ queue' = queue /\ table' = table /\ told' = told /\ stale' = stale
<1>1. ASSUME NEW f \in Frame, Answers(f)
      PROVE  Storing' = {} /\ TabOf[f] \in Tab
  BY <1>1, SameStoring, Fields DEF Answers
<1>2. ASSUME NEW t \in Tab, Closes(t) PROVE Storing' = {}
  BY <1>2, SameStoring DEF Closes
<1>3. CASE \E f \in Frame : Answers(f)
  BY <1>1, <1>3 DEF Answers, SendsNothing
<1>4. CASE \E t \in Tab : Closes(t)
  BY <1>2, <1>4 DEF Closes, SendsNothing
<1> QED BY <1>3, <1>4

LEMMA OneWriterKept ==
  ASSUME Typing, OneWriter, QuietStep
  PROVE  OneWriter'
<1>1. CASE (\E f \in Frame : Answers(f)) \/ (\E t \in Tab : Closes(t))
  <2>1. PICK t \in Tab : Storing' = {} /\ clears' = {Clearing(t)}
    BY <1>1, TabsEnd
  <2> QED BY <2>1 DEF OneWriter
<1>2. CASE ~ ((\E f \in Frame : Answers(f)) \/ (\E t \in Tab : Closes(t)))
  <2>1. clears' \subseteq clears
    BY <1>2, ClearsSteps
  <2>2. ASSUME NEW q \in queue, Takes(q) PROVE OneWriter'
    BY <2>1, <2>2, TakeStores DEF Takes, OneWriter
  <2> QED BY <2>1, <2>2, StoringSteps DEF OneWriter
<1> QED BY <1>1, <1>2

\* The submission a tab waits for changes when it is looked up.
LEMMA DueSteps ==
  ASSUME Typing, QuietStep
  PROVE  \/ \A t \in Tab : due'[t] \in {None, due[t]}
         \/ \E q \in queue : Takes(q)
  BY DEF QuietStep, Moves, Asks, Answers, Closes, ShowsHeld, Takes, Writes, Drops,
         Replies, Removes, Expires, Elsewhere

\* While nobody writes the table, it holds what is waited for.
LEMMA ReadIsDue ==
  ASSUME HeldDue, NEW t \in Tab, due[t] # None,
         ~ \E q \in Storing : TabOf[q.frame] = t /\ q.save.n = due[t]
  PROVE  In(ReadPendingSaves, t, due[t])
  BY ReadIsIn DEF HeldDue

LEMMA CopiesDueKept ==
  ASSUME Typing, Typing', QuietInv, QuietStep
  PROVE  CopiesDue'
<1> USE DEF QuietInv
<1>1. CASE (\E f \in Frame : Answers(f)) \/ (\E t \in Tab : Closes(t))
  <2>1. PICK t \in Tab :
          /\ Storing = {} /\ Storing' = {} /\ clears' = {Clearing(t)}
          /\ \A u \in Tab : due'[u] # None => due'[u] = due[u] /\ u # t
    BY <1>1, TabsEnd
  <2>2. \A u \in Tab : due'[u] # None => In(ReadPendingSaves, u, due[u])
    BY <2>1, ReadIsDue
  <2> QED BY <2>1, <2>2 DEF CopiesDue, Clearing, In
<1>2. ASSUME NEW q \in queue, Takes(q) PROVE CopiesDue'
  <2>1. PICK e : /\ Storing' = {e} /\ e.frame = q.frame /\ e.save.n = q.save.n
                 /\ e.copy = ReadPendingSaves
    BY <1>2, TakeStores
  <2>2. clears' = {} /\ Storing = {}
    BY <1>2 DEF Takes
  <2>3. \A u \in Tab : due'[u] = IF u = TabOf[q.frame] /\ u \notin closed THEN q.save.n ELSE due[u]
    BY <1>2 DEF Takes
  <2>4. TabOf[q.frame] \in Tab
    BY Fields
  <2>5. due'[TabOf[q.frame]] # None => q.save.n = due'[TabOf[q.frame]]
    BY <2>3, <2>4 DEF HeldDue
  <2>6. \A u \in Tab : u # TabOf[q.frame] /\ due'[u] # None => In(e.copy, u, due'[u])
    BY <2>1, <2>2, <2>3, ReadIsDue
  <2> QED BY <2>1, <2>2, <2>5, <2>6 DEF CopiesDue, In
<1>3. CASE /\ ~ ((\E f \in Frame : Answers(f)) \/ (\E t \in Tab : Closes(t)))
           /\ ~ \E q \in queue : Takes(q)
  <2>1. Storing' \subseteq Storing /\ clears' \subseteq clears
    BY <1>3, StoringSteps, ClearsSteps
  <2>2. \A t \in Tab : due'[t] # None => due'[t] = due[t]
    BY <1>3, DueSteps
  <2> QED BY <2>1, <2>2, Fields DEF CopiesDue, In
<1> QED BY <1>1, <1>2, <1>3

LEMMA HeldDueKept ==
  ASSUME Typing, Typing', QuietInv, QuietStep
  PROVE  HeldDue'
<1> USE DEF QuietInv
<1>1. ASSUME NEW q \in queue, Takes(q) PROVE HeldDue'
  <2>1. PICK e : Storing' = {e} /\ e.frame = q.frame /\ e.save.n = q.save.n
    BY <1>1, TakeStores
  <2>2. \A u \in Tab : due'[u] = IF u = TabOf[q.frame] /\ u \notin closed THEN q.save.n ELSE due[u]
    BY <1>1 DEF Takes
  <2>3. closed' = closed /\ stale' = stale /\ table' = table /\ Storing = {}
    BY <1>1 DEF Takes
  <2>4. q.save.n \notin stale
    BY <1>1 DEF NumberInv, Takes
  <2>5. ASSUME NEW u \in Tab, due'[u] # None, u = TabOf[q.frame] /\ u \notin closed
        PROVE  due'[u] \notin stale /\ TabOf[e.frame] = u /\ e.save.n = due'[u]
    BY <2>1, <2>2, <2>4, <2>5
  <2>6. ASSUME NEW u \in Tab, due'[u] # None, ~(u = TabOf[q.frame] /\ u \notin closed)
        PROVE  u \notin closed /\ due'[u] \notin stale /\ In(table, u, due'[u])
    BY <2>2, <2>3, <2>6 DEF HeldDue
  <2> QED BY <2>1, <2>3, <2>5, <2>6 DEF HeldDue, In
<1>2. ASSUME NEW q \in queue, Writes(q) PROVE HeldDue'
  <2>1. Storing = {q}
    BY <1>2 DEF OneWriter, Writes, Storing
  <2>2. \A u \in Tab : due[u] # None =>
          IF u = TabOf[q.frame] THEN q.save.n = due[u] ELSE In(q.copy, u, due[u])
    BY <2>1 DEF CopiesDue
  <2>3. q.save # None
    BY Fields, NoneIsNothing
  <2>4. \A u \in Tab : due[u] # None => table'[u] # None /\ table'[u].n = due[u]
    BY <1>2, <2>2, <2>3 DEF Writes, In
  <2> QED BY <1>2, <2>4 DEF Writes, HeldDue, In
<1>3. ASSUME NEW j \in clears, Removes(j) PROVE HeldDue'
  <2>1. \A u \in Tab : due[u] # None => table'[u] # None /\ table'[u].n = due[u]
    BY <1>3 DEF Removes, CopiesDue, In
  <2> QED BY <1>3, <2>1 DEF Removes, HeldDue, In
<1>4. ASSUME NEW n \in 1..MaxSubs, Expires(n) PROVE HeldDue'
  <2>1. Storing' = Storing
    BY <1>4 DEF Expires, Storing
  <2> QED BY <1>4, <2>1 DEF Expires, HeldDue, In
<1>5. CASE (\E f \in Frame : Answers(f)) \/ (\E t \in Tab : Closes(t))
  <2>1. PICK t \in Tab :
          /\ Storing = {} /\ Storing' = {} /\ table' = table /\ stale' = stale
          /\ closed' \subseteq closed \cup {t}
          /\ \A u \in Tab : due'[u] # None => due'[u] = due[u] /\ u # t
    BY <1>5, TabsEnd
  <2> QED BY <2>1 DEF HeldDue, In
<1>6. CASE \/ \E f \in Frame : Moves(f) \/ Asks(f)
           \/ \E a \in told : ShowsHeld(a)
           \/ \E q \in queue : Drops(q) \/ Replies(q)
           \/ Elsewhere
  <2>1. table' = table /\ stale' = stale /\ closed' = closed /\ due' = due
    BY <1>6 DEF Moves, Asks, ShowsHeld, Drops, Replies, Elsewhere
  <2>2. \/ \E t \in Tab : Sends(t)
        \/ SendsNothing
        \/ \E q \in queue : q.stage # "write" /\ queue' = queue \ {q}
    BY <1>6, Fields DEF Moves, Asks, ShowsHeld, Drops, Replies, Elsewhere, SendsNothing
  <2>3. Storing' = Storing
    BY <2>2, SameStoring
  <2> QED BY <2>1, <2>3 DEF HeldDue, In
<1> QED BY <1>1, <1>2, <1>3, <1>4, <1>5, <1>6 DEF QuietStep

(***************************************************************************)
(* What has been answered                                                  *)
(***************************************************************************)
LEMMA OverKept ==
  ASSUME Typing, Typing', QuietInv, QuietStep, NEW n \in answered
  PROVE  Over(n)'
<1> USE DEF QuietInv
<1>1. Over(n) /\ n \in 1..MaxSubs /\ n <= count
  BY DEF AnsweredInv, NumberInv, Typing, TypeOK
<1>2. count \in Nat /\ n # count + 1
  BY <1>1, Fields
\* Steps that leave the table and its writers alone.
<1>3. ASSUME table' = table, clears' = clears, Storing' = Storing,
             \A a \in told' : a.save.n # n,
             \A q \in queue' : q.save.n # n
      PROVE  Over(n)'
  BY <1>1, <1>3 DEF Over, In
<1>4. ASSUME NEW f \in Frame, Moves(f) PROVE Over(n)'
  <2>1. Storing' = Storing
    BY <1>4, SameStoring, Fields DEF Moves
  <2>2. \A q \in queue' : q.save.n # n
    BY <1>1, <1>2, <1>4 DEF Moves, Sends, SendsNothing, Over
  <2> QED BY <1>1, <1>3, <1>4, <2>1, <2>2 DEF Moves, Over
<1>5. ASSUME NEW f \in Frame, Asks(f) PROVE Over(n)'
  <2>1. Storing' = Storing /\ queue' = queue /\ TabOf[f] \in Tab
    BY <1>5, SameStoring, Fields DEF Asks, SendsNothing
  <2>2. ~In(table, TabOf[f], n)
    BY <1>1, <1>5, <2>1 DEF Asks, Settled, Over
  <2>3. \A a \in told' : a.save.n # n
    BY <1>1, <1>5, <2>1, <2>2, ReadIsIn DEF Asks, In, Over
  <2> QED BY <1>1, <1>3, <1>5, <2>1, <2>3 DEF Asks, Over
<1>6. ASSUME NEW a \in told, ShowsHeld(a) PROVE Over(n)'
  <2>1. Storing' = Storing
    BY <1>6, SameStoring DEF ShowsHeld
  <2> QED BY <1>1, <1>3, <1>6, <2>1 DEF ShowsHeld, SendsNothing, Over
<1>7. ASSUME NEW q \in queue, Replies(q) \/ Drops(q) PROVE Over(n)'
  <2>1. Storing' = Storing
    BY <1>7, SameStoring DEF Replies, Drops
  <2> QED BY <1>1, <1>3, <1>7, <2>1 DEF Replies, Drops, Over
<1>8. CASE (\E f \in Frame : Answers(f)) \/ (\E t \in Tab : Closes(t))
  <2>1. PICK t \in Tab :
          /\ Storing' = {} /\ clears = {} /\ clears' = {Clearing(t)}
          /\ queue' = queue /\ table' = table /\ told' = told
    BY <1>8, TabsEnd
  <2>2. \A u \in Tab : ~In(table, u, n)
    BY <1>1, <2>1 DEF Over
  <2>3. \A u \in Tab : ~In(ReadPendingSaves, u, n)
    BY <2>2, ReadIsIn
  <2> QED BY <1>1, <2>1, <2>2, <2>3 DEF Over, Clearing, In
<1>9. ASSUME NEW q \in queue, Takes(q) PROVE Over(n)'
  <2>1. PICK e : /\ Storing' = {e} /\ e.save.n = q.save.n /\ e.copy = ReadPendingSaves
                 /\ queue' = (queue \ {q}) \cup {e}
    BY <1>9, TakeStores
  <2>2. clears = {} /\ clears' = {} /\ UNCHANGED <<table, told>>
    BY <1>9 DEF Takes
  <2>3. \A u \in Tab : ~In(table, u, n) /\ ~In(ReadPendingSaves, u, n)
    BY <1>1, <2>2, ReadIsIn DEF Over
  <2> QED BY <1>1, <2>1, <2>2, <2>3 DEF Over, In
<1>10. ASSUME NEW q \in queue, Writes(q) PROVE Over(n)'
  <2>1. PICK e : /\ queue' = (queue \ {q}) \cup {e} /\ e.save.n = q.save.n /\ e.stage = "reply"
    BY <1>10 DEF Writes, Advances
  <2>2. q \in Storing
    BY <1>10 DEF Writes, Storing
  <2>3. Storing = {q} /\ clears = {} /\ clears' = clears
    BY <1>10, <2>2 DEF Writes, OneWriter
  <2>4. Storing' = {}
    BY <2>1, <2>3 DEF Storing
  <2>5. \A u \in Tab : ~(table'[u] # None /\ table'[u].n = n)
    BY <1>1, <1>10, <2>2 DEF Writes, Over, In
  <2>6. told' = told
    BY <1>10 DEF Writes
  <2> QED BY <1>1, <2>1, <2>3, <2>4, <2>5, <2>6 DEF Over, In
<1>11. ASSUME NEW j \in clears, Removes(j) PROVE Over(n)'
  <2>1. clears' = {} /\ Storing = {}
    BY <1>11 DEF Removes, OneWriter
  <2>2. Storing' = Storing
    BY <1>11 DEF Removes, Storing
  <2>3. \A u \in Tab : ~(table'[u] # None /\ table'[u].n = n)
    BY <1>1, <1>11 DEF Removes, Over, In
  <2> QED BY <1>1, <1>11, <2>1, <2>2, <2>3 DEF Removes, Over, In
<1>12. CASE (\E m \in 1..MaxSubs : Expires(m)) \/ Elsewhere
  <2>1. Storing' = Storing /\ UNCHANGED <<table, told, clears, queue>>
    BY <1>12 DEF Expires, Elsewhere, Storing
  <2> QED BY <1>1, <1>3, <2>1 DEF Over
<1> QED BY <1>4, <1>5, <1>6, <1>7, <1>8, <1>9, <1>10, <1>11, <1>12 DEF QuietStep

\* What a prompt asks is nowhere else where a frame would look for it, and an
\* answer takes it out of the table.
LEMMA AnsweredIsOver ==
  ASSUME Typing, Typing', QuietInv, NEW f \in Frame, Answers(f), NEW n, n = page[f].prompt.n
  PROVE  Over(n)'
<1> USE DEF QuietInv
<1>0. PICK t \in Tab : t = TabOf[f]
  BY Fields
<1>1. n \in 1..MaxSubs /\ Placed(t, n)
  BY <1>0, Fields DEF Answers, Placed
<1>2. \A u \in Tab : Located(u, n) => u = t
  BY <1>1 DEF NumberInv, Located
<1>3. \A q \in queue : q.save.n # n
  BY <1>0, <1>2, Fields DEF Located, Answers, Settled
<1>4. \A a \in told : a.save.n # n
  BY <1>0, <1>2, Fields DEF Located, Placed, Answers
<1>5. \A u \in Tab : In(table, u, n) => u = t
  BY <1>2 DEF Located, Placed
<1>6. \A u \in Tab : In(ReadPendingSaves, u, n) => u = t
  BY <1>5, ReadIsIn
<1>7. Storing' = {} /\ clears' = {Clearing(t)} /\ table' = table /\ told' = told /\ queue' = queue
  BY <1>0, SameStoring DEF Answers, SendsNothing
<1>8. \A u \in Tab : In(table, u, n)' => \E j \in clears' : j.tab = u
  BY <1>5, <1>7 DEF In, Clearing
<1>9. \A u \in Tab : \A j \in clears' : j.tab # u => ~In(j.copy, u, n)'
  BY <1>6, <1>7 DEF In, Clearing
<1> QED BY <1>3, <1>4, <1>7, <1>8, <1>9 DEF Over, In

LEMMA AnsweredInvKept ==
  ASSUME Typing, Typing', QuietInv, QuietStep
  PROVE  AnsweredInv'
<1>1. \A n \in answered : Over(n)'
  BY OverKept
<1>2. ASSUME NEW n \in answered', n \notin answered PROVE Over(n)'
  <2>1. PICK f \in Frame : Answers(f)
    BY <1>2 DEF QuietStep, Moves, Asks, Closes, ShowsHeld, Takes, Drops, Writes,
                Replies, Removes, Expires, Elsewhere
  <2>2. n = page[f].prompt.n
    BY <1>2, <2>1 DEF Answers
  <2> QED BY <2>1, <2>2, AnsweredIsOver
<1>3. \A n \in answered' : Over(n)'
  BY <1>1, <1>2
<1> QED BY <1>3 DEF AnsweredInv, Over

LEMMA QuietlyInit ==
  ASSUME Init
  PROVE  QuietInv
<1>1. /\ \A t \in Tab : table[t] = None /\ due[t] = None
      /\ \A f \in Frame : page[f].prompt = None
      /\ queue = {} /\ told = {} /\ clears = {} /\ stale = {} /\ answered = {}
  BY NoPromptFirst DEF Init
<1>2. \A t \in Tab, n \in 1..MaxSubs : ~Located(t, n)
  BY <1>1, NoneIsNothing DEF Located, Placed, In, Storing
<1>3. NumberInv
  BY <1>1, <1>2 DEF NumberInv
<1>4. OneWriter /\ CopiesDue /\ HeldDue
  BY <1>1 DEF OneWriter, CopiesDue, HeldDue, Storing
<1>5. AnsweredInv
  BY <1>1 DEF AnsweredInv
<1> QED BY <1>3, <1>4, <1>5 DEF QuietInv

LEMMA HasteStays ==
  ASSUME [Next]_vars
  PROVE  haste' = haste
  BY DEF Next, PageStep, WorkerStep, Submit, Leave, Load, AskHeld, Confirm, Dismiss, CloseTab,
         HeldShown, Decide, WritePending, Reply, ClearPending, SaveFind, SaveUpdate, SaveCreate,
         ToggleLock, Evict, Expire, DeleteLogin, Edit, vars, history

LEMMA AlwaysQuietly == Spec => []Quietly
<1>1. Init => Quietly
  BY QuietlyInit DEF Quietly
<1>2. Typing /\ Typing' /\ Quietly /\ [Next]_vars => Quietly'
  <2> SUFFICES ASSUME Typing, Typing', Quietly, [Next]_vars, haste' = {}
               PROVE  QuietInv'
    BY DEF Quietly
  <2>1. haste = {}
    BY HasteStays
  <2>2. QuietInv /\ QuietStep
    BY <2>1, QuietSteps DEF Quietly
  <2>3. NumberInv' /\ OneWriter'
    BY <2>2, NumberInvKept, OneWriterKept DEF QuietInv
  <2>4. CopiesDue' /\ HeldDue' /\ AnsweredInv'
    BY <2>2, CopiesDueKept, HeldDueKept, AnsweredInvKept
  <2> QED BY <2>3, <2>4 DEF QuietInv
<1> QED BY <1>1, <1>2, AlwaysTyped, PTL DEF Spec

\* Nothing that waits for an answer is lost, whatever other tabs, other frames,
\* navigations and locks do (pending saves in session storage), until a prompt
\* of the tab is answered: HeldUntilAnswered.
THEOREM SubmissionsAreHeld == Spec => []HeldUntilAnswered
<1>1. Quietly => HeldUntilAnswered
  BY DEF Quietly, QuietInv, HeldDue, HeldUntilAnswered, In
<1> QED BY <1>1, AlwaysQuietly, PTL

\* A prompt comes up with what the worker looked up or was holding, and nothing
\* of that has been answered.
LEMMA PromptsAreOpen ==
  ASSUME Typing, Quietly, [Next]_vars, haste = {}, NEW f \in Frame,
         page'[f].prompt \notin {None, page[f].prompt}
  PROVE  page'[f].prompt.n \notin answered
<1>1. QuietInv /\ QuietStep
  BY QuietSteps DEF Quietly
<1>2. CASE \E a \in told : ShowsHeld(a)
  <2>1. PICK a \in told : page'[f].prompt = a.save
    BY <1>2 DEF ShowsHeld, Hears, SamePrompt
  <2> QED BY <1>1, <2>1 DEF QuietInv, AnsweredInv, Over
<1>3. CASE \E q \in queue : Replies(q)
  <2>1. PICK q \in queue : page'[f].prompt = q.save
    BY <1>3 DEF Replies, Hears, SamePrompt
  <2> QED BY <1>1, <2>1 DEF QuietInv, AnsweredInv, Over
<1>4. CASE ~(\E a \in told : ShowsHeld(a)) /\ ~(\E q \in queue : Replies(q))
  <2>1. page'[f].prompt \in {None, page[f].prompt}
    BY <1>1, <1>4 DEF QuietStep, Moves, Asks, Answers, Closes, SamePrompt,
         Takes, Drops, Writes, Removes, Expires, Elsewhere
  <2> QED BY <2>1
<1> QED BY <1>2, <1>3, <1>4

\* An answer takes its submission from everywhere a frame looks, so that no frame
\* of any tab puts up a prompt for it again (the CLEAR_PENDING_SAVE that goes with
\* it): AnswerSticks.
THEOREM AnswersStick == Spec => AnswerSticks
<1>1. Typing /\ Quietly /\ [Next]_vars =>
        [haste = {} =>
           \A f \in Frame :
             page'[f].prompt \notin {None, page[f].prompt} => page'[f].prompt.n \notin answered]_vars
  BY PromptsAreOpen
<1> QED BY <1>1, AlwaysTyped, AlwaysQuietly, PTL DEF Spec, AnswerSticks

(***************************************************************************)
(* One tab: what was looked up still holds when the answer comes           *)
(***************************************************************************)
\* What remains of a host when labels in front are dropped.
IsEnd(e, h) == e = h \/ (Len(h) > Len(e) /\ Last(h, Len(e)) = e)

LEMMA EndOfHost ==
  ASSUME NEW h \in Host, NEW n \in 1..Len(h)
  PROVE  /\ Len(Last(h, n)) = n /\ IsEnd(Last(h, n), h)
         /\ \A i \in 1..n : Last(h, n)[i] = h[Len(h) - n + i]
<1>1. Len(h) - n + 1 \in 1..Len(h) /\ Len(h) \in Nat /\ n <= Len(h) /\ h \in Seq(STRING)
  BY LenProperties DEF Host
<1>2. \A i \in (Len(h) - n + 1)..Len(h) : h[i] \in STRING
  BY <1>1, ElementOfSeq
<1>3. /\ Last(h, n) \in Seq(STRING) /\ Len(Last(h, n)) = n
      /\ \A i \in 1..n : Last(h, n)[i] = h[Len(h) - n + i]
  BY <1>1, <1>2, SubSeqProperties DEF Last
<1>4. CASE n = Len(h)
  <2>1. \A i \in 1..n : Last(h, n)[i] = h[i]
    BY <1>1, <1>3, <1>4
  <2>2. Last(h, n) = h
    BY <1>1, <1>3, <1>4, <2>1, SeqEqual
  <2> QED BY <1>3, <2>2 DEF IsEnd
<1>5. CASE n # Len(h)
  <2>1. Len(h) > n
    BY <1>1, <1>5
  <2> QED BY <1>3, <2>1 DEF IsEnd
<1> QED BY <1>3, <1>4, <1>5

\* An end without its "www." is an end.
LEMMA GetHostOfEnd ==
  ASSUME NEW h \in Host, NEW n \in 1..Len(h), GetHost(h) = h, NEW e, e = Last(h, n)
  PROVE  IsEnd(GetHost(e), h)
<1>1. /\ Len(e) = n /\ IsEnd(e, h) /\ \A i \in 1..n : e[i] = h[Len(h) - n + i]
      /\ Len(h) \in Nat /\ h \in Seq(STRING)
  BY EndOfHost, LenProperties DEF Host
<1>2. e \in Host
  BY LastOfHost
<1>3. CASE GetHost(e) = e
  BY <1>1, <1>3
<1>4. CASE GetHost(e) # e
  <2>1. n > 1 /\ GetHost(e) = Tail(e)
    BY <1>1, <1>4 DEF GetHost
  <2>2. /\ Tail(e) \in Seq(STRING) /\ Len(Tail(e)) = n - 1
        /\ \A i \in 1..(n - 1) : Tail(e)[i] = e[i + 1]
    BY <1>1, <1>2, <2>1, HeadTailProperties DEF Host
  <2>3. n - 1 \in 1..Len(h)
    BY <1>1, <2>1
  <2>4. PICK d : d = Last(h, n - 1)
    OBVIOUS
  <2>5. /\ Len(d) = n - 1 /\ IsEnd(d, h)
        /\ \A i \in 1..(n - 1) : d[i] = h[Len(h) - (n - 1) + i]
    BY <2>3, <2>4, EndOfHost
  <2>6. d \in Seq(STRING)
    BY <2>3, <2>4, LastOfHost DEF Host
  <2>7. ASSUME NEW i \in 1..(n - 1) PROVE d[i] = Tail(e)[i]
    <3>1. i + 1 \in 1..n /\ Len(h) - (n - 1) + i = Len(h) - n + (i + 1)
      BY <1>1, <2>1
    <3>2. e[i + 1] = h[Len(h) - n + (i + 1)]
      BY <1>1, <3>1
    <3> QED BY <2>2, <2>5, <3>1, <3>2
  <2>8. d = Tail(e)
    BY <2>2, <2>5, <2>6, <2>7, SeqEqual
  <2> QED BY <2>1, <2>5, <2>8
<1> QED BY <1>3, <1>4

\* A host is of its own registrable domain.
LEMMA RegistrableMatches ==
  ASSUME NEW s \in Site
  PROVE  MatchStrength(RegistrableDomain(s), s) # NoMatch
<1>1. PICK h : h = GetHost(s)
  OBVIOUS
<1>2. h \in Host /\ GetHost(h) = h
  BY <1>1, SiteAssumption, GetHostOfHost DEF Host
<1>3. Len(h) \in Nat \ {0}
  BY <1>2, EmptySeq DEF Host
<1>4. PICK d : d = RegistrableDomain(s)
  OBVIOUS
<1>5. SUFFICES IsEnd(GetHost(d), h)
  BY <1>1, <1>4 DEF MatchStrength, IsEnd, Below, Exact, Parent, NoMatch
<1>6. CASE d = h
  BY <1>2, <1>6 DEF IsEnd
<1>7. ASSUME NEW n \in 1..Len(h), d = Last(h, n) PROVE IsEnd(GetHost(d), h)
  BY <1>2, <1>7, GetHostOfEnd
<1>8. CASE h \notin Address /\ UnderShared(h, 3)
  <2>1. 4 \in 1..Len(h)
    BY <1>3, <1>8 DEF UnderShared
  <2>2. d = Last(h, 4)
    BY <1>1, <1>4, <1>8 DEF RegistrableDomain
  <2> QED BY <1>7, <2>1, <2>2
<1>9. CASE h \notin Address /\ ~UnderShared(h, 3) /\ UnderShared(h, 2)
  <2>1. 3 \in 1..Len(h)
    BY <1>3, <1>9 DEF UnderShared
  <2>2. d = Last(h, 3)
    BY <1>1, <1>4, <1>9 DEF RegistrableDomain
  <2> QED BY <1>7, <2>1, <2>2
<1>10. CASE h \notin Address /\ ~UnderShared(h, 3) /\ ~UnderShared(h, 2) /\ Len(h) > 2
  <2>1. 2 \in 1..Len(h) /\ 3 \in 1..Len(h)
    BY <1>3, <1>10
  <2>2. d \in {Last(h, 2), Last(h, 3)}
    BY <1>1, <1>3, <1>4, <1>10 DEF RegistrableDomain
  <2> QED BY <1>7, <2>1, <2>2
<1>11. CASE h \in Address \/ (~UnderShared(h, 3) /\ ~UnderShared(h, 2) /\ ~(Len(h) > 2))
  <2>1. d = h
    BY <1>1, <1>3, <1>4, <1>11 DEF RegistrableDomain
  <2> QED BY <1>6, <2>1
<1> QED BY <1>8, <1>9, <1>10, <1>11

\* The login a submission would double.
Twin(l, s) == vault[l].url = s.site /\ vault[l].user = s.user /\ s.user # Blank

\* The lookup finds every twin.
LEMMA TwinBelongs ==
  ASSUME NEW l \in Login, vault[l] \in Record, Coherent(vault[l]), NEW s \in Save, Twin(l, s)
  PROVE  Belongs(l, s)
<1>1. PICK login : login = vault[l]
  OBVIOUS
<1>2. /\ login.url = s.site /\ login.user = s.user /\ s.user # Blank /\ s.site \in Site
      /\ login.host \in {None, GetHost(s.site)}
      /\ login.domain \in {RegistrableDomain(s.site), GetHost(s.site)}
  BY <1>1 DEF Twin, Coherent, Save
<1>3. MatchStrength(login.url, s.site) = Exact /\ login.url # None
  BY <1>2, NoneIsNothing, ExactIsSame DEF SameHost
<1>4. MatchStrength(Key(login), s.site) # NoMatch
  <2>1. CASE Key(login) = RegistrableDomain(s.site)
    BY <1>2, <2>1, RegistrableMatches
  <2>2. CASE Key(login) = GetHost(s.site)
    <3>1. GetHost(GetHost(s.site)) = GetHost(s.site)
      BY <1>2, SiteAssumption
    <3>2. MatchStrength(Key(login), s.site) = Exact
      BY <2>2, <3>1, ExactIsSame DEF SameHost
    <3> QED BY <3>2 DEF Exact, NoMatch
  <2> QED BY <1>2, <2>1, <2>2 DEF Key
<1> QED BY <1>1, <1>2, <1>3, <1>4 DEF Belongs

\* What is to be kept as a new login has no twin.
Unmatched(s) == s.item = None => \A l \in Stored : ~Twin(l, s)

\* The user can answer about s, or will be able to.
Askable(s) ==
  \/ \E q \in queue : q.stage # "decide" /\ q.save = s
  \/ \E a \in told : a.save = s
  \/ \E f \in Frame : page[f].prompt = s
  \/ clears = {} /\ \E t \in Tab : table[t] = s

Answering(s) == \E j \in saves : j.save = s

\* In the one tab, unless two of its frames ask, one save is carried out at a
\* time, and nothing else is asked meanwhile.
SoloInv ==
  /\ \A s \in Save : Askable(s) \/ Answering(s) => Unmatched(s)
  /\ saves # {} => (\A j, k \in saves : j = k) /\ \A s \in Save : ~Askable(s)

NoTwins ==
  \A k, l \in Stored :
    k # l /\ vault[k].url = vault[l].url /\ vault[k].user = vault[l].user =>
      vault[l].user = Blank

\* What becomes visible to the user was so before, or is the result of a lookup.
LEMMA QueueFrom ==
  ASSUME Typing, MatchInv, haste = {}, [Next]_vars, NEW e \in queue', e.stage # "decide"
  PROVE  \/ \E q \in queue : q.stage # "decide" /\ q.save = e.save
         \/ saves = {} /\ vault' = vault /\ Unmatched(e.save)
<1>1. CASE e \in queue
  BY <1>1
<1>2. ASSUME e \notin queue, NEW q \in queue, NEW d \in Login \cup {None, "locked", "same"},
             Decide(q, d)
      PROVE  saves = {} /\ vault' = vault /\ Unmatched(e.save)
  <2>1. saves = {} /\ vault' = vault /\ d \in Decisions(q.save) /\ Actionable(d)
    BY <1>2 DEF Decide
  <2>2. e = [q EXCEPT !.stage = "write", !.save.item = d, !.copy = ReadPendingSaves]
    BY <1>2, <2>1 DEF Decide
  <2>3. /\ e.save.item = d /\ e.save.site = q.save.site /\ e.save.user = q.save.user
        /\ q.save \in Save
    BY <2>2, Fields DEF Queueing, Save
  <2>4. ASSUME e.save.item = None, NEW l \in Stored, Twin(l, e.save) PROVE FALSE
    <3>1. l \in Login /\ vault[l] \in Record /\ Coherent(vault[l])
      BY StoredIsRecord DEF Typing, MatchInv, Stored
    <3>2. Twin(l, q.save)
      BY <2>3, <2>4 DEF Twin
    <3>3. Belongs(l, q.save)
      BY <2>3, <3>1, <3>2, TwinBelongs
    <3>4. None \in Decisions(q.save) /\ None \notin Login
      BY <2>1, <2>3, <2>4, NoneIsNothing
    <3>5. {k \in Stored : Belongs(k, q.save)} \subseteq Login
      BY DEF Stored
    <3>6. Actionable(None)
      BY <2>1, <2>3, <2>4
    <3>7. {k \in Stored : Belongs(k, q.save)} = {}
      BY <3>4, <3>5, <3>6 DEF Decisions, Actionable
    <3> QED BY <3>3, <3>7
  <2> QED BY <2>1, <2>4 DEF Unmatched
<1>3. ASSUME e \notin queue, NEW q \in queue, WritePending(q)
      PROVE  q.stage # "decide" /\ q.save = e.save
  <2>1. e = [q EXCEPT !.stage = "reply", !.copy = None] /\ q.stage = "write"
    BY <1>3 DEF WritePending
  <2> QED BY <2>1, Fields DEF Queueing
<1>4. CASE PageStep
  <2>1. \A f \in Frame, c \in Typed : Sent(f, c).stage = "decide"
    BY DEF Sent
  <2>2. ASSUME NEW f \in Frame, NEW c \in Typed \cup {None}, Hide(f, c) PROVE e \in queue
    BY <2>1, <2>2 DEF Hide
  <2>3. ASSUME NEW f \in Frame, NEW c \in Typed, Submit(f, c) PROVE e \in queue
    BY <2>1, <2>3 DEF Submit
  <2>4. ASSUME NEW f \in Frame, NEW c \in Typed \cup {None}, Leave(f, c) PROVE e \in queue
    <3>1. Hide(f, c)
      BY <2>4, Zenon DEF Leave
    <3> QED BY <2>2, <3>1
  <2>5. ASSUME \/ \E f \in Frame : \E s \in Shown[f] : Load(f, s)
               \/ \E f \in Frame : AskHeld(f) \/ Confirm(f) \/ Dismiss(f)
               \/ \E t \in Tab : CloseTab(t)
               \/ \E a \in told : HeldShown(a)
        PROVE  e \in queue
    BY <2>5 DEF Load, AskHeld, Confirm, Dismiss, CloseTab, HeldShown
  <2> QED BY <1>1, <1>4, <2>3, <2>4, <2>5 DEF PageStep
<1>5. CASE ~PageStep /\ ~ (\E q \in queue : WritePending(q)) /\
           ~ \E q \in queue, d \in Login \cup {None, "locked", "same"} : Decide(q, d)
  <2>1. e \in queue
    BY <1>5 DEF Next, WorkerStep, Reply, ClearPending, SaveFind, SaveUpdate, SaveCreate,
         ToggleLock, Evict, Expire, DeleteLogin, Edit, vars, history
  <2> QED BY <1>1, <2>1
<1> QED BY <1>1, <1>2, <1>3, <1>4, <1>5

LEMMA AskableBefore ==
  ASSUME Typing, MatchInv, haste = {}, [Next]_vars, NEW t, Tab = {t}, NEW s \in Save, Askable(s)'
  PROVE  Askable(s) \/ (saves = {} /\ vault' = vault /\ Unmatched(s))
<1>1. QuietStep
  BY QuietSteps
<1>6. s # None
  BY NoneIsNothing
<1>2. CASE \E q \in queue' : q.stage # "decide" /\ q.save = s
  BY <1>2, QueueFrom DEF Askable
<1>3. ASSUME NEW f \in Frame, page'[f].prompt = s PROVE Askable(s)
  <2>2. ASSUME NEW a \in told, ShowsHeld(a) PROVE Askable(s)
    BY <1>3, <2>2 DEF ShowsHeld, Hears, SamePrompt, Askable
  <2>3. ASSUME NEW q \in queue, Replies(q) PROVE Askable(s)
    BY <1>3, <2>3 DEF Replies, Hears, SamePrompt, Askable
  <2>4. CASE ~(\E a \in told : ShowsHeld(a)) /\ ~ (\E q \in queue : Replies(q))
    <3>1. page'[f].prompt \in {None, page[f].prompt}
      BY <1>1, <2>4 DEF QuietStep, Moves, Asks, Answers, Closes, SamePrompt,
           Takes, Drops, Writes, Removes, Expires, Elsewhere
    <3> QED BY <1>3, <1>6, <3>1 DEF Askable
  <2> QED BY <2>2, <2>3, <2>4
<1>4. ASSUME NEW a \in told', a.save = s PROVE Askable(s)
  <2>1. ASSUME NEW f \in Frame, Asks(f), a \notin told PROVE Askable(s)
    <3>1. TabOf[f] = t /\ \A j \in clears : j.tab = t
      BY Fields
    <3>2. a.save = ReadPendingSaves[t] /\ ReadPendingSaves[t] # None /\ clears = {}
      BY <2>1, <3>1 DEF Asks, Settled
    <3>3. table[t] = s
      BY <1>4, <3>2 DEF ReadPendingSaves
    <3> QED BY <3>2, <3>3 DEF Askable
  <2>2. a \in told \/ (a \notin told /\ \E f \in Frame : Asks(f))
    BY <1>1 DEF QuietStep, Moves, Asks, Answers, Closes, ShowsHeld,
         Takes, Drops, Writes, Replies, Removes, Expires, Elsewhere
  <2> QED BY <1>4, <2>1, <2>2 DEF Askable
<1>5. CASE clears' = {} /\ table'[t] = s
  <2>2. ASSUME NEW q \in queue, Writes(q) PROVE Askable(s)
    <3>1. table'[t] = q.save /\ q.stage = "write"
      BY <2>2, Fields DEF Writes
    <3> QED BY <1>5, <3>1 DEF Askable
  <2>3. ASSUME NEW j \in clears, Removes(j) PROVE FALSE
    BY <1>5, <1>6, <2>3, Fields DEF Removes
  <2>4. CASE ~(\E q \in queue : Writes(q)) /\ ~ \E j \in clears : Removes(j)
    <3>1. table' = table /\ clears = {}
      BY <1>1, <1>5, <2>4 DEF QuietStep, Moves, Asks, Answers, Closes, ShowsHeld,
           Takes, Drops, Replies, Expires, Elsewhere
    <3> QED BY <1>5, <3>1 DEF Askable
  <2> QED BY <2>2, <2>3, <2>4
<1> QED BY <1>2, <1>3, <1>4, <1>5 DEF Askable

\* A login appears by a save from a page only.
LEMMA OnlySavesCreate ==
  ASSUME Typing, [Next]_vars, NEW l \in Login, vault[l] = None, vault'[l] \in Record
  PROVE  \E j \in saves : SaveCreate(j, l) /\ unlocked
<1>1. vault \in [Login -> Record \cup {None, Gone}] /\ vault[l] \notin Record
  BY NoneIsNothing DEF Typing, TypeOK
<1>2. ASSUME NEW k \in Login, NEW new, k # l, vault' = [vault EXCEPT ![k] = new] PROVE FALSE
  BY <1>1, <1>2
<1>3. ASSUME NEW j \in saves, SaveUpdate(j) PROVE FALSE
  <2>1. l \notin Stored
    BY DEF Stored
  <2>2. unlocked /\ j.save.item \in Stored /\ j.save.item \in Login
    BY <1>1, <1>3 DEF SaveUpdate, Stored
  <2> QED BY <1>2, <1>3, <2>1, <2>2 DEF SaveUpdate
<1>4. ASSUME NEW j \in saves, NEW k \in Login, SaveCreate(j, k) PROVE k = l /\ unlocked
  BY <1>1, <1>2, <1>4 DEF SaveCreate
<1>5. ASSUME NEW k \in Login, DeleteLogin(k) PROVE FALSE
  <2>1. k # l
    BY <1>5 DEF DeleteLogin, Stored
  <2> QED BY <1>2, <1>5, <2>1 DEF DeleteLogin
<1>8. ASSUME NEW e \in Edits, Edit(e) PROVE FALSE
  <2>1. e.login # l /\ e.login \in Login
    BY <1>8 DEF Edit, Stored
  <2> QED BY <1>2, <1>8, <2>1 DEF Edit
<1>6. ASSUME vault' = vault PROVE FALSE
  BY <1>1, <1>6
<1>7. \/ \E j \in saves : SaveUpdate(j) \/ \E k \in Login : SaveCreate(j, k)
      \/ (\E k \in Login : DeleteLogin(k)) \/ (\E e \in Edits : Edit(e))
      \/ vault' = vault
  BY DEF Next, PageStep, WorkerStep, Submit, Leave, Load, AskHeld, Confirm, Dismiss, CloseTab,
       HeldShown, Decide, WritePending, Reply, ClearPending, SaveFind,
       ToggleLock, Evict, Expire, vars, history
<1> QED BY <1>3, <1>4, <1>5, <1>6, <1>7, <1>8

\* Unless a login appears, every login kept is an earlier one, as it was to the
\* lookup: nobody edits one.
LEMMA LoginsStay ==
  ASSUME Typing, Typing', MatchInv, [Next]_vars, edited' = {},
         ~ \E j \in saves, l \in Login : SaveCreate(j, l) /\ unlocked
  PROVE  \A l \in Stored' : /\ l \in Stored /\ vault'[l].url = vault[l].url
                            /\ vault'[l].user = vault[l].user
<1> SUFFICES ASSUME NEW l \in Stored'
             PROVE  /\ l \in Stored /\ vault'[l].url = vault[l].url
                    /\ vault'[l].user = vault[l].user
  OBVIOUS
<1>1. l \in Login /\ vault'[l] \in Record
  BY DEF Stored, Typing, TypeOK
<1>2. vault[l] # None
  BY <1>1, OnlySavesCreate
<1>3. vault[l] \in Record /\ Kin(vault[l], vault'[l], l, edited')
  BY <1>1, <1>2, VaultSteps DEF VaultStep
<1> QED BY <1>1, <1>3, StoredIsRecord DEF Kin, Typing

LEMMA SavesSteps ==
  ASSUME Typing, haste = {}, [Next]_vars, ~crowded'
  PROVE  \/ \E f \in Frame : /\ Answers(f) /\ ~Crowd(f)
                             /\ \E j : j.save = page[f].prompt /\ saves' = saves \cup {j}
         \/ \E j \in saves : \E k : k.save = j.save /\ saves' = (saves \ {j}) \cup {k}
         \/ saves' \subseteq saves
<1>1. ASSUME NEW f \in Frame, Confirm(f)
      PROVE  /\ Answers(f) /\ ~Crowd(f)
             /\ \E j : j.save = page[f].prompt /\ saves' = saves \cup {j}
  <2>1. PICK j : j = [save |-> page[f].prompt, login |-> None]
    OBVIOUS
  <2>2. j.save = page[f].prompt /\ saves' = saves \cup {j} /\ ~Crowd(f)
    BY <1>1, <2>1 DEF Confirm
  <2>3. UNCHANGED <<table, closed, queue, told, stale, count>>
        /\ clears' = clears \cup {Clearing(TabOf[f])} /\ Answered(f) /\ MayUseTable
    BY <1>1 DEF Confirm
  <2> QED BY <2>2, <2>3, AnsweringAnswers
<1>2. ASSUME NEW j \in saves, SaveFind(j)
      PROVE  \/ \E k : k.save = j.save /\ saves' = (saves \ {j}) \cup {k}
             \/ saves' \subseteq saves
  <2>1. CASE unlocked /\ j.save.item \in Stored
    <3>1. PICK k : k = [j EXCEPT !.login = vault[j.save.item]]
      OBVIOUS
    <3>2. k.save = j.save
      BY <3>1 DEF Typing, TypeOK, Saving
    <3> QED BY <1>2, <2>1, <3>1, <3>2 DEF SaveFind
  <2>2. CASE ~(unlocked /\ j.save.item \in Stored)
    BY <1>2, <2>2 DEF SaveFind
  <2> QED BY <2>1, <2>2
<1>3. CASE ~(\E f \in Frame : Confirm(f)) /\ ~ \E j \in saves : SaveFind(j)
  <2>1. saves' \subseteq saves
    BY <1>3 DEF Next, PageStep, WorkerStep, Submit, Leave, Load, AskHeld, Dismiss, CloseTab,
         HeldShown, Decide, WritePending, Reply, ClearPending, SaveUpdate, SaveCreate,
         ToggleLock, Evict, Expire, DeleteLogin, Edit, vars, history
  <2> QED BY <2>1
<1> QED BY <1>1, <1>2, <1>3

LEMMA SoloKept ==
  ASSUME Typing, Typing', MatchInv, haste = {}, [Next]_vars, NEW t, Tab = {t},
         edited' = {}, ~crowded', SoloInv
  PROVE  SoloInv'
<1>1. ASSUME NEW s \in Save, Askable(s)'
      PROVE  Askable(s) \/ (saves = {} /\ vault' = vault /\ Unmatched(s))
  BY <1>1, AskableBefore
<1>2. ASSUME NEW s \in Save, Answering(s)' PROVE Askable(s) \/ Answering(s)
  BY <1>2, SavesSteps DEF Answering, Askable
<1>3. ASSUME NEW s \in Save, Askable(s)' \/ Answering(s)' PROVE Unmatched(s)
  BY <1>1, <1>2, <1>3 DEF SoloInv
<1>4. ASSUME saves # {} PROVE \A s \in Save : ~Askable(s)'
  BY <1>1, <1>4 DEF SoloInv
<1>5. ASSUME NEW f \in Frame, Answers(f), ~Crowd(f)
      PROVE  saves = {} /\ \A s \in Save : ~Askable(s)'
  <2>1. page[f].prompt \in Save /\ TabOf[f] = t /\ \A g \in Frame : TabOf[g] = t
    BY <1>5, Fields DEF Answers
  <2>2. saves = {}
    BY <2>1 DEF Askable, SoloInv
  <2>3. clears' # {} /\ queue' = {} /\ told' = {}
    BY <1>5, <2>1, Fields DEF Answers, SendsNothing, Settled
  <2>4. \A g \in Frame : page'[g].prompt = None
    BY <1>5, <2>1 DEF Answers, SamePrompt, Crowd
  <2>5. \A s \in Save : s # None
    BY NoneIsNothing
  <2> QED BY <2>2, <2>3, <2>4, <2>5 DEF Askable
<1>6. ASSUME saves' # {} PROVE (\A j, k \in saves' : j = k) /\ \A s \in Save : ~Askable(s)'
  BY <1>4, <1>5, <1>6, SavesSteps DEF SoloInv
<1>7. ASSUME NEW s \in Save, Askable(s)' \/ Answering(s)' PROVE Unmatched(s)'
  <2>1. CASE \E j \in saves, l \in Login : SaveCreate(j, l) /\ unlocked
    <3>1. saves # {} /\ saves' = {}
      BY <2>1 DEF SaveCreate, SoloInv
    <3> QED BY <1>4, <1>7, <3>1 DEF Answering
  <2>2. CASE ~ \E j \in saves, l \in Login : SaveCreate(j, l) /\ unlocked
    <3>1. \A l \in Stored' : /\ l \in Stored /\ vault'[l].url = vault[l].url
                             /\ vault'[l].user = vault[l].user
      BY <2>2, LoginsStay
    <3> QED BY <1>3, <1>7, <3>1 DEF Unmatched, Twin
  <2> QED BY <2>1, <2>2
<1> QED BY <1>6, <1>7 DEF SoloInv

LEMMA NoTwinsKept ==
  ASSUME Typing, Typing', MatchInv, haste = {}, [Next]_vars, edited' = {}, SoloInv, NoTwins
  PROVE  NoTwins'
<1>1. CASE ~ \E j \in saves, l \in Login : SaveCreate(j, l) /\ unlocked
  BY <1>1, LoginsStay DEF NoTwins
<1>2. ASSUME NEW j \in saves, NEW l \in Login, SaveCreate(j, l), unlocked
      PROVE  NoTwins'
  <2>1. vault \in [Login -> Record \cup {None, Gone}] /\ j.save \in Save
    BY DEF Typing, TypeOK, Saving
  <2>2. PICK new : /\ new = [host |-> GetHost(j.save.site), domain |-> RegistrableDomain(j.save.site),
                             url |-> j.save.site, user |-> j.save.user, pass |-> j.save.pass]
                   /\ vault' = [vault EXCEPT ![l] = new]
    BY <1>2 DEF SaveCreate
  <2>3. new.url = j.save.site /\ new.user = j.save.user /\ vault'[l] = new
    BY <2>1, <2>2
  <2>4. \A k \in Login : k # l => vault'[k] = vault[k]
    BY <2>1, <2>2
  <2>5. \A k \in Stored' : k # l => k \in Stored
    BY <2>4 DEF Stored
  <2>6. Unmatched(j.save) /\ j.save.item = None
    BY <1>2, <2>1 DEF SoloInv, Answering, SaveCreate
  <2>7. ASSUME NEW k \in Stored', k # l, vault'[k].url = new.url, vault'[k].user = new.user
        PROVE  new.user = Blank
    <3>1. k \in Stored /\ k \in Login /\ vault'[k] = vault[k]
      BY <2>4, <2>5, <2>7 DEF Stored
    <3> QED BY <2>3, <2>6, <2>7, <3>1 DEF Unmatched, Twin
  <2>8. ASSUME NEW k \in Stored', NEW m \in Stored', k # m,
               vault'[k].url = vault'[m].url, vault'[k].user = vault'[m].user
        PROVE  vault'[m].user = Blank
    <3>1. CASE k = l \/ m = l
      BY <2>3, <2>7, <2>8, <3>1
    <3>2. CASE k # l /\ m # l
      <4>1. k \in Stored /\ m \in Stored /\ vault'[k] = vault[k] /\ vault'[m] = vault[m]
        BY <2>4, <2>5, <3>2 DEF Stored
      <4> QED BY <2>8, <4>1 DEF NoTwins
    <3> QED BY <3>1, <3>2
  <2> QED BY <2>8 DEF NoTwins
<1> QED BY <1>1, <1>2

LEMMA EditedGrows ==
  ASSUME Typing, MatchInv, [Next]_vars
  PROVE  edited \subseteq edited'
  BY VaultSteps DEF VaultStep

LEMMA CrowdedGrows ==
  ASSUME [Next]_vars, crowded
  PROVE  crowded'
  BY DEF Next, PageStep, WorkerStep, Submit, Leave, Load, AskHeld, Confirm, Dismiss, CloseTab,
         HeldShown, Decide, WritePending, Reply, ClearPending, SaveFind, SaveUpdate, SaveCreate,
         ToggleLock, Evict, Expire, DeleteLogin, Edit, vars, history

Solo == haste = {} /\ Cardinality(Tab) = 1 /\ edited = {} /\ ~crowded => SoloInv

LEMMA AlwaysSolo ==
  ASSUME IsFiniteSet(Tab)
  PROVE  Spec => [](MatchInv /\ Solo)
<1>1. Init => MatchInv /\ Solo
  <2>1. Init => \A s \in Save : ~Askable(s) /\ ~Answering(s)
    <3> SUFFICES ASSUME Init PROVE \A s \in Save : ~Askable(s) /\ ~Answering(s)
      OBVIOUS
    <3>1. \A f \in Frame : page[f].prompt = None
      BY NoPromptFirst
    <3>2. queue = {} /\ told = {} /\ saves = {} /\ \A t \in Tab : table[t] = None
      BY DEF Init
    <3> QED BY <3>1, <3>2, NoneIsNothing DEF Askable, Answering
  <2> QED BY <2>1, MatchInvInit DEF Init, Solo, SoloInv
<1>2. Typing /\ Typing' /\ MatchInv /\ Solo /\ [Next]_vars => MatchInv' /\ Solo'
  <2> SUFFICES ASSUME Typing, Typing', MatchInv, Solo, [Next]_vars,
                      haste' = {}, Cardinality(Tab) = 1, edited' = {}, ~crowded'
               PROVE  SoloInv'
    BY MatchInvKept DEF Solo
  <2>1. haste = {} /\ edited = {} /\ ~crowded
    BY HasteStays, EditedGrows, CrowdedGrows
  <2>2. PICK t : Tab = {t}
    BY FS_Singleton
  <2> QED BY <2>1, <2>2, SoloKept DEF Solo
<1> QED BY <1>1, <1>2, AlwaysTyped, PTL DEF Spec

\* With one tab, while no save is confirmed beside another frame's prompt, no
\* login is saved beside one of the same URL and identifier, however many frames
\* the tab has and whichever of them submit, ask and answer: between
\* handleFindLoginForSave and handleCreateItem nothing is saved that the lookup
\* did not see.  The vaults a run starts from (those not yet in haste) hold no
\* such pair themselves, as nothing here would take one away.
THEOREM NothingIsSavedTwice ==
  ASSUME IsFiniteSet(Tab),
         \A b \in Start : b.haste = {} =>
           \A k, l \in {i \in Login : b.vault[i] \in Record} :
             k # l /\ b.vault[k].url = b.vault[l].url /\ b.vault[k].user = b.vault[l].user =>
               b.vault[l].user = Blank
  PROVE  Spec => []NoDuplicate
<1>1. Init => NoDuplicate
  <2> SUFFICES ASSUME Init, haste = {} PROVE NoTwins
    BY DEF NoDuplicate, NoTwins
  <2>1. PICK b \in Start : vault = b.vault /\ haste = b.haste
    BY DEF Init
  <2>2. Stored = {i \in Login : b.vault[i] \in Record}
    BY <2>1, InitTypes, StoredIsRecord DEF Typing, Stored
  <2> QED BY <2>1, <2>2 DEF NoTwins
<1>2. Typing /\ Typing' /\ MatchInv /\ Solo /\ NoDuplicate /\ [Next]_vars => NoDuplicate'
  <2> SUFFICES ASSUME Typing, Typing', MatchInv, Solo, NoDuplicate, [Next]_vars,
                      haste' = {}, Cardinality(Tab) = 1, edited' = {}, ~crowded'
               PROVE  NoTwins'
    BY DEF NoDuplicate, NoTwins
  <2>1. haste = {} /\ edited = {} /\ ~crowded
    BY HasteStays, EditedGrows, CrowdedGrows
  <2>2. SoloInv /\ NoTwins
    BY <2>1 DEF Solo, NoDuplicate, NoTwins
  <2> QED BY <2>1, <2>2, NoTwinsKept
<1> QED BY <1>1, <1>2, AlwaysTyped, AlwaysSolo, PTL DEF Spec
===============================================================================
