----------------------------- MODULE Phone_proofs -----------------------------
(***************************************************************************)
(* The clipboard of the phone app, for any number of copies.               *)
(***************************************************************************)
EXTENDS Phone, SequenceTheorems, TLAPS

\* What the clipboard's part of the state may hold, as far as it matters here.
ClipTypeOK ==
  /\ clipboard \in Nat /\ copies \in Nat /\ writes \in Seq(Nat)

\* Stronger than the property, which looks at moments without a write under way.
ClipInv ==
  clipboard # 0 =>
    /\ status # "cleared"
    /\ ticking # {} \/ writes # <<>> \/ status \in {"clear-failed", "copy-failed"} \/ letGo

Inv == ClipTypeOK /\ ClipInv

LEMMA PhoneInitInv == PhoneInit => Inv
<1>1. <<>> \in Seq(Nat)
  BY EmptySeq
<1> QED BY <1>1 DEF PhoneInit, Inv, ClipTypeOK, ClipInv

LEMMA ClipKept == Inv /\ UNCHANGED clipVars => Inv'
  BY DEF Inv, ClipTypeOK, ClipInv, clipVars

LEMMA LockKeepsInv == Inv /\ Locked => Inv'
  BY DEF Inv, ClipTypeOK, ClipInv, Locked

LEMMA ClipStep ==
  ASSUME Inv, Clip \/ DismissBanner
  PROVE  Inv'
<1>1. CASE CopySecret
  <2>1. copies' \in Nat /\ writes' = Append(writes, copies')
    BY <1>1 DEF CopySecret, Inv, ClipTypeOK
  <2>2. writes' \in Seq(Nat) /\ writes' # <<>>
    BY <2>1, AppendProperties DEF Inv, ClipTypeOK
  <2> QED BY <1>1, <2>1, <2>2 DEF CopySecret, Inv, ClipTypeOK, ClipInv
<1>2. CASE WriteGranted
  <2>1. Head(writes) \in Nat /\ Tail(writes) \in Seq(Nat)
    BY <1>2, HeadTailProperties DEF WriteGranted, Inv, ClipTypeOK
  <2>2. CASE Head(writes) = 0
    BY <1>2, <2>1, <2>2 DEF WriteGranted, Inv, ClipTypeOK, ClipInv
  <2>3. CASE Head(writes) # 0
    BY <1>2, <2>1, <2>3 DEF WriteGranted, Inv, ClipTypeOK, ClipInv
  <2> QED BY <2>2, <2>3
<1>3. CASE WriteRefused
  BY <1>3 DEF WriteRefused, Inv, ClipTypeOK, ClipInv
<1>4. ASSUME NEW i \in ticking, NEW over \in BOOLEAN, Tick(i, over)
      PROVE  Inv'
  <2>1. CASE over
    <3>1. writes' \in Seq(Nat) /\ writes' # <<>>
      BY <1>4, <2>1, AppendProperties DEF Tick, Inv, ClipTypeOK
    <3> QED BY <1>4, <2>1, <3>1 DEF Tick, Inv, ClipTypeOK, ClipInv
  <2>2. CASE ~over
    BY <1>4, <2>2 DEF Tick, Inv, ClipTypeOK, ClipInv
  <2> QED BY <2>1, <2>2
<1>5. CASE DismissBanner
  BY <1>5 DEF DismissBanner, Inv, ClipTypeOK, ClipInv
<1> QED BY <1>1, <1>2, <1>3, <1>4, <1>5 DEF Clip

LEMMA PhoneNextInv == Inv /\ [PhoneNext]_phoneVars => Inv'
<1> SUFFICES ASSUME Inv, [PhoneNext]_phoneVars PROVE Inv'
  OBVIOUS
<1>1. CASE Opening
  <2>1. UNCHANGED clipVars
    BY <1>1 DEF Opening, Probe, DeriveMasterKey, OpenVault
  <2> QED BY <2>1, ClipKept
<1>2. CASE RetryProbe \/ SubmitPassword \/ Hide \/ ComeBack
  BY <1>2, ClipKept DEF RetryProbe, SubmitPassword, Hide, ComeBack
<1>3. ASSUME NEW left \in SUBSET Blob, SearchItems(left) PROVE Inv'
  BY <1>3, ClipKept DEF SearchItems
<1>4. ASSUME NEW e \in Blob \cup {Absent}, Select(e) PROVE Inv'
  BY <1>4, ClipKept DEF Select
<1>5. CASE Clip \/ DismissBanner
  BY <1>5, ClipStep
<1>6. CASE LockButton \/ BackgroundLock
  BY <1>6, LockKeepsInv DEF LockButton, BackgroundLock
<1>7. CASE Reclaimed
  <2>1. writes' \in Seq(Nat)
    BY <1>7, EmptySeq DEF Reclaimed
  <2>2. letGo' = (clipboard # 0) /\ clipboard' = clipboard /\ copies' = copies /\ status' = "idle"
    BY <1>7 DEF Reclaimed
  <2> QED BY <2>1, <2>2 DEF Inv, ClipTypeOK, ClipInv
<1>8. CASE UNCHANGED phoneVars
  BY <1>8, ClipKept DEF phoneVars, clipVars
<1> QED BY <1>1, <1>2, <1>3, <1>4, <1>5, <1>6, <1>7, <1>8 DEF PhoneNext

\* However many copies, countdowns, refused writes, locks and discarded pages
\* overlap, a secret on the clipboard is to be taken back, or the banner says
\* that it is still there, or the user has let it go, or the system refused to
\* put another one in its place, of which alone the banner then speaks.
THEOREM ClipboardAlwaysHonest == PhoneSpec => []ClipboardHonest
<1>1. Inv => ClipboardHonest
  BY DEF Inv, ClipInv, ClipboardHonest
<1> QED
  BY <1>1, PhoneInitInv, PhoneNextInv, PTL DEF PhoneSpec
===============================================================================
