------------------------------- MODULE Accounts -------------------------------
(***************************************************************************)
(* How a device comes by its keys and how an account spreads: setting up,  *)
(* unlocking, recovery kits, enrolling a master password with the server,  *)
(* joining from it, resetting.                                             *)
(*                                                                         *)
(* An account stands for its master key.  A keychain's secret halves are   *)
(* encrypted under one master key, so a keychain is written as the account *)
(* they open under.  What can go wrong is that two copies which belong     *)
(* together - a keychain and a wrapped key, a sealed keychain and the key  *)
(* it is sealed under - end up of two accounts.  A wrong PIN or password   *)
(* ends a handler before it changes anything and is left out; so is        *)
(* vw_enrolled_at, the last write of enrolling and joining, which only     *)
(* words a report.                                                         *)
(***************************************************************************)
EXTENDS Integers, Sequences, FiniteSetsExt

CONSTANTS
  Device,
  Handler,   \* handlers that may be in progress at once: pairs <<device, name>>
  Account,   \* master keys, each generated once
  None,      \* no account and no keychain: an empty slot of a store, a deleted row
  MaxRows,   \* bound: keychain items ever posted to the server
  MaxKits,   \* bound: recovery kits kept
  Fragile,   \* devices whose worker may be stopped in the middle of its work
  May        \* bound: the operations tried on each device

\* A keychain under a master key, as kits carry it and the server keeps it.
Bundle == [chain : Account, under : Account]

ASSUME AccountAssumption ==
  /\ \A h \in Handler : h[1] \in Device
  /\ None \notin Account /\ None \notin Bundle
  /\ MaxRows \in Nat
  /\ MaxKits \in Nat \ {0}
  /\ Fragile \subseteq Device

Op    == {"setup", "unlock", "restore", "enroll", "join", "kit", "reset"}
Maybe == Account \cup {None}

\* chrome.storage.local: vw_keychain and whether it has a deviceId,
\* vw_wrapped_master_key with vw_pin_salt.
Store      == [chain : Maybe, id : BOOLEAN, wrapped : Maybe]
BlankStore == [chain |-> None, id |-> FALSE, wrapped |-> None]

Stage == {"idle", "wrap", "register", "setId", "open", "readChain", "putKey",
          "list", "post", "delete", "fetchKey", "fetchList", "fetchRow",
          "install", "forget"}
Job   == [op : Op, pc : Stage, key : Maybe, chain : Maybe, row : Nat,
          mends : BOOLEAN]
NoJob == [op |-> "reset", pc |-> "idle", key |-> None, chain |-> None, row |-> 0,
          mends |-> TRUE]

VARIABLES
  local,       \* each device's local storage
  cached,      \* each device's master key in session storage
  job,         \* handlers in progress
  made,        \* accounts generated so far
  kits,        \* recovery kits the user has kept
  accountKey,  \* server: the account whose key the master password unwraps
  rows,        \* server: keychain items in the order posted, None when deleted
  torn         \* history: devices whose keys may have come apart: work on them
               \* was cut short or overlapped, they joined from a torn device's
               \* bundle, or without a PIN over another account's

device == <<local, cached>>
server == <<accountKey, rows>>
vars   == <<device, job, made, kits, server, torn>>

\* Storage, server rows and handlers keep their shape.
TypeOK ==
  /\ local \in [Device -> Store]
  /\ cached \in [Device -> Maybe]
  /\ job \in [Handler -> Job]
  /\ made \subseteq Account
  /\ kits \subseteq Bundle
  /\ accountKey \in Maybe
  /\ rows \in Seq(Bundle \cup {None}) /\ Len(rows) <= MaxRows
  /\ torn \subseteq Device

Init ==
  /\ local = [d \in Device |-> BlankStore]
  /\ cached = [d \in Device |-> None]
  /\ job = [h \in Handler |-> NoJob]
  /\ made = {} /\ kits = {} /\ torn = {}
  /\ accountKey = None /\ rows = <<>>

DeviceOf(h) == h[1]
Busy(h)     == job[h].pc # "idle"
Others(h)   == {g \in Handler \ {h} : DeviceOf(g) = DeviceOf(h) /\ Busy(g)}

\* Operations that replace a device's keys step by step.
Replaces(op) == op \in {"setup", "restore", "join", "reset"}

\* The newest row wins; 0 when there is none.
Live   == {i \in 1..Len(rows) : rows[i] # None}
Newest == IF Live = {} THEN 0 ELSE Max(Live)

-----------------------------------------------------------------------------
(* Handlers begin, go on and end. *)

\* Handlers of one device that overlap while one of them replaces its keys may
\* leave it torn.  mends: ending this one undisturbed makes the device whole.
Begins(h, op, pc, key) ==
  /\ ~Busy(h)
  /\ op \in May[DeviceOf(h)]
  /\ job' = [g \in Handler |->
              IF g = h
              THEN [NoJob EXCEPT !.op = op, !.pc = pc, !.key = key,
                                 !.mends = Others(h) = {}]
              ELSE IF g \in Others(h) THEN [job[g] EXCEPT !.mends = FALSE]
              ELSE job[g]]
  /\ torn' = IF \E g \in Others(h) : Replaces(op) \/ Replaces(job[g].op)
             THEN torn \cup {DeviceOf(h)} ELSE torn

Goes(h, pc) == job' = [job EXCEPT ![h].pc = pc] /\ UNCHANGED torn

Ends(h) ==
  LET j == job[h]
      d == DeviceOf(h)
  IN
  /\ job' = [job EXCEPT ![h] = NoJob]
  /\ torn' = IF Replaces(j.op) /\ j.mends THEN torn \ {d} ELSE torn

Write(h, new) == local' = [local EXCEPT ![DeviceOf(h)] = new]
Mine(h)       == local[DeviceOf(h)]

-----------------------------------------------------------------------------
(* SETUP_ACCOUNT *)

\* initKeychain: a new master key and a keychain without a device id.
BeginSetup(h, a) ==
  /\ a \notin made
  /\ made' = made \cup {a}
  /\ Begins(h, "setup", "wrap", a)
  /\ Write(h, [Mine(h) EXCEPT !.chain = a, !.id = FALSE])
  /\ UNCHANGED <<cached, kits, server>>

\* The wrapped key is stored once the PIN's key is derived.  That ends a join;
\* a new account registers, and a restored one is opened.
Wrap(h) ==
  /\ job[h].pc = "wrap"
  /\ Write(h, [Mine(h) EXCEPT !.wrapped = job[h].key])
  /\ \/ job[h].op = "setup" /\ Goes(h, "register")
     \/ job[h].op = "restore" /\ Goes(h, "open")
     \/ job[h].op = "join" /\ Ends(h)
  /\ UNCHANGED <<cached, made, kits, server>>

\* Registered or not, setDeviceId reads the keychain ...
Register(h) ==
  /\ job[h].pc = "register"
  /\ job' = [job EXCEPT ![h].pc = "setId", ![h].chain = Mine(h).chain]
  /\ UNCHANGED <<device, made, kits, server, torn>>

\* ... and writes back what it read, with the id.
SetId(h) ==
  /\ job[h].pc = "setId"
  /\ IF job[h].chain = None THEN UNCHANGED local
     ELSE Write(h, [Mine(h) EXCEPT !.chain = job[h].chain, !.id = TRUE])
  /\ Goes(h, "open")
  /\ UNCHANGED <<cached, made, kits, server>>

\* setCachedMasterKey.
Open(h) ==
  /\ job[h].pc = "open"
  /\ cached' = [cached EXCEPT ![DeviceOf(h)] = job[h].key]
  /\ IF job[h].op = "join" THEN Goes(h, "wrap") ELSE Ends(h)
  /\ UNCHANGED <<local, made, kits, server>>

-----------------------------------------------------------------------------
(* UNLOCK, LOCK, RESET_DEVICE *)

BeginUnlock(h) ==
  /\ Mine(h).wrapped # None
  /\ Begins(h, "unlock", "open", Mine(h).wrapped)
  /\ UNCHANGED <<device, made, kits, server>>

Lock(d) ==
  /\ cached' = [cached EXCEPT ![d] = None]
  /\ UNCHANGED <<local, job, made, kits, server, torn>>

\* clearKeychain takes keychain and wrapped key away in one call.
BeginReset(h) ==
  /\ Begins(h, "reset", "forget", None)
  /\ Write(h, [Mine(h) EXCEPT !.chain = None, !.id = FALSE, !.wrapped = None])
  /\ UNCHANGED <<cached, made, kits, server>>

Forget(h) ==
  /\ job[h].pc = "forget"
  /\ cached' = [cached EXCEPT ![DeviceOf(h)] = None]
  /\ Ends(h)
  /\ UNCHANGED <<local, made, kits, server>>

-----------------------------------------------------------------------------
(* Recovery kits, and what ENROLL shares with them. *)

\* Both take the cached key first and read the keychain after.
BeginExport(h, op) ==
  /\ cached[DeviceOf(h)] # None
  /\ Begins(h, op, "readChain", cached[DeviceOf(h)])
  /\ UNCHANGED <<device, made, kits, server>>

\* GENERATE_RECOVERY_KIT wraps the key it has beside the keychain it reads.
KitMade(h) == [chain |-> Mine(h).chain, under |-> job[h].key]

WriteKit(h) ==
  /\ job[h].pc = "readChain" /\ job[h].op = "kit"
  /\ \/ /\ Mine(h).chain # None
        /\ \E kept \in SUBSET kits :
             /\ Cardinality(kept) < MaxKits
             /\ kits' = kept \cup {KitMade(h)}
     \/ Mine(h).chain = None /\ UNCHANGED kits
  /\ Ends(h)
  /\ UNCHANGED <<device, made, server>>

\* (Mutant of BeginRestore: the kit is not proved before the keychain is
\* replaced.)
BeginRestoreUnproved(h, k) ==
  /\ Begins(h, "restore", "wrap", k.under)
  /\ Write(h, [Mine(h) EXCEPT !.chain = k.chain, !.id = TRUE])
  /\ UNCHANGED <<cached, made, kits, server>>

\* restoreFromRecoveryKit: the kit's keys must open under its master key; the
\* device id is the device's own or a new one.
BeginRestore(h, k) ==
  /\ k.chain = k.under
  /\ Begins(h, "restore", "wrap", k.under)
  /\ Write(h, [Mine(h) EXCEPT !.chain = k.chain, !.id = TRUE])
  /\ UNCHANGED <<cached, made, kits, server>>

-----------------------------------------------------------------------------
(* ENROLL_MASTER_PASSWORD *)

\* buildEnrollment seals the keychain it reads under the key it has.
Seal(h) ==
  /\ job[h].pc = "readChain" /\ job[h].op = "enroll"
  /\ IF Mine(h).chain = None THEN Ends(h)
     ELSE /\ job' = [job EXCEPT ![h].pc = "putKey", ![h].chain = Mine(h).chain]
          /\ UNCHANGED torn
  /\ UNCHANGED <<device, made, kits, server>>

PutKey(h) ==
  /\ job[h].pc = "putKey"
  /\ accountKey' = job[h].key
  /\ Goes(h, "list")
  /\ UNCHANGED <<device, made, kits, rows>>

\* (Mutant of ListRows: the row before the newest is taken for it.)
ListRowsOffByOne(h) ==
  /\ job[h].pc = "list"
  /\ job' = [job EXCEPT ![h].pc = "post", ![h].row = Newest - 1]
  /\ UNCHANGED <<device, made, kits, server, torn>>

\* putSealedKeychain looks for the row to replace ...
ListRows(h) ==
  /\ job[h].pc = "list"
  /\ job' = [job EXCEPT ![h].pc = "post", ![h].row = Newest]
  /\ UNCHANGED <<device, made, kits, server, torn>>

Sealed(h) == [chain |-> job[h].chain, under |-> job[h].key]

\* (Mutant of Post: the row is replaced before its successor is stored.)
PostOverOld(h) ==
  /\ job[h].pc = "post"
  /\ \/ /\ job[h].row # 0
        /\ rows' = [rows EXCEPT ![job[h].row] = None]
        /\ job' = [job EXCEPT ![h].row = 0]
     \/ /\ job[h].row = 0 /\ Len(rows) < MaxRows
        /\ rows' = Append(rows, Sealed(h))
        /\ job' = [job EXCEPT ![h].pc = "delete"]
  /\ UNCHANGED <<device, made, kits, accountKey, torn>>

\* ... stores the new one ...
Post(h) ==
  /\ job[h].pc = "post"
  /\ Len(rows) < MaxRows
  /\ rows' = Append(rows, Sealed(h))
  /\ Goes(h, "delete")
  /\ UNCHANGED <<device, made, kits, accountKey>>

\* ... and deletes the old one, which may fail and stay.
DeleteOld(h) ==
  /\ job[h].pc = "delete"
  /\ \/ job[h].row # 0 /\ rows' = [rows EXCEPT ![job[h].row] = None]
     \/ UNCHANGED rows
  /\ Ends(h)
  /\ UNCHANGED <<device, made, kits, accountKey>>

-----------------------------------------------------------------------------
(* BOOTSTRAP_FROM_MASTER_PASSWORD *)

BeginJoin(h) ==
  /\ Begins(h, "join", "fetchKey", None)
  /\ UNCHANGED <<device, made, kits, server>>

\* A handler that is refused ends with nothing written: it mends nothing.
Refused(h) == job' = [job EXCEPT ![h] = NoJob] /\ UNCHANGED torn

FetchKey(h) ==
  /\ job[h].pc = "fetchKey"
  /\ IF accountKey = None THEN Refused(h)
     ELSE /\ job' = [job EXCEPT ![h].pc = "fetchList", ![h].key = accountKey]
          /\ UNCHANGED torn
  /\ UNCHANGED <<device, made, kits, server>>

FetchList(h) ==
  /\ job[h].pc = "fetchList"
  /\ IF Newest = 0 THEN Refused(h)
     ELSE /\ job' = [job EXCEPT ![h].pc = "fetchRow", ![h].row = Newest]
          /\ UNCHANGED torn
  /\ UNCHANGED <<device, made, kits, server>>

\* The newest row may be gone by now, or sealed under another account's key.
\* If it was sealed on a torn device, this one will be torn as well.
Fetched(h) == rows[job[h].row]

Take(h, b) ==
  /\ job' = [job EXCEPT ![h].pc = "install", ![h].chain = b.chain,
                        ![h].mends = @ /\ b.chain = b.under]
  /\ torn' = IF b.chain = b.under THEN torn ELSE torn \cup {DeviceOf(h)}

\* (Mutant of FetchRow: the keychain is taken for the account's own.)
FetchRowUnopened(h) ==
  /\ job[h].pc = "fetchRow"
  /\ IF Fetched(h) # None THEN Take(h, Fetched(h)) ELSE Refused(h)
  /\ UNCHANGED <<device, made, kits, server>>

FetchRow(h) ==
  /\ job[h].pc = "fetchRow"
  /\ IF Fetched(h) # None => Fetched(h).under # job[h].key
     THEN Refused(h) ELSE Take(h, Fetched(h))
  /\ UNCHANGED <<device, made, kits, server>>

Install(h) ==
  /\ job[h].pc = "install"
  /\ Write(h, [Mine(h) EXCEPT !.chain = job[h].chain, !.id = TRUE])
  /\ Goes(h, "open")
  /\ UNCHANGED <<cached, made, kits, server>>

\* Without a PIN a join ends once the key is cached.  A wrapped key the device
\* had before stays, of whatever account it is.
OpenWithoutPin(h) ==
  LET d == DeviceOf(h) IN
  /\ job[h].pc = "open" /\ job[h].op = "join"
  /\ cached' = [cached EXCEPT ![d] = job[h].key]
  /\ job' = [job EXCEPT ![h] = NoJob]
  /\ torn' = IF Mine(h).wrapped \notin {None, job[h].key} THEN torn \cup {d}
             ELSE IF job[h].mends THEN torn \ {d}
             ELSE torn
  /\ UNCHANGED <<local, made, kits, server>>

-----------------------------------------------------------------------------
(* Failures. *)

\* A request is lost, or the answer to the one before: the handler reports the
\* error and ends.
RequestFails(h) ==
  /\ job[h].pc \in {"putKey", "list", "post", "delete", "fetchKey", "fetchList", "fetchRow"}
  /\ Refused(h)
  /\ UNCHANGED <<device, made, kits, server>>

Cut(d) == {h \in Handler : DeviceOf(h) = d /\ Busy(h)}

\* The worker is stopped: session storage outlives it, a closed browser takes
\* that along.
Stops(d) ==
  /\ d \in Fragile \/ Cut(d) = {}
  /\ job' = [h \in Handler |-> IF DeviceOf(h) = d THEN NoJob ELSE job[h]]
  /\ torn' = IF \E h \in Cut(d) : Replaces(job[h].op) THEN torn \cup {d} ELSE torn
  /\ cached' \in {cached, [cached EXCEPT ![d] = None]}
  /\ UNCHANGED <<local, made, kits, server>>

Begin(h) ==
  \/ \E a \in Account : BeginSetup(h, a)
  \/ BeginUnlock(h) \/ BeginReset(h) \/ BeginJoin(h)
  \/ BeginExport(h, "kit") \/ BeginExport(h, "enroll")
  \/ \E k \in kits : BeginRestore(h, k)

Continue(h) ==
  \/ Wrap(h) \/ Register(h) \/ SetId(h) \/ Open(h)
  \/ Forget(h)
  \/ WriteKit(h) \/ Seal(h)
  \/ PutKey(h) \/ ListRows(h) \/ Post(h) \/ DeleteOld(h)
  \/ FetchKey(h) \/ FetchList(h) \/ FetchRow(h) \/ Install(h)
  \/ OpenWithoutPin(h)
  \/ RequestFails(h)

Next ==
  \/ \E h \in Handler : Begin(h) \/ Continue(h)
  \/ \E d \in Device : Lock(d) \/ Stops(d)

Spec == Init /\ [][Next]_vars

-----------------------------------------------------------------------------

\* A device at rest whose keys were never torn, or were mended since.
Sound(d) == d \notin torn /\ Cut(d) = {}

\* The PIN of a device, if it has one, gives the key its keychain opens under,
\* and so does the key it has cached.
PinOpens ==
  \A d \in Device : Sound(d) =>
    /\ local[d].wrapped \in {None, local[d].chain}
    /\ cached[d] \in {None, local[d].chain}

\* A keychain is only installed with a device id, without which every create
\* and update is refused.
HasDeviceId == \A d \in Device : Sound(d) => (local[d].chain # None <=> local[d].id)

\* The kit or the sealed keychain a handler makes on a device that is not torn
\* opens under its own key, whatever overlapped while it was made.
Opening(b)  == b.chain = b.under
BundlesOpen ==
  [][\A h \in Handler : DeviceOf(h) \notin torn =>
       /\ WriteKit(h) /\ Mine(h).chain # None => Opening(KitMade(h))
       /\ Post(h) => Opening(Sealed(h))]_vars

\* Enrolling again never leaves the account without a keychain on the server,
\* though requests fail and workers stop in the middle.
KeychainNeverVanishes == rows # <<>> => Live # {}
=============================================================================
