--------------------------- MODULE ReplicaContract ---------------------------
(***************************************************************************)
(* What a device's replica promises the user, without saying how: edits    *)
(* made here stick, the device and the server only ever catch up with one  *)
(* another, last write wins, and a deletion is not forgotten before the    *)
(* server has it.  VaultSync implements this as long as its pieces of work *)
(* do not interleave.                                                      *)
(***************************************************************************)
EXTENDS Integers

CONSTANTS Id, Account, None

VARIABLES
  holder,   \* the account whose vault this is, None on a blank device
  here,     \* the envelopes on this device
  there,    \* the records on the server
  pending   \* deletions the server has still to hear of

vars == <<holder, here, there, pending>>

Gone == [at |-> 0, by |-> None]
Present(e) == e.at > 0

Init ==
  /\ holder \in Account \cup {None}
  /\ here = [i \in Id |-> Gone]
  /\ \A i \in Id : there[i].at = 0 /\ ~there[i].dead
  /\ pending = {}

\* The user writes an envelope that is not older than the one it replaces.
Edit ==
  /\ \E i \in Id :
       /\ here'[i].by = holder
       /\ here'[i].at >= here[i].at
       /\ \A j \in Id \ {i} : here'[j] = here[j]
  /\ UNCHANGED <<holder, there, pending>>

\* The user deletes: gone here, and owed to the server.
Remove ==
  /\ \E i \in Id : here' = [here EXCEPT ![i] = Gone] /\ pending' = pending \cup {i}
  /\ UNCHANGED <<holder, there>>

\* The server's records move on: edits and deletions, from here or elsewhere.
ServerMoves ==
  /\ \A i \in Id : there'[i].at >= there[i].at
  /\ UNCHANGED <<holder, here, pending>>

\* Envelope e may stand in for the one held under i after hearing the server.
MayBecome(i, e) ==
  \/ e = here[i]
  \/ e = Gone /\ (there[i].dead \/ here[i].by # holder)
  \/ e.by = holder /\ here[i].at < e.at /\ e.at <= there[i].at
  
CatchUp ==
  /\ \A i \in Id : MayBecome(i, here'[i])
  /\ UNCHANGED <<holder, there, pending>>

\* A deletion is settled once the server has buried the id, or an edit made
\* elsewhere overtook it and is (or soon will be) the envelope held here, unless
\* it is another account's, which is not for this device to show.
Settle ==
  /\ pending' \subseteq pending
  /\ \A i \in pending \ pending' :
       \/ there[i].dead
       \/ Present(here[i]) /\ here[i].at <= there[i].at
       \/ there[i].by # holder
  /\ UNCHANGED <<holder, here, there>>

\* The device is given an account, or gives it up and is wiped.
Enrol ==
  /\ holder = None
  /\ holder' \in Account
  /\ UNCHANGED <<here, there, pending>>

Forget ==
  /\ holder' = None
  /\ \A i \in Id : here'[i] \in {here[i], Gone}
  /\ pending' \subseteq pending
  /\ UNCHANGED there

Next ==
  \/ Edit \/ Remove \/ ServerMoves \/ CatchUp \/ Settle \/ Enrol \/ Forget

Spec == Init /\ [][Next]_vars
=============================================================================
