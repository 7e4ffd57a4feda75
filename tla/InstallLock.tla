------------------------------ MODULE InstallLock ------------------------------
(***************************************************************************)
(* The install lock of a collector site: which of several installations of *)
(* the agent may register (evaluateCollectorAgentInstallRegistration and   *)
(* updateCollectorAgentInstallLock, lib/auth.js; POST /api/agent/register, *)
(* lib/routes/agent.js).  The lock is a field of the site and is stored    *)
(* with it, some time after it changed.                                    *)
(*                                                                         *)
(* An installation has an id and a time, made once by the setup program    *)
(* and sent with every registration; an old one may lack either.           *)
(***************************************************************************)
EXTENDS Integers, TLAPS

CONSTANTS
  Installs,   \* installations of the agent for one site
  InstallId,  \* the id of an installation, or NoId
  At,         \* its time, 0 when it has none
  Epsilon,    \* COLLECTOR_AGENT_INSTALL_TIE_EPSILON_MS
  NoId        \* the empty id

(* The setup program draws an id for each installation. *)
ASSUME InstallAssumption ==
  /\ At \in [Installs -> Nat]
  /\ Epsilon \in Nat
  /\ \A i, j \in Installs : InstallId[i] = InstallId[j] /\ InstallId[i] # NoId => i = j

Ids == {InstallId[i] : i \in Installs} \cup {NoId}
Identity == [installId : Ids, installedAtMs : Nat]

VARIABLES
  lock,       \* site.collector.agentInstallLock
  stored,     \* the lock in the stored document of the sites
  holder,     \* installations that registered last; at most one
  accepted,   \* history: installations that registered since the lock was lost
  replaced    \* history: of these, those another one took the site from

lockVars == <<lock, stored, holder, accepted, replaced>>

Open == [installId |-> NoId, installedAtMs |-> 0]
Sent(i) == [installId |-> InstallId[i], installedAtMs |-> At[i]]

(* Both an id and a time, as the setup program of today writes them.       *)
Complete(i) == InstallId[i] # NoId /\ At[i] > 0

-------------------------------------------------------------------------------
(* "Faulty" marks a change somebody could make to the code; the checks put *)
(* it in the place of the definition that follows it and expect a property *)
(* below to fail.                                                          *)

(* Faulty: the tie counts twice. *)
NewerFar(i) == At[i] > lock.installedAtMs + 2 * Epsilon

Older(i) == At[i] + Epsilon < lock.installedAtMs
Newer(i) == At[i] > lock.installedAtMs + Epsilon

(* Faulty: within the tie anybody is let in. *)
SameInstallAny(i) == TRUE

(* Within the tie the ids decide: a lock with an id lets that id in alone, *)
(* one without an id lets everybody in.                                    *)
SameInstall(i) == lock.installId = NoId \/ lock.installId = InstallId[i]

(* Faulty: nothing is asked of an installation without a time. *)
AllowedUndated(i) ==
  \/ lock.installedAtMs = 0 \/ At[i] = 0
  \/ ~Older(i) /\ (Newer(i) \/ SameInstall(i))

(* evaluateCollectorAgentInstallRegistration                               *)
Allowed(i) ==
  \/ lock.installedAtMs = 0
  \/ At[i] > 0 /\ ~Older(i) /\ (Newer(i) \/ SameInstall(i))

(* Faulty: the lock is set by the first installation alone. *)
UpdatedOnce(i) == IF lock = Open THEN Sent(i) ELSE lock

(* Faulty: the tie is taken off when the lock is set. *)
UpdatedBack(i) ==
  IF Sent(i) = Open THEN lock ELSE [Sent(i) EXCEPT !.installedAtMs = @ - Epsilon]

(* updateCollectorAgentInstallLock                                         *)
Updated(i) == IF Sent(i) = Open THEN lock ELSE Sent(i)

Register(i) ==
  /\ Allowed(i)
  /\ lock' = Updated(i)
  /\ replaced' = (replaced \cup (holder \cap accepted)) \ {i}
  /\ holder' = {i}
  /\ accepted' = accepted \cup {i}
  /\ UNCHANGED stored

(* The flush of the sites.                                                 *)
Flush ==
  /\ stored # lock
  /\ stored' = lock
  /\ UNCHANGED <<lock, holder, accepted, replaced>>

(* A crash, after which the lock is the one that was stored; the sessions  *)
(* have rows of their own.  When that is not the last lock the history     *)
(* starts anew.                                                            *)
Restart ==
  /\ lock' = stored
  /\ IF lock = stored THEN UNCHANGED <<accepted, replaced>>
                      ELSE accepted' = {} /\ replaced' = {}
  /\ UNCHANGED <<stored, holder>>

(* The import of a backup, and a site that is deleted and made again.      *)
Restored ==
  /\ lock' \in {Open} \cup {Sent(i) : i \in Installs} /\ lock' # lock
  /\ accepted' = {} /\ replaced' = {}
  /\ UNCHANGED <<stored, holder>>

LockInit ==
  /\ lock = Open /\ stored = Open
  /\ holder = {} /\ accepted = {} /\ replaced = {}

LockNext == (\E i \in Installs : Register(i)) \/ Flush \/ Restart \/ Restored

LockSpec == LockInit /\ [][LockNext]_lockVars

-------------------------------------------------------------------------------
(* Properties *)

LockTypeOK ==
  /\ lock \in Identity /\ stored \in Identity
  /\ holder \in SUBSET Installs
  /\ accepted \in SUBSET Installs /\ replaced \in SUBSET Installs

Undated == {i \in Installs : At[i] = 0}
Nameless == {i \in Installs : At[i] > 0 /\ InstallId[i] = NoId}

(* The setup program writes an id whenever it writes a time; only a file   *)
(* made by hand lacks it.                                                  *)
OneNameless == \A i, j \in Nameless : i = j

(* Two agents of one site do not take it from each other in turns: a       *)
(* complete installation that was replaced is refused from then on, unless *)
(* the lock was lost; so it is with one installation without an id around, *)
(* however close the times are.                                            *)
ReplacedStaysOut ==
  \A i \in replaced : Complete(i) => ~Allowed(i)

(* The site belongs to the newest installation that was let in, give or    *)
(* take the tie: the ties do not add up.                                   *)
NewestHolds ==
  \A i \in accepted : lock.installedAtMs + Epsilon >= At[i]

(* Once a dated installation was let in, one without a time never is.      *)
UndatedStaysOut ==
  (\E i \in accepted : At[i] > 0) => \A i \in Undated : ~Allowed(i)

(* Who is refused is not newer than the installation that holds the site   *)
(* by more than the tie, whatever the 409 of the route says of it.         *)
RefusedWithinTie ==
  \A i \in Installs, h \in holder \cap accepted :
    Complete(i) /\ Complete(h) /\ ~Allowed(i) => At[i] <= At[h] + Epsilon

(* The lock is kept: all of the above.                                     *)
InstallSafety ==
  LockTypeOK /\ ReplacedStaysOut /\ NewestHolds /\ UndatedStaysOut /\ RefusedWithinTie

-------------------------------------------------------------------------------
(* Proofs *)

(* The ties do not add up because an installation without an id, which     *)
(* lets everybody within its tie in, comes back after a complete one only  *)
(* when it is newer by more than the tie.                                  *)
IInv ==
  /\ LockTypeOK
  /\ lock \in {Open} \cup {Sent(i) : i \in Installs}
  /\ stored \in {Open} \cup {Sent(i) : i \in Installs}
  /\ \A h \in holder : holder = {h}
  /\ replaced \subseteq accepted
  /\ \A i \in accepted : At[i] > 0 => lock.installedAtMs > 0
  /\ \A i \in accepted : Complete(i) /\ lock # Sent(i) =>
       IF lock.installId = NoId THEN At[i] + Epsilon < lock.installedAtMs
                                ELSE At[i] < lock.installedAtMs
  /\ \A i \in accepted : At[i] <= lock.installedAtMs + Epsilon
  /\ \A i \in replaced : Complete(i) => lock # Sent(i)
  /\ \A h \in holder \cap accepted : Complete(h) => lock = Sent(h)

LEMMA OpenIsIdentity == Open \in Identity
  BY DEF Open, Identity, Ids

LEMMA SentIsIdentity == ASSUME NEW i \in Installs PROVE Sent(i) \in Identity
  BY InstallAssumption DEF Sent, Identity, Ids

(* What is sent tells installations with a time apart.                     *)
LEMMA SentApart ==
  ASSUME OneNameless, NEW i \in Installs, NEW j \in Installs,
         Sent(i) = Sent(j), At[i] > 0
  PROVE  i = j
<1>1. InstallId[i] = InstallId[j] /\ At[i] = At[j] BY DEF Sent
<1>2. QED BY <1>1, InstallAssumption DEF OneNameless, Nameless

LEMMA InitInv == LockInit => IInv
  BY OpenIsIdentity DEF LockInit, IInv, LockTypeOK

(* An installation that takes the lock: the times of the others.           *)
LEMMA Taken ==
  ASSUME OneNameless, IInv, NEW i \in Installs, Allowed(i), At[i] > 0,
         NEW j \in accepted, j # i
  PROVE  /\ Complete(j) => IF InstallId[i] = NoId THEN At[j] + Epsilon < At[i] ELSE At[j] < At[i]
         /\ At[j] <= At[i] + Epsilon
<1> USE InstallAssumption
<1>1. /\ j \in Installs /\ At[j] \in Nat /\ At[i] \in Nat
      /\ lock.installedAtMs \in Nat /\ lock.installId \in Ids
  BY DEF IInv, LockTypeOK, Identity
<1>2. CASE At[j] = 0
  BY <1>1, <1>2 DEF Complete
<1>3. CASE At[j] > 0
  <2>1. lock.installedAtMs > 0 BY <1>3 DEF IInv
  <2>2. PICK k \in Installs : lock = Sent(k)
    BY <1>1, <2>1 DEF IInv, Open
  <2>3. lock.installId = InstallId[k] /\ lock.installedAtMs = At[k] /\ At[k] \in Nat
    BY <2>2 DEF Sent
  <2>4. /\ ~(At[i] + Epsilon < At[k])
        /\ At[i] > At[k] + Epsilon \/ InstallId[k] = NoId \/ InstallId[k] = InstallId[i]
    BY <1>1, <2>1, <2>3 DEF Allowed, Older, Newer, SameInstall
  <2>5. At[j] <= At[k] + Epsilon BY <2>3 DEF IInv
  <2>6. Complete(j) /\ k # j =>
          IF InstallId[k] = NoId THEN At[j] + Epsilon < At[k] ELSE At[j] < At[k]
    <3>1. k # j => lock # Sent(j) BY <1>1, <1>3, <2>2, SentApart
    <3>2. QED BY <2>3, <3>1 DEF IInv
  <2>7. CASE k = i BY <1>1, <2>3, <2>5, <2>6, <2>7
  <2>8. CASE k # i
    <3>1. InstallId[k] = NoId => InstallId[i] # NoId BY <2>1, <2>3, <2>8 DEF OneNameless, Nameless
    <3>2. At[i] > At[k] + Epsilon \/ InstallId[k] = NoId BY <2>1, <2>3, <2>4, <2>8
    <3>3. CASE At[i] > At[k] + Epsilon
      BY <1>1, <2>3, <2>5, <2>6, <3>3
    <3>4. CASE InstallId[k] = NoId
      <4>1. Complete(j) => At[j] + Epsilon < At[k] BY <2>6, <3>4 DEF Complete
      <4>2. ~Complete(j) => j = k
        BY <1>1, <1>3, <2>1, <2>3, <3>4 DEF Complete, OneNameless, Nameless
      <4>3. QED BY <1>1, <2>3, <2>4, <3>1, <3>4, <4>1, <4>2
    <3>5. QED BY <3>2, <3>3, <3>4
  <2>9. QED BY <2>7, <2>8
<1>4. QED BY <1>1, <1>2, <1>3

LEMMA RegisterInv ==
  ASSUME OneNameless, IInv, NEW i \in Installs, Register(i)
  PROVE  IInv'
<1> USE InstallAssumption
<1>1. /\ Allowed(i) /\ lock' = Updated(i) /\ stored' = stored
      /\ replaced' = (replaced \cup (holder \cap accepted)) \ {i}
      /\ holder' = {i} /\ accepted' = accepted \cup {i}
  BY DEF Register
<1>2. /\ holder \subseteq Installs /\ accepted \subseteq Installs
      /\ replaced \subseteq accepted /\ lock.installedAtMs \in Nat
  BY DEF IInv, LockTypeOK, Identity
<1>3. lock' \in {Open} \cup {Sent(k) : k \in Installs} /\ lock' \in Identity
  BY <1>1, SentIsIdentity DEF Updated, IInv, LockTypeOK
<1>4. LockTypeOK' BY <1>1, <1>2, <1>3 DEF IInv, LockTypeOK
<1>5. CASE At[i] > 0
  <2>1. lock' = Sent(i) BY <1>1, <1>5 DEF Updated, Sent, Open
  <2>2. lock'.installId = InstallId[i] /\ lock'.installedAtMs = At[i] BY <2>1 DEF Sent
  <2>3. \A j \in accepted' : Complete(j) /\ lock' # Sent(j) =>
          IF InstallId[i] = NoId THEN At[j] + Epsilon < At[i] ELSE At[j] < At[i]
    BY <1>1, <1>5, <2>1, Taken
  <2>4. \A j \in accepted' : At[j] <= At[i] + Epsilon
    BY <1>1, <1>5, Taken
  <2>5. \A j \in replaced' : Complete(j) => lock' # Sent(j)
    BY <1>1, <1>2, <1>5, <2>1, SentApart
  <2>6. QED
    BY <1>1, <1>2, <1>3, <1>4, <1>5, <2>1, <2>2, <2>3, <2>4, <2>5 DEF IInv, Complete
<1>6. CASE At[i] = 0
  <2>1. lock.installedAtMs = 0 BY <1>1, <1>6 DEF Allowed
  <2>2. \A j \in accepted' : At[j] = 0 BY <1>1, <1>2, <1>6, <2>1 DEF IInv
  <2>3. \A j \in accepted' : ~Complete(j) BY <2>2 DEF Complete
  <2>4. lock'.installedAtMs \in Nat BY <1>3 DEF Identity
  <2>5. \A j \in accepted' : At[j] <= lock'.installedAtMs + Epsilon BY <2>2, <2>4
  <2>6. replaced' \subseteq accepted' BY <1>1, <1>2
  <2>7. QED BY <1>1, <1>2, <1>3, <1>4, <2>2, <2>3, <2>5, <2>6 DEF IInv, Complete
<1>7. QED BY <1>5, <1>6

(* The lock is another one, and the history starts anew.                   *)
LEMMA LostInv ==
  ASSUME IInv, lock' \in {Open} \cup {Sent(i) : i \in Installs},
         accepted' = {}, replaced' = {}, UNCHANGED <<stored, holder>>
  PROVE  IInv'
<1>1. lock' \in Identity BY OpenIsIdentity, SentIsIdentity
<1>2. LockTypeOK' BY <1>1 DEF IInv, LockTypeOK
<1>3. QED BY <1>2 DEF IInv

LEMMA NextInv == ASSUME OneNameless PROVE IInv /\ [LockNext]_lockVars => IInv'
<1> SUFFICES ASSUME IInv, [LockNext]_lockVars PROVE IInv' OBVIOUS
<1>1. ASSUME NEW i \in Installs, Register(i) PROVE IInv'
  BY <1>1, RegisterInv
<1>2. CASE Flush BY <1>2 DEF Flush, IInv, LockTypeOK, Complete, Sent, Open
<1>3. CASE Restart
  <2>1. CASE lock = stored
    BY <1>3, <2>1 DEF Restart, IInv, LockTypeOK
  <2>2. CASE lock # stored
    BY <1>3, <2>2, LostInv DEF Restart, IInv
  <2>3. QED BY <2>1, <2>2
<1>4. CASE Restored BY <1>4, LostInv DEF Restored
<1>5. CASE UNCHANGED lockVars BY <1>5 DEF lockVars, IInv, LockTypeOK
<1>6. QED BY <1>1, <1>2, <1>3, <1>4, <1>5 DEF LockNext

LEMMA InvIsSafe == IInv => InstallSafety
<1> SUFFICES ASSUME IInv PROVE InstallSafety OBVIOUS
<1> USE InstallAssumption
<1>1. /\ lock.installedAtMs \in Nat
      /\ accepted \subseteq Installs /\ replaced \subseteq accepted
      /\ holder \subseteq Installs
  BY DEF IInv, LockTypeOK, Identity
<1>2. ReplacedStaysOut
  <2> SUFFICES ASSUME NEW i \in replaced, Complete(i) PROVE ~Allowed(i)
    BY DEF ReplacedStaysOut
  <2>1. i \in Installs /\ i \in accepted /\ At[i] \in Nat /\ At[i] > 0 /\ InstallId[i] # NoId
    BY <1>1 DEF Complete
  <2>2. lock.installedAtMs > 0 /\ lock # Sent(i) BY <2>1 DEF IInv
  <2>3. PICK k \in Installs : lock = Sent(k) BY <1>1, <2>2 DEF IInv, Open
  <2>4. lock.installId = InstallId[k] BY <2>3 DEF Sent
  <2>5. lock.installId # InstallId[i] BY <2>1, <2>2, <2>3, <2>4
  <2>6. IF lock.installId = NoId THEN At[i] + Epsilon < lock.installedAtMs
                                 ELSE At[i] < lock.installedAtMs
    BY <2>1, <2>2 DEF IInv
  <2>7. QED BY <1>1, <2>1, <2>2, <2>5, <2>6 DEF Allowed, Older, Newer, SameInstall
<1>3. NewestHolds BY <1>1 DEF IInv, NewestHolds
<1>4. UndatedStaysOut
  BY <1>1 DEF IInv, UndatedStaysOut, Undated, Allowed
<1>5. RefusedWithinTie
  <2> SUFFICES ASSUME NEW i \in Installs, NEW h \in holder \cap accepted,
                      Complete(i), Complete(h), ~Allowed(i)
               PROVE  At[i] <= At[h] + Epsilon
    BY DEF RefusedWithinTie
  <2>1. lock.installedAtMs = At[h] BY DEF IInv, Sent
  <2>2. At[h] \in Nat /\ At[i] \in Nat BY <1>1
  <2>3. QED BY <2>1, <2>2 DEF Allowed, Older, Newer, SameInstall, Complete
<1>6. QED BY <1>2, <1>3, <1>4, <1>5 DEF InstallSafety, IInv

(* Whatever installations register in whatever order, with flushes,        *)
(* crashes and imports in between: an installation that was replaced stays *)
(* out, and the site stays with the newest one, give or take the tie.      *)
THEOREM LockKept == ASSUME OneNameless PROVE LockSpec => []InstallSafety
<1>1. LockSpec => []IInv BY InitInv, NextInv, PTL DEF LockSpec
<1>2. QED BY <1>1, InvIsSafe, PTL

(* What holds of the lock however many installations lack an id.           *)
Plain ==
  /\ LockTypeOK
  /\ lock \in {Open} \cup {Sent(i) : i \in Installs}
  /\ stored \in {Open} \cup {Sent(i) : i \in Installs}
  /\ \A h \in holder : holder = {h}
  /\ \A i \in accepted : At[i] > 0 => lock.installedAtMs > 0
  /\ \A h \in holder \cap accepted : Complete(h) => lock = Sent(h)

LEMMA PlainRegister == ASSUME Plain, NEW i \in Installs, Register(i) PROVE Plain'
<1> USE InstallAssumption
<1>1. /\ Allowed(i) /\ lock' = Updated(i) /\ stored' = stored
      /\ replaced' = (replaced \cup (holder \cap accepted)) \ {i}
      /\ holder' = {i} /\ accepted' = accepted \cup {i}
  BY DEF Register
<1>2. /\ holder \subseteq Installs /\ accepted \subseteq Installs
      /\ replaced \subseteq Installs /\ lock.installedAtMs \in Nat /\ At[i] \in Nat
  BY DEF Plain, LockTypeOK, Identity
<1>3. lock' \in {Open} \cup {Sent(k) : k \in Installs} /\ lock' \in Identity
  BY <1>1, SentIsIdentity DEF Updated, Plain, LockTypeOK
<1>4. LockTypeOK' BY <1>1, <1>2, <1>3 DEF Plain, LockTypeOK
<1>5. CASE At[i] > 0
  <2>1. lock' = Sent(i) /\ lock'.installedAtMs = At[i]
    BY <1>1, <1>5 DEF Updated, Sent, Open
  <2>2. QED BY <1>1, <1>3, <1>4, <1>5, <2>1 DEF Plain
<1>6. CASE At[i] = 0
  <2>1. lock.installedAtMs = 0 BY <1>1, <1>6 DEF Allowed
  <2>2. \A j \in accepted' : At[j] = 0 \/ ~(At[j] > 0)
    BY <1>1, <1>6, <2>1 DEF Plain
  <2>3. \A j \in accepted' : ~Complete(j) /\ ~(At[j] > 0)
    BY <1>1, <1>2, <1>6, <2>1 DEF Plain, Complete
  <2>4. QED BY <1>1, <1>3, <1>4, <2>3 DEF Plain
<1>7. QED BY <1>2, <1>5, <1>6

LEMMA PlainNext == Plain /\ [LockNext]_lockVars => Plain'
<1> SUFFICES ASSUME Plain, [LockNext]_lockVars PROVE Plain' OBVIOUS
<1>1. ASSUME NEW i \in Installs, Register(i) PROVE Plain'
  BY <1>1, PlainRegister
<1>2. CASE Flush BY <1>2 DEF Flush, Plain, LockTypeOK, Complete, Sent
<1>3. CASE Restart
  <2>1. CASE lock = stored BY <1>3, <2>1 DEF Restart, Plain, LockTypeOK
  <2>2. CASE lock # stored BY <1>3, <2>2 DEF Restart, Plain, LockTypeOK
  <2>3. QED BY <2>1, <2>2
<1>4. CASE Restored
  <2>1. lock' \in Identity BY <1>4, OpenIsIdentity, SentIsIdentity DEF Restored
  <2>2. QED BY <1>4, <2>1 DEF Restored, Plain, LockTypeOK
<1>5. CASE UNCHANGED lockVars BY <1>5 DEF lockVars, Plain, LockTypeOK
<1>6. QED BY <1>1, <1>2, <1>3, <1>4, <1>5 DEF LockNext

(* Without any hypothesis on the installations: one without a time never   *)
(* comes in after one with a time, and who is refused is not newer than    *)
(* the holder by more than the tie.                                        *)
THEOREM RefusalsKept == LockSpec => [](UndatedStaysOut /\ RefusedWithinTie)
<1>1. LockInit => Plain BY OpenIsIdentity DEF LockInit, Plain, LockTypeOK
<1>2. Plain => UndatedStaysOut /\ RefusedWithinTie
  <2> SUFFICES ASSUME Plain PROVE UndatedStaysOut /\ RefusedWithinTie OBVIOUS
  <2> USE InstallAssumption
  <2>1. UndatedStaysOut
    BY DEF Plain, LockTypeOK, Identity, UndatedStaysOut, Undated, Allowed
  <2>2. ASSUME NEW i \in Installs, NEW h \in holder \cap accepted,
               Complete(i), Complete(h), ~Allowed(i)
        PROVE  At[i] <= At[h] + Epsilon
    <3>1. lock.installedAtMs = At[h] BY <2>2 DEF Plain, Sent
    <3>2. At[h] \in Nat /\ At[i] \in Nat BY DEF Plain, LockTypeOK
    <3>3. QED BY <2>2, <3>1, <3>2 DEF Allowed, Older, Newer, SameInstall, Complete
  <2>3. QED BY <2>1, <2>2 DEF RefusedWithinTie
<1>3. QED BY <1>1, <1>2, PlainNext, PTL DEF LockSpec
===============================================================================
