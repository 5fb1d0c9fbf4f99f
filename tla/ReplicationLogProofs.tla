-------------------------- MODULE ReplicationLogProofs --------------------------
(***************************************************************************)
(* Proofs about ReplicationLog, for every set of identities, authorities,  *)
(* sessions and operations.                                                *)
(***************************************************************************)
EXTENDS ReplicationLog, FiniteSetTheorems, WellFoundedInduction, TLAPS

(***************************************************************************)
(* The inductive invariant.  TypeOK, CreditIsEarned and WaitsAreFenced say *)
(* what the properties need of the tracker; the four bounds below keep     *)
(* every LSN the engine relies on inside the durable local log, and keep   *)
(* the next reservation outside it.                                        *)
(***************************************************************************)

(* The engine never claims more local progress than the durable log has.    *)
LocalCreditIsDurable == progress[Local] <= applied_lsn

(* Waits, commits and acknowledgements all lie inside the durable log.      *)
CommitsAreDurable ==
    /\ committed_lsn <= applied_lsn
    /\ \A lsn \in pending : lsn <= applied_lsn
    /\ \A w \in acknowledged : w.lsn <= applied_lsn

(* While this replica is the configured primary, the next LSN is past the   *)
(* durable log: admission raised it there and only writes move either.      *)
NextIsPastLog ==
    authority # None /\ LocalIsPrimary(authority, Local) => next_lsn >= applied_lsn

(* A reservation belongs to the admitted authority and is the next LSN.     *)
ReservationIsNext ==
    pending_local_write # None =>
        /\ authority # None
        /\ LocalIsPrimary(authority, Local)
        /\ pending_local_write.lsn = next_lsn + 1

(* The commit point never passes a write whose client still waits for its   *)
(* quorum: settle_primary_prefix stops short of every unresolved write.     *)
CommitStopsAtWaits == \A lsn \in pending : committed_lsn < lsn

(* Everything about client waits: fenced, above the commit point, queued.   *)
WaitsAreSound == WaitsAreFenced /\ CommitStopsAtWaits /\ WaitsAreQueued

IInv ==
    /\ TypeOK
    /\ CreditIsEarned
    /\ WaitsAreSound
    /\ LocalCreditIsDurable
    /\ CommitsAreDurable
    /\ NextIsPastLog
    /\ ReservationIsNext
    /\ AcknowledgedIsReplicated

-----------------------------------------------------------------------------

(* Max2 is the larger of two naturals, as i64::max in the engine.           *)
LEMMA Max2Facts ==
    ASSUME NEW m \in Nat, NEW n \in Nat
    PROVE  Max2(m, n) \in Nat /\ Max2(m, n) >= m /\ Max2(m, n) >= n
           /\ (Max2(m, n) = m \/ Max2(m, n) = n)
BY DEF Max2

(* A maximum stays below a common bound.                                    *)
LEMMA Max2Bounded ==
    ASSUME NEW m \in Nat, NEW n \in Nat, NEW bound \in Nat, m <= bound, n <= bound
    PROVE  Max2(m, n) \in Nat /\ Max2(m, n) <= bound
BY DEF Max2

(* The maximum of a natural and a credit that may be absent is a natural.   *)
LEMMA Max2OfCredit ==
    ASSUME NEW m \in Nat \cup {Absent}, NEW n \in Nat
    PROVE  Max2(m, n) \in Nat
BY DEF Max2, Absent

(* Every natural is at least itself.                                        *)
LEMMA AtLeastItself == ASSUME NEW n \in Nat PROVE n >= n
OBVIOUS

(* The members of an interval that starts at zero.                          *)
LEMMA UpTo == ASSUME NEW n \in Nat, NEW k \in 0..n PROVE k \in Nat /\ k <= n
OBVIOUS

(* Raising one entry of a progress map keeps its type and every other entry. *)
LEMMA RaiseFacts ==
    ASSUME NEW p \in [Identity -> Nat \cup {Absent}], NEW i \in Identity, NEW lsn \in Nat
    PROVE  /\ Raise(p, i, lsn) \in [Identity -> Nat \cup {Absent}]
           /\ \A j \in Identity \ {i} : Raise(p, i, lsn)[j] = p[j]
           /\ Raise(p, i, lsn)[i] = lsn \/ Raise(p, i, lsn)[i] = p[i]
BY DEF Raise, Absent

(* The parts of the type invariant that the arithmetic below needs.         *)
LEMMA NumericTypes ==
    ASSUME IInv
    PROVE  /\ next_lsn \in Nat /\ applied_lsn \in Nat /\ committed_lsn \in Nat
           /\ highest_lsn \in Nat
           /\ progress \in [Identity -> Nat \cup {Absent}]
           /\ pending \subseteq Nat \ {0}
           /\ queue \subseteq Nat
BY DEF IInv, TypeOK

(* The initial state of the engine satisfies the invariant.                 *)
LEMMA InitInvariant == Init => IInv
<1> SUFFICES ASSUME Init PROVE IInv
  OBVIOUS
<1> USE LocalAssumption, NoneAssumption
<1>1. TypeOK
  BY Zenon, SessionAssumption DEF Init, TypeOK, Roles, Absent
<1>2. CreditIsEarned
  BY DEF Init, CreditIsEarned, Peers, Absent
<1>3. WaitsAreSound
  BY DEF Init, WaitsAreSound, WaitsAreFenced, CommitStopsAtWaits, WaitsAreQueued
<1>4. LocalCreditIsDurable /\ CommitsAreDurable
  BY DEF Init, LocalCreditIsDurable, CommitsAreDurable, Absent
<1>5. NextIsPastLog /\ ReservationIsNext
  BY DEF Init, NextIsPastLog, ReservationIsNext
<1>6. AcknowledgedIsReplicated
  BY DEF Init, AcknowledgedIsReplicated
<1> QED
  BY <1>1, <1>2, <1>3, <1>4, <1>5, <1>6 DEF IInv

-----------------------------------------------------------------------------
(* What a step may do to the facts that acknowledgements rest on.           *)

(* The peers never forget what they verified or built.                      *)
PeersGrow ==
    \A i \in Identity :
        /\ built'[i] >= built[i]
        /\ \A s \in Session, f \in AdmissibleFences :
               verified_in'[i][s][f] >= verified_in[i][s][f]

(* Fields of an admitted authority.                                         *)
LEMMA AuthorityFacts ==
    ASSUME NEW a \in Admissible
    PROVE  /\ a # None
           /\ a \in Authorities
           /\ a.current \in Configurations
           /\ a.current.primary \in a.current.members
           /\ a.previous # None => a.previous \in Configurations
           /\ a.scale_up # None => a.scale_up \in ScaleUps
           /\ Fence(a) \in AdmissibleFences
BY AdmissibleAssumption, NoneAssumption DEF Authorities, AdmissibleFences

(* What a write quorum holds it keeps, as long as the peers grow and the    *)
(* local log keeps the LSN in question.                                     *)
LEMMA HeldByQuorumKept ==
    ASSUME TypeOK, TypeOK', PeersGrow,
           NEW a \in Admissible, NEW c \in Configurations, NEW lsn \in Nat,
           applied_lsn' >= lsn \/ applied_lsn' >= applied_lsn,
           HeldByQuorum(c, a, lsn)
    PROVE  HeldByQuorum(c, a, lsn)'
<1> DEFINE before == {i \in c.members : Holds(i, a, lsn)}
           after  == {i \in c.members : Holds(i, a, lsn)'}
<1>1. c.members \subseteq Identity /\ c.write_quorum \in Nat
  BY DEF Configurations
<1>2. ASSUME NEW i \in c.members, Holds(i, a, lsn)
      PROVE  Holds(i, a, lsn)'
  <2>1. i \in Identity
    BY <1>1
  <2>2. CASE i = Local
    BY <2>2, <1>2 DEF Holds, TypeOK
  <2>3. CASE i # Local
    <3>1. CASE \E s \in Session, f \in CreditFences(a) : verified_in[i][s][f] >= lsn
      <4>1. PICK s \in Session, f \in CreditFences(a) : verified_in[i][s][f] >= lsn
        BY <3>1
      <4>2. f \in AdmissibleFences
        BY DEF CreditFences
      <4>3. verified_in'[i][s][f] >= verified_in[i][s][f]
        BY <2>1, <4>2 DEF PeersGrow
      <4>4. verified_in'[i][s][f] \in Nat /\ verified_in[i][s][f] \in Nat
        BY <2>1, <4>2 DEF TypeOK
      <4> QED
        BY <4>1, <4>3, <4>4, <2>3 DEF Holds, CreditFences
    <3>2. CASE a.scale_up # None /\ i = a.scale_up.target /\ built[i] >= lsn
      <4>1. built'[i] >= built[i] /\ built'[i] \in Nat /\ built[i] \in Nat
        BY Zenon, <2>1 DEF PeersGrow, TypeOK
      <4> QED
        BY <3>2, <4>1, <2>3 DEF Holds
    <3> QED
      BY Zenon, <3>1, <3>2, <2>3, <1>2 DEF Holds
  <2> QED
    BY <2>2, <2>3
<1>3. before \subseteq after
  BY <1>2
<1>4. IsFiniteSet(after)
  BY <1>1, IdentityAssumption, FS_Subset
<1>5. Cardinality(before) <= Cardinality(after) /\ Cardinality(before) \in Nat
      /\ Cardinality(after) \in Nat
  BY <1>3, <1>4, FS_Subset, FS_CardinalityType
<1> QED
  BY <1>1, <1>5 DEF HeldByQuorum

(* Acknowledgements that are not added to stay replicated.                  *)
LEMMA AcknowledgedKept ==
    ASSUME TypeOK, TypeOK', PeersGrow, AcknowledgedIsReplicated,
           acknowledged' \subseteq acknowledged,
           \A w \in acknowledged' : applied_lsn' >= w.lsn \/ applied_lsn' >= applied_lsn
    PROVE  AcknowledgedIsReplicated'
<1> SUFFICES ASSUME NEW w \in acknowledged'
             PROVE  /\ HeldByQuorum(w.authority.current, w.authority, w.lsn)'
                    /\ w.authority.previous # None =>
                           HeldByQuorum(w.authority.previous, w.authority, w.lsn)'
  BY DEF AcknowledgedIsReplicated
<1>1. w \in acknowledged /\ w.authority \in Admissible /\ w.lsn \in Nat
  BY Zenon DEF TypeOK
<1>2. /\ HeldByQuorum(w.authority.current, w.authority, w.lsn)
      /\ w.authority.previous # None =>
             HeldByQuorum(w.authority.previous, w.authority, w.lsn)
  BY <1>1 DEF AcknowledgedIsReplicated
<1>3. applied_lsn' >= w.lsn \/ applied_lsn' >= applied_lsn
  OBVIOUS
<1>4. HeldByQuorum(w.authority.current, w.authority, w.lsn)'
  BY <1>1, <1>2, <1>3, AuthorityFacts, HeldByQuorumKept
<1>5. w.authority.previous # None =>
          HeldByQuorum(w.authority.previous, w.authority, w.lsn)'
  BY <1>1, <1>2, <1>3, AuthorityFacts, HeldByQuorumKept
<1> QED
  BY <1>4, <1>5

(* Earned credit stays earned while the tracker is left alone.              *)
LEMMA CreditKept ==
    ASSUME TypeOK, TypeOK', PeersGrow, CreditIsEarned,
           UNCHANGED <<progress, sessions, authority>>
    PROVE  CreditIsEarned'
<1> SUFFICES ASSUME NEW i \in Peers, progress[i] > 0
             PROVE  /\ authority # None
                    /\ \/ /\ sessions[i] # None
                          /\ \E f \in CreditFences(authority) :
                                verified_in'[i][sessions[i]][f] >= progress[i]
                       \/ /\ authority.scale_up # None
                          /\ i = authority.scale_up.target
                          /\ built'[i] >= progress[i]
  BY Zenon DEF CreditIsEarned, CreditFences
<1>1. i \in Identity /\ progress[i] \in Int
  BY DEF Peers, TypeOK, Absent
<1>2. authority # None
  BY DEF CreditIsEarned
<1>3. CASE /\ sessions[i] # None
           /\ \E f \in CreditFences(authority) :
                 verified_in[i][sessions[i]][f] >= progress[i]
  <2>1. PICK f \in CreditFences(authority) : verified_in[i][sessions[i]][f] >= progress[i]
    BY Zenon, <1>3
  <2>2. f \in AdmissibleFences /\ sessions[i] \in Session
    BY Zenon, <1>1, <1>3 DEF CreditFences, TypeOK
  <2>3. verified_in'[i][sessions[i]][f] >= verified_in[i][sessions[i]][f]
    BY Zenon, <1>1, <2>2 DEF PeersGrow
  <2>4. verified_in'[i][sessions[i]][f] \in Nat /\ verified_in[i][sessions[i]][f] \in Nat
    BY <1>1, <2>2 DEF TypeOK
  <2> QED
    BY <1>1, <1>2, <1>3, <2>1, <2>3, <2>4
<1>4. CASE authority.scale_up # None /\ i = authority.scale_up.target /\ built[i] >= progress[i]
  <2>1. built'[i] >= built[i] /\ built'[i] \in Nat /\ built[i] \in Nat
    BY Zenon, <1>1 DEF PeersGrow, TypeOK
  <2> QED
    BY <1>1, <1>2, <1>4, <2>1
<1> QED
  BY Zenon, <1>3, <1>4 DEF CreditIsEarned

(* A step that leaves the tracker's credit and the acknowledgements alone   *)
(* only has the four bounds and the fencing of waits to establish.          *)
LEMMA QuietStep ==
    ASSUME IInv, TypeOK', PeersGrow,
           UNCHANGED <<progress, sessions, authority, acknowledged>>,
           applied_lsn' >= applied_lsn,
           WaitsAreSound', CommitsAreDurable', NextIsPastLog', ReservationIsNext'
    PROVE  IInv'
<1>1. CreditIsEarned'
  BY CreditKept DEF IInv
<1>2. AcknowledgedIsReplicated'
  BY AcknowledgedKept DEF IInv
<1>3. LocalCreditIsDurable'
  <2>1. progress[Local] \in Int /\ applied_lsn \in Int /\ applied_lsn' \in Int
    BY LocalAssumption DEF IInv, TypeOK, Absent
  <2> QED
    BY <2>1 DEF IInv, LocalCreditIsDurable
<1> QED
  BY <1>1, <1>2, <1>3 DEF IInv

(* The peers grow when the step does not touch them.                        *)
LEMMA PeersUnchangedGrow ==
    ASSUME TypeOK, UNCHANGED <<verified_in, built>>
    PROVE  PeersGrow
BY DEF TypeOK, PeersGrow

-----------------------------------------------------------------------------
(* Each action preserves the invariant.                                     *)

(* Open preserves the invariant.                                        *)
LEMMA OpenPreserves == ASSUME IInv, Open PROVE IInv'
<1> USE DEF Open, trackerVars, peerVars
<1>1. TypeOK' /\ PeersGrow
  BY Zenon, PeersUnchangedGrow DEF IInv, TypeOK
<1>2. WaitsAreSound'
  BY DEF IInv, WaitsAreSound, WaitsAreFenced, CommitStopsAtWaits, WaitsAreQueued, MayWrite
<1>3. CommitsAreDurable' /\ NextIsPastLog' /\ ReservationIsNext'
  BY DEF IInv, CommitsAreDurable, NextIsPastLog, ReservationIsNext
<1>4. applied_lsn' >= applied_lsn
  BY DEF IInv, TypeOK
<1> QED
  BY <1>1, <1>2, <1>3, <1>4, QuietStep

(* UpdateEpoch preserves the invariant.                                 *)
LEMMA UpdateEpochPreserves ==
    ASSUME IInv, NEW e \in Nat, UpdateEpoch(e) PROVE IInv'
<1> USE DEF UpdateEpoch, FailPending, peerVars
<1>1. TypeOK' /\ PeersGrow
  BY Zenon, PeersUnchangedGrow DEF IInv, TypeOK
<1>2. WaitsAreSound'
  BY DEF IInv, WaitsAreSound, WaitsAreFenced, CommitStopsAtWaits, WaitsAreQueued, MayWrite
<1>3. CommitsAreDurable' /\ NextIsPastLog' /\ ReservationIsNext'
  BY DEF IInv, CommitsAreDurable, NextIsPastLog, ReservationIsNext
<1>4. applied_lsn' >= applied_lsn
  BY DEF IInv, TypeOK
<1> QED
  BY <1>1, <1>2, <1>3, <1>4, QuietStep

(* ChangeRole preserves the invariant.                                  *)
LEMMA ChangeRolePreserves ==
    ASSUME IInv, NEW e \in Nat, NEW r \in Roles, ChangeRole(e, r) PROVE IInv'
<1> USE DEF ChangeRole, FailPending, peerVars
<1>1. TypeOK' /\ PeersGrow
  BY Zenon, PeersUnchangedGrow DEF IInv, TypeOK
<1>2. WaitsAreSound'
  BY DEF WaitsAreSound, WaitsAreFenced, CommitStopsAtWaits, WaitsAreQueued
<1>3. CommitsAreDurable' /\ NextIsPastLog' /\ ReservationIsNext'
  BY DEF IInv, CommitsAreDurable, NextIsPastLog, ReservationIsNext
<1>4. applied_lsn' >= applied_lsn
  BY DEF IInv, TypeOK
<1> QED
  BY <1>1, <1>2, <1>3, <1>4, QuietStep

(* Close preserves the invariant.                                       *)
LEMMA ClosePreserves == ASSUME IInv, Close PROVE IInv'
<1> USE DEF Close, FailPending, peerVars
<1>1. TypeOK' /\ PeersGrow
  BY Zenon, PeersUnchangedGrow DEF IInv, TypeOK, Roles
<1>2. WaitsAreSound'
  BY DEF WaitsAreSound, WaitsAreFenced, CommitStopsAtWaits, WaitsAreQueued
<1>3. CommitsAreDurable' /\ NextIsPastLog' /\ ReservationIsNext'
  BY DEF IInv, CommitsAreDurable, NextIsPastLog, ReservationIsNext
<1>4. applied_lsn' >= applied_lsn
  BY DEF IInv, TypeOK
<1> QED
  BY <1>1, <1>2, <1>3, <1>4, QuietStep

(* FenceClientWrites preserves the invariant.                           *)
LEMMA FenceClientWritesPreserves == ASSUME IInv, FenceClientWrites PROVE IInv'
<1> USE DEF FenceClientWrites, FailPending, logVars, peerVars
<1>1. TypeOK' /\ PeersGrow
  BY Zenon, PeersUnchangedGrow DEF IInv, TypeOK
<1>2. WaitsAreSound'
  BY DEF WaitsAreSound, WaitsAreFenced, CommitStopsAtWaits, WaitsAreQueued
<1>3. CommitsAreDurable' /\ NextIsPastLog' /\ ReservationIsNext'
  BY DEF IInv, CommitsAreDurable, NextIsPastLog, ReservationIsNext
<1>4. applied_lsn' >= applied_lsn
  BY NumericTypes
<1> QED
  BY <1>1, <1>2, <1>3, <1>4, QuietStep

(* Restart preserves the invariant.                                     *)
LEMMA RestartPreserves == ASSUME IInv, Restart PROVE IInv'
<1> USE DEF Restart, peerVars
<1>1. TypeOK' /\ PeersGrow
  BY Zenon, PeersUnchangedGrow DEF IInv, TypeOK, Roles, Absent
<1>2. CreditIsEarned'
  BY DEF CreditIsEarned, Peers, Absent
<1>3. LocalCreditIsDurable'
  BY NumericTypes, LocalAssumption DEF LocalCreditIsDurable, Absent
<1>4. CommitsAreDurable'
  BY NumericTypes DEF IInv, CommitsAreDurable
<1>5. WaitsAreSound' /\ NextIsPastLog' /\ ReservationIsNext'
  BY DEF WaitsAreSound, WaitsAreFenced, CommitStopsAtWaits, WaitsAreQueued,
         NextIsPastLog, ReservationIsNext
<1>6. AcknowledgedIsReplicated'
  <2>1. acknowledged' \subseteq acknowledged /\ applied_lsn' >= applied_lsn
    BY NumericTypes
  <2> QED
    BY <1>1, <2>1, AcknowledgedKept DEF IInv
<1> QED
  BY <1>1, <1>2, <1>3, <1>4, <1>5, <1>6 DEF IInv

(* ReserveWrite preserves the invariant.                                *)
LEMMA ReserveWritePreserves ==
    ASSUME IInv, NEW op \in Operation, ReserveWrite(op) PROVE IInv'
<1> USE DEF ReserveWrite, trackerVars, peerVars
<1>1. TypeOK' /\ PeersGrow
  BY PeersUnchangedGrow DEF IInv, TypeOK
<1>2. WaitsAreSound'
  BY Zenon DEF IInv, WaitsAreSound, WaitsAreFenced, CommitStopsAtWaits, WaitsAreQueued, MayWrite
<1>3. CommitsAreDurable' /\ NextIsPastLog'
  BY Zenon DEF IInv, CommitsAreDurable, NextIsPastLog
<1>4. ReservationIsNext'
  <2>1. authority \in Admissible
    BY Zenon DEF IInv, TypeOK, MayWrite
  <2> QED
    BY Zenon, <2>1, AuthorityFacts DEF MayWrite, ReservationIsNext, LocalIsPrimary, PrimaryIdentity
<1>5. applied_lsn' >= applied_lsn
  BY DEF IInv, TypeOK
<1> QED
  BY Zenon, <1>1, <1>2, <1>3, <1>4, <1>5, QuietStep

(* ApplyInbound preserves the invariant.                                *)
LEMMA ApplyInboundPreserves == ASSUME IInv, ApplyInbound PROVE IInv'
<1> USE DEF ApplyInbound, logVars, trackerVars, peerVars
<1>1. TypeOK' /\ PeersGrow
  BY PeersUnchangedGrow DEF IInv, TypeOK
<1>2. applied_lsn' >= applied_lsn
  BY DEF IInv, TypeOK
<1>3. WaitsAreSound'
  BY DEF IInv, WaitsAreSound, WaitsAreFenced, CommitStopsAtWaits, WaitsAreQueued, MayWrite
<1>4. CommitsAreDurable'
  BY DEF IInv, CommitsAreDurable, TypeOK
<1>5. NextIsPastLog' /\ ReservationIsNext'
  BY DEF IInv, NextIsPastLog, ReservationIsNext
<1> QED
  BY <1>1, <1>2, <1>3, <1>4, <1>5, QuietStep

(* RestoreCommittedPrefix preserves the invariant.                      *)
LEMMA RestoreCommittedPrefixPreserves ==
    ASSUME IInv, NEW lsn \in Nat, RestoreCommittedPrefix(lsn) PROVE IInv'
<1> USE DEF RestoreCommittedPrefix, logVars, peerVars
<1>0. pending' = pending /\ acknowledged' = acknowledged
  <2>1. \A n \in pending : lsn < n /\ n \in Nat
    BY Zenon, NumericTypes DEF UnresolvedLsns
  <2>2. \A n \in pending : n > lsn /\ ~(n <= lsn)
    BY <2>1
  <2> QED
    BY <2>2
<1>1. TypeOK' /\ PeersGrow
  BY Zenon, <1>0, PeersUnchangedGrow, Max2Facts DEF IInv, TypeOK
<1>2. applied_lsn' >= applied_lsn
  BY DEF IInv, TypeOK
<1>3. WaitsAreSound'
  <2>1. CommitStopsAtWaits'
    BY Zenon, <1>0 DEF IInv, WaitsAreSound, CommitStopsAtWaits, UnresolvedLsns, Max2
  <2> QED
    BY Zenon, <1>0, <2>1 DEF IInv, WaitsAreSound, WaitsAreFenced, WaitsAreQueued, MayWrite
<1>4. CommitsAreDurable'
  BY Zenon, <1>0 DEF IInv, CommitsAreDurable, TypeOK, Max2
<1>5. NextIsPastLog' /\ ReservationIsNext'
  BY Zenon DEF IInv, NextIsPastLog, ReservationIsNext
<1> QED
  BY Zenon, <1>0, <1>1, <1>2, <1>3, <1>4, <1>5, QuietStep

(* PeerVerifies preserves the invariant.                                *)
LEMMA PeerVerifiesPreserves ==
    ASSUME IInv, NEW i \in Identity, NEW f \in AdmissibleFences, PeerVerifies(i, f)
    PROVE  IInv'
<1> DEFINE s == peer_session[i]
<1> USE DEF PeerVerifies, logVars, trackerVars
<1>1. s \in Session /\ verified_in[i][s][f] \in Nat
  BY DEF IInv, TypeOK
<1>2. verified_in' \in [Identity -> [Session -> [AdmissibleFences -> Nat]]]
  BY <1>1 DEF IInv, TypeOK
<1>3. TypeOK'
  BY Zenon, <1>2 DEF IInv, TypeOK
<1>4. PeersGrow
  BY <1>1 DEF IInv, TypeOK, PeersGrow
<1>5. applied_lsn' >= applied_lsn
  BY DEF IInv, TypeOK
<1>6. WaitsAreSound'
  BY Zenon DEF IInv, WaitsAreSound, WaitsAreFenced, CommitStopsAtWaits, WaitsAreQueued, MayWrite
<1>7. CommitsAreDurable' /\ NextIsPastLog' /\ ReservationIsNext'
  BY Zenon DEF IInv, CommitsAreDurable, NextIsPastLog, ReservationIsNext
<1> QED
  BY Zenon, <1>3, <1>4, <1>5, <1>6, <1>7, QuietStep

(* PeerRestarts preserves the invariant.                                *)
LEMMA PeerRestartsPreserves ==
    ASSUME IInv, NEW i \in Identity, PeerRestarts(i) PROVE IInv'
<1> USE DEF PeerRestarts, logVars, trackerVars
<1>1. TypeOK' /\ PeersGrow
  BY Zenon, PeersUnchangedGrow DEF IInv, TypeOK
<1>2. applied_lsn' >= applied_lsn
  BY DEF IInv, TypeOK
<1>3. WaitsAreSound'
  BY Zenon DEF IInv, WaitsAreSound, WaitsAreFenced, CommitStopsAtWaits, WaitsAreQueued, MayWrite
<1>4. CommitsAreDurable' /\ NextIsPastLog' /\ ReservationIsNext'
  BY Zenon DEF IInv, CommitsAreDurable, NextIsPastLog, ReservationIsNext
<1> QED
  BY <1>1, <1>2, <1>3, <1>4, QuietStep

(* PeerBuilds preserves the invariant.                                  *)
LEMMA PeerBuildsPreserves ==
    ASSUME IInv, NEW i \in Identity, PeerBuilds(i) PROVE IInv'
<1> USE DEF PeerBuilds, logVars, trackerVars
<1>1. TypeOK' /\ PeersGrow
  BY DEF IInv, TypeOK, PeersGrow
<1>2. applied_lsn' >= applied_lsn
  BY DEF IInv, TypeOK
<1>3. WaitsAreSound'
  BY Zenon DEF IInv, WaitsAreSound, WaitsAreFenced, CommitStopsAtWaits, WaitsAreQueued, MayWrite
<1>4. CommitsAreDurable' /\ NextIsPastLog' /\ ReservationIsNext'
  BY Zenon DEF IInv, CommitsAreDurable, NextIsPastLog, ReservationIsNext
<1> QED
  BY Zenon, <1>1, <1>2, <1>3, <1>4, QuietStep

(* RegisterPeerSession preserves the invariant.                         *)
LEMMA RegisterPeerSessionPreserves ==
    ASSUME IInv, NEW i \in Identity, NEW s \in Session, RegisterPeerSession(i, s)
    PROVE  IInv'
<1> USE DEF RegisterPeerSession, Obsoletes, logVars, peerVars
<1>1. TypeOK' /\ PeersGrow
  <2>1. progress' \in [Identity -> Nat \cup {Absent}]
    BY NumericTypes
  <2>2. /\ sessions \in [Identity -> Session \cup {None}]
        /\ obsolete_sessions \subseteq Identity \X Session
    BY Zenon DEF IInv, TypeOK
  <2>3. sessions' \in [Identity -> Session \cup {None}]
    BY <2>2
  <2>4. obsolete_sessions' \subseteq Identity \X Session
    BY <2>2
  <2> QED
    BY Zenon, <2>1, <2>3, <2>4, PeersUnchangedGrow DEF IInv, TypeOK
<1>2. CreditIsEarned'
  <2> SUFFICES ASSUME NEW j \in Peers, progress'[j] > 0
               PROVE  /\ authority # None
                      /\ \/ /\ sessions'[j] # None
                            /\ \E f \in CreditFences(authority) :
                                  verified_in[j][sessions'[j]][f] >= progress'[j]
                         \/ /\ authority.scale_up # None
                            /\ j = authority.scale_up.target
                            /\ built[j] >= progress'[j]
    BY Zenon DEF CreditIsEarned, CreditFences
  <2>1. j \in Identity /\ j # i
    BY DEF Peers, IInv, TypeOK, Absent
  <2>2. progress'[j] = progress[j] /\ sessions'[j] = sessions[j]
    BY Zenon, <2>1 DEF IInv, TypeOK
  <2> QED
    BY Zenon, <2>2 DEF IInv, CreditIsEarned
<1>3. LocalCreditIsDurable'
  BY Zenon, LocalAssumption DEF IInv, LocalCreditIsDurable, TypeOK
<1>4. AcknowledgedIsReplicated'
  <2>1. \A w \in acknowledged' : applied_lsn' >= applied_lsn
    BY DEF IInv, TypeOK
  <2> QED
    BY Zenon, <1>1, <2>1, AcknowledgedKept DEF IInv
<1>5. WaitsAreSound'
  BY Zenon DEF IInv, WaitsAreSound, WaitsAreFenced, CommitStopsAtWaits, WaitsAreQueued, MayWrite
<1>6. CommitsAreDurable' /\ NextIsPastLog' /\ ReservationIsNext'
  BY Zenon DEF IInv, CommitsAreDurable, NextIsPastLog, ReservationIsNext
<1> QED
  BY Zenon, <1>1, <1>2, <1>3, <1>4, <1>5, <1>6 DEF IInv

(* ResetProgressAfterDataLoss preserves the invariant.                  *)
LEMMA ResetProgressAfterDataLossPreserves ==
    ASSUME IInv, NEW lsn \in Nat, ResetProgressAfterDataLoss(lsn) PROVE IInv'
<1> USE DEF ResetProgressAfterDataLoss, FailPending, peerVars
<1>1. TypeOK' /\ PeersGrow
  BY Zenon, PeersUnchangedGrow DEF IInv, TypeOK, Absent
<1>2. CreditIsEarned'
  BY DEF CreditIsEarned, Peers, Absent
<1>3. LocalCreditIsDurable' /\ CommitsAreDurable'
  BY LocalAssumption, <1>1 DEF LocalCreditIsDurable, CommitsAreDurable, TypeOK
<1>4. WaitsAreSound' /\ NextIsPastLog' /\ ReservationIsNext'
  BY <1>1 DEF WaitsAreSound, WaitsAreFenced, CommitStopsAtWaits, WaitsAreQueued,
              NextIsPastLog, ReservationIsNext, TypeOK
<1>5. AcknowledgedIsReplicated'
  <2>1. acknowledged' \subseteq acknowledged /\ \A w \in acknowledged' : applied_lsn' >= w.lsn
    BY Zenon, <1>1 DEF TypeOK
  <2> QED
    BY Zenon, <1>1, <2>1, AcknowledgedKept DEF IInv
<1> QED
  BY Zenon, <1>1, <1>2, <1>3, <1>4, <1>5 DEF IInv

-----------------------------------------------------------------------------
(* Committing: a write quorum of credit is a write quorum of holders.       *)

(* Credit at commit, in the state after the step, means every LSN up to it  *)
(* is held.                                                                 *)
LEMMA CreditIsHeld ==
    ASSUME TypeOK', CreditIsEarned', LocalCreditIsDurable',
           NEW a \in Admissible, authority' = a,
           NEW i \in Identity, NEW lsn \in Nat \ {0}, NEW commit \in Nat, lsn <= commit,
           Credit(progress', i) >= commit
    PROVE  Holds(i, a, lsn)'
<1>1. progress'[i] \in Int /\ progress'[i] >= commit /\ progress'[i] > 0
  BY DEF TypeOK, Credit, Absent
<1>2. CASE i = Local
  BY <1>1, <1>2, LocalAssumption DEF LocalCreditIsDurable, Holds, TypeOK
<1>3. CASE i # Local
  <2>1. i \in Peers
    BY <1>3 DEF Peers
  <2>2. CASE /\ sessions'[i] # None
             /\ \E f \in CreditFences(a) : verified_in'[i][sessions'[i]][f] >= progress'[i]
    <3>1. PICK f \in CreditFences(a) : verified_in'[i][sessions'[i]][f] >= progress'[i]
      BY <2>2
    <3>2. sessions'[i] \in Session /\ f \in AdmissibleFences
      BY Zenon, <2>2 DEF TypeOK, CreditFences
    <3>3. verified_in'[i][sessions'[i]][f] \in Nat
      BY <3>2 DEF TypeOK
    <3>4. verified_in'[i][sessions'[i]][f] >= lsn
      BY <3>1, <3>3, <1>1
    <3> QED
      BY Zenon, <3>2, <3>4, <1>3 DEF Holds, CreditFences
  <2>3. CASE a.scale_up # None /\ i = a.scale_up.target /\ built'[i] >= progress'[i]
    <3>1. built'[i] \in Nat
      BY DEF TypeOK
    <3> QED
      BY <2>3, <3>1, <1>1, <1>3 DEF Holds
  <2> QED
    BY Zenon, <2>1, <2>2, <2>3, <1>1 DEF CreditIsEarned, CreditFences
<1> QED
  BY <1>2, <1>3

(* A write quorum of credit at commit is a write quorum of holders.         *)
LEMMA QuorumIsHeld ==
    ASSUME TypeOK', CreditIsEarned', LocalCreditIsDurable',
           NEW a \in Admissible, authority' = a, NEW c \in Configurations,
           NEW lsn \in Nat \ {0}, NEW commit \in Nat, lsn <= commit,
           HasQuorum(c, progress', commit)
    PROVE  HeldByQuorum(c, a, lsn)'
<1> DEFINE credited == Holders(c, progress', commit)
           holding  == {i \in c.members : Holds(i, a, lsn)'}
<1>1. c.members \subseteq Identity /\ c.write_quorum \in Nat
  BY DEF Configurations
<1>2. credited \subseteq holding
  BY <1>1, CreditIsHeld DEF Holders
<1>3. IsFiniteSet(holding)
  BY <1>1, IdentityAssumption, FS_Subset
<1>4. Cardinality(credited) <= Cardinality(holding) /\ Cardinality(credited) \in Nat
      /\ Cardinality(holding) \in Nat
  BY <1>2, <1>3, FS_Subset, FS_CardinalityType
<1> QED
  BY <1>1, <1>4 DEF HasQuorum, HeldByQuorum

(* finalize_ready_commit: the shapes and bounds it leaves.                  *)
LEMMA FinalizeTypes ==
    ASSUME TypeOK, CommitsAreDurable, authority # None,
           NEW waiting \in SUBSET (Nat \ {0}), NEW ops \in SUBSET Nat, NEW bound \in Nat,
           \A n \in waiting : n <= bound /\ committed_lsn < n, waiting \subseteq ops,
           applied_lsn <= bound,
           FinalizeReadyCommit(progress', waiting, ops)
    PROVE  /\ pending' \subseteq waiting
           /\ queue' \subseteq ops
           /\ committed_lsn' \in Nat /\ committed_lsn' <= bound
           /\ acknowledged' \subseteq [lsn : Nat \ {0}, authority : Admissible]
           /\ \A w \in acknowledged' : w.lsn <= bound
           /\ CommitStopsAtWaits' /\ WaitsAreQueued'
<1> DEFINE ready == ReadyLsns(authority, progress', waiting)
<1>0. authority \in Admissible
  BY DEF TypeOK
<1>1. CASE ready = {}
  <2>1. pending' = waiting /\ queue' = ops /\ UNCHANGED <<committed_lsn, acknowledged>>
    BY <1>1 DEF FinalizeReadyCommit
  <2>2. committed_lsn <= bound /\ \A w \in acknowledged : w.lsn <= bound
    <3>1. /\ committed_lsn \in Nat /\ applied_lsn \in Nat /\ committed_lsn <= applied_lsn
          /\ \A w \in acknowledged : w.lsn \in Nat /\ w.lsn <= applied_lsn
      BY DEF TypeOK, CommitsAreDurable
    <3> QED
      BY <3>1
  <2>3. committed_lsn \in Nat /\ acknowledged \subseteq [lsn : Nat \ {0}, authority : Admissible]
    BY DEF TypeOK
  <2> QED
    BY <2>1, <2>2, <2>3 DEF CommitStopsAtWaits, WaitsAreQueued
<1>2. CASE ready # {}
  <2>1. PICK commit \in ready :
            /\ pending' = {lsn \in waiting : lsn > commit}
            /\ queue' = {lsn \in ops : lsn > commit}
            /\ committed_lsn' = Max2(committed_lsn, commit)
            /\ acknowledged' = acknowledged \cup
                   {[lsn |-> lsn, authority |-> authority] :
                       lsn \in {n \in waiting : n <= commit}}
    BY Zenon, <1>2 DEF FinalizeReadyCommit
  <2>2. commit \in waiting
    BY DEF ReadyLsns
  <2>3. committed_lsn' \in Nat /\ committed_lsn' <= bound
    <3>1. commit \in Nat /\ commit <= bound
      BY <2>2
    <3>2. committed_lsn \in Nat /\ applied_lsn \in Nat /\ committed_lsn <= bound
      BY DEF TypeOK, CommitsAreDurable
    <3> QED
      BY ZenonT(60), <2>1, <3>1, <3>2, Max2Bounded
  <2>4. ASSUME NEW w \in acknowledged'
        PROVE  w \in [lsn : Nat \ {0}, authority : Admissible] /\ w.lsn <= bound
    <3>1. CASE w \in acknowledged
      BY <3>1 DEF TypeOK, CommitsAreDurable
    <3>2. CASE w \notin acknowledged
      <4>1. PICK n \in waiting : w = [lsn |-> n, authority |-> authority]
        BY <2>1, <3>2
      <4> QED
        BY SMTT(60), <4>1, <1>0
    <3> QED
      BY <3>1, <3>2
  <2>5. CommitStopsAtWaits'
    BY Zenon, <2>1, <2>2 DEF CommitStopsAtWaits, Max2, TypeOK
  <2>6. WaitsAreQueued'
    BY Zenon, <2>1 DEF WaitsAreQueued
  <2> QED
    BY <2>1, <2>3, <2>4, <2>5, <2>6
<1> QED
  BY <1>1, <1>2

(* What finalize_ready_commit acknowledges is replicated.                   *)
LEMMA FinalizeIsReplicated ==
    ASSUME TypeOK, TypeOK', PeersGrow, AcknowledgedIsReplicated,
           CreditIsEarned', LocalCreditIsDurable',
           authority # None, authority' = authority, applied_lsn' >= applied_lsn,
           NEW waiting \in SUBSET (Nat \ {0}), NEW ops \in SUBSET Nat,
           FinalizeReadyCommit(progress', waiting, ops)
    PROVE  AcknowledgedIsReplicated'
<1> DEFINE ready == ReadyLsns(authority, progress', waiting)
           Replicated(w) ==
               /\ HeldByQuorum(w.authority.current, w.authority, w.lsn)'
               /\ w.authority.previous # None =>
                      HeldByQuorum(w.authority.previous, w.authority, w.lsn)'
<1>0. authority \in Admissible
  BY Zenon DEF TypeOK
<1> SUFFICES ASSUME NEW w \in acknowledged' PROVE Replicated(w)
  BY DEF AcknowledgedIsReplicated
<1>1. CASE w \in acknowledged
  <2>1. w.authority \in Admissible /\ w.lsn \in Nat
    BY Zenon, <1>1 DEF TypeOK
  <2> QED
    BY Zenon, <1>1, <2>1, AuthorityFacts, HeldByQuorumKept DEF AcknowledgedIsReplicated
<1>2. CASE w \notin acknowledged
  <2>1. ready # {}
    BY <1>2 DEF FinalizeReadyCommit
  <2>2. PICK commit \in ready :
            acknowledged' = acknowledged \cup
                {[lsn |-> lsn, authority |-> authority] :
                    lsn \in {n \in waiting : n <= commit}}
    BY Zenon, <2>1 DEF FinalizeReadyCommit
  <2>3. PICK n \in waiting : n <= commit /\ w = [lsn |-> n, authority |-> authority]
    BY <2>2, <1>2
  <2>4. commit \in Nat /\ ClientCommitReady(authority, progress', commit)
    BY DEF ReadyLsns
  <2>5. HeldByQuorum(authority.current, authority, n)'
    BY Zenon, <1>0, <2>3, <2>4, AuthorityFacts, QuorumIsHeld DEF ClientCommitReady
  <2>6. authority.previous # None => HeldByQuorum(authority.previous, authority, n)'
    BY Zenon, <1>0, <2>3, <2>4, AuthorityFacts, QuorumIsHeld DEF ClientCommitReady
  <2> QED
    BY <2>3, <2>5, <2>6
<1> QED
  BY <1>1, <1>2

(* accept_acknowledgement credits a peer with no more than it verified in   *)
(* its registered session, under the admitted fence.                        *)
LEMMA AcceptAcknowledgementPreserves ==
    ASSUME IInv, NEW i \in Peers, NEW s \in Session, NEW f \in AdmissibleFences,
           NEW lsn \in Nat, lsn <= verified_in[i][s][f], AcceptAcknowledgement(i, s, f, lsn)
    PROVE  IInv'
<1> USE DEF AcceptAcknowledgement, peerVars
<1>0. i \in Identity /\ i # Local /\ authority \in Admissible
  BY Zenon DEF Peers, IInv, TypeOK
<1>1. FinalizeReadyCommit(progress', pending, queue)
  OBVIOUS
<1>2. /\ pending' \subseteq pending /\ queue' \subseteq queue
      /\ committed_lsn' \in Nat /\ committed_lsn' <= applied_lsn
      /\ acknowledged' \subseteq [lsn : Nat \ {0}, authority : Admissible]
      /\ \A w \in acknowledged' : w.lsn <= applied_lsn
      /\ CommitStopsAtWaits' /\ WaitsAreQueued'
  <2>1. pending \in SUBSET (Nat \ {0}) /\ queue \in SUBSET Nat /\ applied_lsn \in Nat
        /\ applied_lsn <= applied_lsn
    BY NumericTypes
  <2>2. (\A n \in pending : n <= applied_lsn /\ committed_lsn < n) /\ pending \subseteq queue
    BY Zenon DEF IInv, CommitsAreDurable, WaitsAreSound, CommitStopsAtWaits, WaitsAreQueued
  <2> QED
    BY Zenon, <1>1, <2>1, <2>2, FinalizeTypes DEF IInv
<1>3. progress' \in [Identity -> Nat \cup {Absent}]
      /\ (\A j \in Identity \ {i} : progress'[j] = progress[j])
      /\ (progress'[i] = lsn \/ progress'[i] = progress[i])
  <2>1. progress \in [Identity -> Nat \cup {Absent}] /\ progress' = Raise(progress, i, lsn)
    BY Zenon DEF IInv, TypeOK
  <2>2. /\ Raise(progress, i, lsn) \in [Identity -> Nat \cup {Absent}]
        /\ \A j \in Identity \ {i} : Raise(progress, i, lsn)[j] = progress[j]
        /\ Raise(progress, i, lsn)[i] = lsn \/ Raise(progress, i, lsn)[i] = progress[i]
    BY Zenon, <1>0, <2>1, RaiseFacts
  <2> QED
    BY Zenon, <2>1, <2>2
<1>4. TypeOK' /\ PeersGrow
  BY Zenon, <1>2, <1>3, PeersUnchangedGrow DEF IInv, TypeOK
<1>5. CreditIsEarned'
  <2> SUFFICES ASSUME NEW j \in Peers, progress'[j] > 0
               PROVE  /\ authority # None
                      /\ \/ /\ sessions[j] # None
                            /\ \E g \in CreditFences(authority) :
                                  verified_in[j][sessions[j]][g] >= progress'[j]
                         \/ /\ authority.scale_up # None
                            /\ j = authority.scale_up.target
                            /\ built[j] >= progress'[j]
    BY Zenon DEF CreditIsEarned, CreditFences
  <2>1. CASE progress'[j] = progress[j]
    BY Zenon, <2>1 DEF IInv, CreditIsEarned
  <2>2. CASE progress'[j] # progress[j]
    <3>1. j = i /\ progress'[j] = lsn
      BY Zenon, <2>2, <1>3 DEF Peers
    <3>2. f \in CreditFences(authority)
      BY Zenon DEF ValidateFence, CreditFences
    <3>3. sessions[j] = s /\ s # None
      BY Zenon, <3>1, SessionAssumption, NoneAssumption
    <3>4. verified_in[j][sessions[j]][f] >= progress'[j]
      BY Zenon, <3>1, <3>3, <1>0 DEF IInv, TypeOK
    <3> QED
      BY Zenon, <3>2, <3>3, <3>4
  <2> QED
    BY Zenon, <2>1, <2>2
<1>6. LocalCreditIsDurable'
  BY Zenon, <1>0, <1>3, LocalAssumption DEF IInv, LocalCreditIsDurable
<1>7. AcknowledgedIsReplicated'
  <2>1. pending \in SUBSET (Nat \ {0}) /\ queue \in SUBSET Nat
    BY Zenon DEF IInv, TypeOK
  <2>2. applied_lsn' >= applied_lsn
    BY Zenon, NumericTypes, AtLeastItself
  <2> QED
    BY Zenon, <1>1, <1>4, <1>5, <1>6, <2>1, <2>2, FinalizeIsReplicated DEF IInv
<1>8. CommitsAreDurable' /\ WaitsAreSound'
  BY Zenon, <1>2 DEF IInv, CommitsAreDurable, WaitsAreSound, WaitsAreFenced, MayWrite
<1>9. NextIsPastLog' /\ ReservationIsNext'
  BY Zenon DEF IInv, NextIsPastLog, ReservationIsNext
<1> QED
  BY Zenon, <1>4, <1>5, <1>6, <1>7, <1>8, <1>9 DEF IInv

(* A reserved write is past the log, so registering it always waits for the *)
(* quorum: the branch for an LSN already committed is never taken here.     *)
LEMMA EnsureLocalWriteRegisteredPreserves ==
    ASSUME IInv, EnsureLocalWriteRegistered PROVE IInv'
<1> DEFINE lsn == pending_local_write.lsn
           waiting == pending \cup {lsn}
           ops == {n \in queue \cup {lsn} : n > committed_lsn}
<1>0. /\ authority \in Admissible /\ authority # None /\ LocalIsPrimary(authority, Local)
      /\ lsn \in Nat \ {0} /\ lsn = next_lsn + 1
  BY Zenon DEF EnsureLocalWriteRegistered, IInv, TypeOK, MayWrite, ReservationIsNext
<1>1. next_lsn >= applied_lsn /\ committed_lsn <= applied_lsn
  BY <1>0 DEF IInv, NextIsPastLog, CommitsAreDurable
<1>2. lsn > applied_lsn /\ lsn > next_lsn /\ lsn > committed_lsn
  BY <1>0, <1>1, NumericTypes
<1>3. /\ applied_lsn' = Max2(applied_lsn, lsn) /\ next_lsn' = Max2(next_lsn, lsn)
      /\ highest_lsn' = Max2(highest_lsn, lsn) /\ progress' = Raise(progress, Local, lsn)
      /\ pending_local_write' = None /\ MayWrite
      /\ UNCHANGED <<open, closed, role, epoch, authority, catch_up_boundary, must_catch_up,
                     sessions, obsolete_sessions, peerVars, durable_authority>>
      /\ ~(lsn <= committed_lsn) => FinalizeReadyCommit(progress', waiting, ops)
  BY Zenon DEF EnsureLocalWriteRegistered
<1>4. applied_lsn' = lsn /\ next_lsn' = lsn /\ highest_lsn' \in Nat
  BY Zenon, <1>0, <1>2, <1>3, NumericTypes DEF Max2
<1>5. FinalizeReadyCommit(progress', waiting, ops)
  BY <1>0, <1>2, <1>3, NumericTypes
<1>6. waiting \in SUBSET (Nat \ {0}) /\ ops \in SUBSET Nat
  BY <1>0, NumericTypes
<1>7. \A n \in pending : n <= lsn /\ committed_lsn < n
  <2>1. \A n \in pending : n <= applied_lsn /\ committed_lsn < n /\ n \in Nat
    BY NumericTypes DEF IInv, CommitsAreDurable, WaitsAreSound, CommitStopsAtWaits
  <2> QED
    BY <1>0, <1>2, <2>1, NumericTypes
<1>8. /\ pending' \subseteq waiting /\ queue' \subseteq ops
      /\ committed_lsn' \in Nat /\ committed_lsn' <= lsn
      /\ acknowledged' \subseteq [lsn : Nat \ {0}, authority : Admissible]
      /\ \A w \in acknowledged' : w.lsn <= lsn
      /\ CommitStopsAtWaits' /\ WaitsAreQueued'
  <2>1. \A n \in waiting : n <= lsn /\ committed_lsn < n
    BY <1>0, <1>2, <1>7
  <2>2. waiting \subseteq ops
    BY <2>1 DEF IInv, WaitsAreSound, WaitsAreQueued
  <2>3. applied_lsn <= lsn /\ lsn \in Nat
    BY <1>0, <1>2, NumericTypes
  <2>4. TypeOK /\ CommitsAreDurable /\ authority # None
    BY <1>0 DEF IInv
  <2> HIDE DEF lsn, waiting, ops
  <2> QED
    BY Zenon, <1>5, <1>6, <2>1, <2>2, <2>3, <2>4, FinalizeTypes
<1> HIDE DEF lsn
<1>9. progress' \in [Identity -> Nat \cup {Absent}]
      /\ (\A j \in Identity \ {Local} : progress'[j] = progress[j])
      /\ (progress'[Local] = lsn \/ progress'[Local] = progress[Local])
  BY <1>0, <1>3, NumericTypes, RaiseFacts, LocalAssumption
<1>10. TypeOK'
  BY Zenon, <1>0, <1>3, <1>4, <1>6, <1>8, <1>9 DEF IInv, TypeOK, peerVars
<1>11. PeersGrow
  BY <1>3, PeersUnchangedGrow DEF IInv, peerVars
<1>12. CreditIsEarned'
  <2>1. \A j \in Peers : progress'[j] = progress[j]
    BY <1>9 DEF Peers
  <2> QED
    BY Zenon, <1>3, <2>1 DEF IInv, CreditIsEarned, CreditFences, peerVars
<1>13. LocalCreditIsDurable'
  <2>1. progress[Local] <= applied_lsn /\ progress[Local] \in Int
    BY NumericTypes, LocalAssumption DEF IInv, LocalCreditIsDurable, Absent
  <2>2. progress'[Local] <= lsn
    BY <1>0, <1>2, <1>9, <2>1, NumericTypes
  <2> QED
    BY <1>4, <2>2 DEF LocalCreditIsDurable
<1>14. AcknowledgedIsReplicated'
  <2>1. applied_lsn' >= applied_lsn /\ authority' = authority /\ authority # None
    BY <1>0, <1>2, <1>3, <1>4, NumericTypes
  <2>2. TypeOK /\ AcknowledgedIsReplicated
    BY DEF IInv
  <2> HIDE DEF waiting, ops
  <2> QED
    BY SMTT(60), <1>5, <1>6, <1>10, <1>11, <1>12, <1>13, <2>1, <2>2, FinalizeIsReplicated
<1>15. CommitsAreDurable'
  <2>1. \A n \in pending' : n <= lsn
    BY <1>0, <1>7, <1>8
  <2> QED
    BY <1>4, <1>8, <2>1 DEF CommitsAreDurable
<1>16. WaitsAreSound'
  BY Zenon, <1>0, <1>3, <1>8 DEF WaitsAreSound, WaitsAreFenced, MayWrite, LocalIsPrimary,
     PrimaryIdentity
<1>17. NextIsPastLog' /\ ReservationIsNext'
  <2>1. next_lsn' >= applied_lsn'
    BY <1>0, <1>4
  <2> QED
    BY <1>3, <2>1 DEF NextIsPastLog, ReservationIsNext
<1> QED
  BY <1>10, <1>12, <1>13, <1>14, <1>15, <1>16, <1>17 DEF IInv

(* Admission drops the credit earned under another fence; what it keeps or  *)
(* takes over from a completed build is credit under the new one.           *)
LEMMA AdmitPreparedAuthorityPreserves ==
    ASSUME IInv, NEW a \in Admissible, AdmitPreparedAuthority(a) PROVE IInv'
<1> DEFINE kept   == IF KeepsProgress(a) THEN progress ELSE [i \in Identity |-> Absent]
           member == [i \in Identity |-> IF ContainsMember(a, i) THEN kept[i] ELSE Absent]
           local  == Raise(member, Local, applied_lsn)
           builds == CompletedBuilds(a)
<1>0. /\ a \in Authorities /\ a # None /\ a.current \in Configurations
      /\ a.current.epoch \in Nat /\ a.current.members \subseteq Identity
  BY AuthorityFacts DEF Configurations
<1>1. /\ authority' = a
      /\ sessions' = [i \in Identity |-> IF ContainsMember(a, i) THEN sessions[i] ELSE None]
      /\ progress' = [i \in Identity |->
                         IF i \in builds THEN Max2(local[i], built[i]) ELSE local[i]]
      /\ UNCHANGED <<peerVars, applied_lsn, acknowledged, committed_lsn>>
  BY Zenon DEF AdmitPreparedAuthority
<1>2. member \in [Identity -> Nat \cup {Absent}]
  BY DEF IInv, TypeOK, Absent
<1>3. /\ local \in [Identity -> Nat \cup {Absent}]
      /\ \A j \in Identity \ {Local} : local[j] = member[j]
      /\ local[Local] = applied_lsn \/ local[Local] = member[Local]
  <2> HIDE DEF member
  <2> QED
    BY <1>2, RaiseFacts, NumericTypes, LocalAssumption
<1>4. builds \subseteq Peers
      /\ \A j \in builds : a.scale_up # None /\ j = a.scale_up.target
  BY Zenon, <1>0 DEF CompletedBuilds, Peers
<1>5. progress' \in [Identity -> Nat \cup {Absent}]
  <2>1. \A j \in Identity : Max2(local[j], built[j]) \in Nat
    <3>1. \A j \in Identity : local[j] \in Nat \cup {Absent} /\ built[j] \in Nat
      BY Zenon, <1>3 DEF IInv, TypeOK
    <3> QED
      BY Zenon, <3>1, Max2OfCredit
  <2> QED
    BY Zenon, <1>1, <1>3, <2>1
<1>6. TypeOK'
  <2>1. next_lsn' \in Nat /\ highest_lsn' \in Nat
    <3>1. Max2(highest_lsn, applied_lsn) \in Nat /\ Max2(next_lsn, applied_lsn) \in Nat
      BY NumericTypes, Max2Facts
    <3>2. builds # {} => built[a.scale_up.target] \in Nat
      BY <1>4 DEF Peers, IInv, TypeOK
    <3> QED
      BY Zenon, <3>1, <3>2, Max2Facts DEF AdmitPreparedAuthority, AlignedNextLsn
  <2>2. catch_up_boundary' \in Nat \cup {None} /\ must_catch_up' \subseteq Identity
    <3>1. Max2(highest_lsn, applied_lsn) \in Nat
      BY NumericTypes, Max2Facts
    <3>2. CatchUpBoundary(a, Max2(highest_lsn, applied_lsn)) \in Nat \cup {None}
      BY Zenon, <1>0, <3>1 DEF CatchUpBoundary, Authorities, ScaleUps
    <3>3. DeriveMustCatchUp(a) \subseteq Identity
      BY <1>0 DEF DeriveMustCatchUp, Authorities, ScaleUps, PrimaryIdentity, Configurations
    <3> QED
      BY Zenon, <3>2, <3>3 DEF AdmitPreparedAuthority, IInv, TypeOK
  <2>3. sessions' \in [Identity -> Session \cup {None}]
    BY Zenon, <1>1 DEF IInv, TypeOK
  <2> QED
    BY Zenon, <1>0, <1>1, <1>5, <2>1, <2>2, <2>3 DEF AdmitPreparedAuthority, FailPending,
       peerVars, IInv, TypeOK
<1>7. PeersGrow
  BY Zenon, <1>1, PeersUnchangedGrow DEF peerVars, IInv
<1>8. CreditIsEarned'
  <2> SUFFICES ASSUME NEW j \in Peers, progress'[j] > 0
               PROVE  /\ a # None
                      /\ \/ /\ sessions'[j] # None
                            /\ \E f \in CreditFences(a) :
                                  verified_in[j][sessions'[j]][f] >= progress'[j]
                         \/ /\ a.scale_up # None
                            /\ j = a.scale_up.target
                            /\ built[j] >= progress'[j]
    BY Zenon, <1>1 DEF CreditIsEarned, CreditFences, peerVars
  <2>1. j \in Identity /\ j # Local /\ local[j] = member[j] /\ built[j] \in Nat
    BY Zenon, <1>3 DEF Peers, IInv, TypeOK
  <2>2. CASE j \in builds /\ progress'[j] = built[j]
    BY <2>2, <2>1, <1>0, <1>4
  <2>3. CASE ~(j \in builds /\ progress'[j] = built[j])
    <3>1. progress'[j] = member[j]
      BY Zenon, <2>1, <2>3, <1>1 DEF Max2
    <3>2. KeepsProgress(a) /\ ContainsMember(a, j) /\ progress'[j] = progress[j]
      <4>1. member[j] = IF ContainsMember(a, j) THEN kept[j] ELSE Absent
        BY <2>1
      <4>2. kept[j] = IF KeepsProgress(a) THEN progress[j] ELSE Absent
        BY <2>1
      <4> HIDE DEF kept, member, local, builds
      <4> QED
        BY SMTT(60), <3>1, <4>1, <4>2 DEF Absent
    <3>3. sessions'[j] = sessions[j]
      BY Zenon, <3>2, <2>1, <1>1
    <3>4. authority # None
      BY <3>2 DEF IInv, CreditIsEarned
    <3>5. CreditFences(authority) \subseteq CreditFences(a) /\ authority.scale_up = a.scale_up
      BY <3>2, <3>4 DEF KeepsProgress, IsCurrentOnlyCompletionOf, CreditFences, Fence
    <3> QED
      BY Zenon, <1>0, <3>2, <3>3, <3>5 DEF IInv, CreditIsEarned
  <2> QED
    BY Zenon, <2>2, <2>3
<1>9. LocalCreditIsDurable'
  <2>1. progress'[Local] = local[Local]
    BY Zenon, <1>1, <1>4, LocalAssumption DEF Peers
  <2>2. progress[Local] <= applied_lsn /\ applied_lsn <= applied_lsn /\ applied_lsn \in Nat
    BY NumericTypes DEF IInv, LocalCreditIsDurable
  <2>3. member[Local] <= applied_lsn
    BY <2>2, LocalAssumption DEF Absent
  <2>4. local[Local] = applied_lsn \/ local[Local] = member[Local]
    BY Zenon, <1>3
  <2>5. progress'[Local] <= applied_lsn
    <3> HIDE DEF kept, member, local, builds
    <3> QED
      BY <2>1, <2>2, <2>3, <2>4
  <2> QED
    BY Zenon, <1>1, <2>5 DEF LocalCreditIsDurable
<1>10. AcknowledgedIsReplicated'
  <2>1. acknowledged' \subseteq acknowledged /\ applied_lsn' >= applied_lsn
    <3>1. acknowledged' = acknowledged /\ applied_lsn' = applied_lsn
      BY Zenon, <1>1
    <3>2. applied_lsn \in Nat
      BY NumericTypes
    <3> HIDE DEF kept, member, local, builds
    <3> QED
      BY SMTT(60), <3>1, <3>2
  <2> QED
    BY <1>6, <1>7, <2>1, AcknowledgedKept DEF IInv
<1>11. CommitsAreDurable'
  BY Zenon, <1>1 DEF AdmitPreparedAuthority, FailPending, IInv, CommitsAreDurable
<1>12. WaitsAreSound'
  <2>1. CASE a = authority
    BY Zenon, <2>1, <1>0 DEF AdmitPreparedAuthority, IInv, WaitsAreSound, WaitsAreFenced,
                      CommitStopsAtWaits, WaitsAreQueued, MayWrite
  <2>2. CASE a # authority
    BY Zenon, <2>2 DEF AdmitPreparedAuthority, FailPending, WaitsAreSound, WaitsAreFenced,
                CommitStopsAtWaits, WaitsAreQueued
  <2> QED
    BY <2>1, <2>2
<1>13. NextIsPastLog'
  <2>1. Max2(next_lsn, applied_lsn) >= applied_lsn
    BY NumericTypes, Max2Facts
  <2> QED
    BY Zenon, <2>1, <1>1 DEF AdmitPreparedAuthority, AlignedNextLsn, NextIsPastLog
<1>14. ReservationIsNext'
  <2>1. CASE a = authority
    <3>1. /\ next_lsn' = Max2(next_lsn, applied_lsn) /\ authority' = authority
          /\ pending_local_write' = pending_local_write
      BY Zenon, <2>1 DEF AdmitPreparedAuthority, AlignedNextLsn
    <3>2. pending_local_write # None =>
              /\ authority # None /\ LocalIsPrimary(authority, Local)
              /\ pending_local_write.lsn = next_lsn + 1 /\ next_lsn >= applied_lsn
      BY DEF IInv, NextIsPastLog, ReservationIsNext
    <3>3. next_lsn >= applied_lsn => Max2(next_lsn, applied_lsn) = next_lsn
      BY NumericTypes DEF Max2
    <3> QED
      BY <3>1, <3>2, <3>3 DEF ReservationIsNext
  <2>2. CASE a # authority
    BY Zenon, <2>2 DEF AdmitPreparedAuthority, ReservationIsNext
  <2> QED
    BY <2>1, <2>2
<1> QED
  BY <1>6, <1>8, <1>9, <1>10, <1>11, <1>12, <1>13, <1>14 DEF IInv

-----------------------------------------------------------------------------

(* Next preserves the invariant.                                        *)
LEMMA NextPreserves == IInv /\ [Next]_vars => IInv'
<1> SUFFICES ASSUME IInv, [Next]_vars PROVE IInv'
  OBVIOUS
<1>1. \A a \in Admissible : a.current.epoch \in Nat
  BY AuthorityFacts DEF Configurations
<1>2. \A i \in Identity : peer_session[i] \in Session /\ 1..peer_session[i] \subseteq Session
  BY SMTT(60), SessionAssumption DEF IInv, TypeOK
<1>3. CASE ControlStep
  <2>1. ASSUME NEW a \in Admissible, UpdateEpoch(a.current.epoch) PROVE IInv'
    BY Zenon, <1>1, <2>1, UpdateEpochPreserves
  <2>2. ASSUME NEW a \in Admissible, AdmitPreparedAuthority(a) PROVE IInv'
    BY <2>2, AdmitPreparedAuthorityPreserves
  <2>3. ASSUME NEW a \in Admissible, NEW r \in Roles, ChangeRole(a.current.epoch, r) PROVE IInv'
    BY Zenon, <1>1, <2>3, ChangeRolePreserves
  <2>4. CASE Open
    BY <2>4, OpenPreserves
  <2>5. CASE Close
    BY <2>5, ClosePreserves
  <2>6. CASE Restart
    BY <2>6, RestartPreserves
  <2>7. CASE FenceClientWrites
    BY <2>7, FenceClientWritesPreserves
  <2> QED
    BY Zenon, <1>3, <2>1, <2>2, <2>3, <2>4, <2>5, <2>6, <2>7 DEF ControlStep
<1>4. CASE WriteStep
  <2>1. ASSUME NEW op \in Operation, ReserveWrite(op) PROVE IInv'
    BY <2>1, ReserveWritePreserves
  <2>2. CASE EnsureLocalWriteRegistered
    BY <2>2, EnsureLocalWriteRegisteredPreserves
  <2>3. ASSUME NEW i \in Peers, NEW f \in AdmissibleFences, NEW s \in 1..peer_session[i],
               NEW lsn \in 0..verified_in[i][s][f], AcceptAcknowledgement(i, s, f, lsn)
        PROVE  IInv'
    <3>1. i \in Identity /\ s \in Session
      BY <1>2 DEF Peers
    <3>2. verified_in[i][s][f] \in Nat
      <4>1. verified_in \in [Identity -> [Session -> [AdmissibleFences -> Nat]]]
        BY Zenon DEF IInv, TypeOK
      <4> QED
        BY <3>1, <4>1
    <3>3. lsn \in Nat /\ lsn <= verified_in[i][s][f]
      BY <3>2, UpTo
    <3> QED
      BY <2>3, <3>1, <3>3, AcceptAcknowledgementPreserves
  <2> QED
    BY Zenon, <1>4, <2>1, <2>2, <2>3 DEF WriteStep
<1>5. CASE RecoveryStep
  <2>1. \A lsn \in 0..applied_lsn : lsn \in Nat
    BY DEF IInv, TypeOK
  <2> QED
    BY <1>5, <2>1, ApplyInboundPreserves, RestoreCommittedPrefixPreserves,
       ResetProgressAfterDataLossPreserves DEF RecoveryStep
<1>6. CASE PeerStep
  <2>1. \A i \in Peers : i \in Identity
    BY DEF Peers
  <2> QED
    BY <1>2, <1>6, <2>1, PeerRestartsPreserves, PeerBuildsPreserves, PeerVerifiesPreserves,
       RegisterPeerSessionPreserves DEF PeerStep
<1>7. CASE UNCHANGED vars
  <2> USE <1>7 DEF vars, logVars, trackerVars, peerVars
  <2>1. TypeOK' /\ PeersGrow
    BY Zenon, PeersUnchangedGrow DEF IInv, TypeOK
  <2>2. applied_lsn' >= applied_lsn
    BY DEF IInv, TypeOK
  <2>3. WaitsAreSound'
    BY Zenon DEF IInv, WaitsAreSound, WaitsAreFenced, CommitStopsAtWaits, WaitsAreQueued, MayWrite
  <2>4. CommitsAreDurable' /\ NextIsPastLog' /\ ReservationIsNext'
    BY Zenon DEF IInv, CommitsAreDurable, NextIsPastLog, ReservationIsNext
  <2> QED
    BY Zenon, <2>1, <2>2, <2>3, <2>4, QuietStep
<1> QED
  BY <1>3, <1>4, <1>5, <1>6, <1>7 DEF Next

(* The inductive invariant holds in every reachable state.                  *)
THEOREM InductiveInvariant == Spec => []IInv
BY InitInvariant, NextPreserves, PTL DEF Spec

-----------------------------------------------------------------------------
(* The theorems.                                                            *)

(* The engine's state keeps the shapes its structs declare.                 *)
THEOREM TypeCorrect == Spec => []TypeOK
<1>1. IInv => TypeOK
  BY DEF IInv
<1> QED
  BY <1>1, InductiveInvariant, PTL

(* finalize_commit never reports a write committed that a write quorum of   *)
(* the CC, and of the PC of a joint authority, does not durably hold; nor   *)
(* does any later step take the write from them, short of data loss.        *)
THEOREM AcknowledgedWritesAreReplicated == Spec => []AcknowledgedIsReplicated
<1>1. IInv => AcknowledgedIsReplicated
  BY DEF IInv
<1> QED
  BY <1>1, InductiveInvariant, PTL

(* The tracker credits a peer only with what the peer acknowledged in its   *)
(* registered session under the admitted fence, or was built with.          *)
THEOREM CreditIsAlwaysEarned == Spec => []CreditIsEarned
<1>1. IInv => CreditIsEarned
  BY DEF IInv
<1> QED
  BY <1>1, InductiveInvariant, PTL

(* No client wait outlives the role, epoch or authority it was made under.  *)
THEOREM WaitsAreAlwaysFenced == Spec => []WaitsAreFenced
<1>1. IInv => WaitsAreFenced
  BY DEF IInv, WaitsAreSound
<1> QED
  BY <1>1, InductiveInvariant, PTL

(* Truncating the queue never drops an operation a client waits for.        *)
THEOREM WaitsStayQueued == Spec => []WaitsAreQueued
<1>1. IInv => WaitsAreQueued
  BY DEF IInv, WaitsAreSound
<1> QED
  BY <1>1, InductiveInvariant, PTL

(* reserve_write hands out an LSN above everything committed or             *)
(* acknowledged: the reservation is next_lsn + 1, past the durable log.     *)
THEOREM ReservationsAreFresh == Spec => []ReservationIsFresh
<1>1. IInv => ReservationIsFresh
  <2> SUFFICES ASSUME IInv, pending_local_write # None
               PROVE  /\ \A w \in acknowledged : w.lsn < pending_local_write.lsn
                      /\ committed_lsn < pending_local_write.lsn
    BY DEF ReservationIsFresh
  <2>1. pending_local_write.lsn = next_lsn + 1 /\ next_lsn >= applied_lsn
    BY DEF IInv, ReservationIsNext, NextIsPastLog
  <2>2. next_lsn \in Nat /\ applied_lsn \in Nat /\ committed_lsn \in Nat
    BY DEF IInv, TypeOK
  <2>3. committed_lsn <= applied_lsn
    BY DEF IInv, CommitsAreDurable
  <2>4. \A w \in acknowledged : w.lsn \in Nat /\ w.lsn <= applied_lsn
    BY DEF IInv, CommitsAreDurable, TypeOK
  <2> QED
    BY <2>1, <2>2, <2>3, <2>4
<1> QED
  BY <1>1, InductiveInvariant, PTL

(* Two sets of members whose sizes add up to more than the membership meet. *)
LEMMA QuorumsMeet ==
    ASSUME NEW M, IsFiniteSet(M), NEW R \in SUBSET M, NEW W \in SUBSET M,
           Cardinality(R) + Cardinality(W) > Cardinality(M)
    PROVE  R \cap W # {}
<1>1. IsFiniteSet(R) /\ IsFiniteSet(W)
  BY FS_Subset
<1>2. Cardinality(R \cup W) = Cardinality(R) + Cardinality(W) - Cardinality(R \cap W)
  BY <1>1, FS_Union
<1>3. R \cup W \subseteq M
  OBVIOUS
<1>4. Cardinality(R \cup W) <= Cardinality(M)
  BY <1>3, FS_Subset
<1>5. Cardinality(M) \in Nat /\ Cardinality(R) \in Nat /\ Cardinality(W) \in Nat
  BY <1>1, FS_CardinalityType
<1>6. ASSUME R \cap W = {} PROVE FALSE
  <2>1. Cardinality(R \cap W) = 0
    BY <1>6, FS_EmptySet
  <2> QED
    BY <2>1, <1>2, <1>4, <1>5
<1> QED
  BY <1>6

(* Every read quorum of the configuration a write was acknowledged in has a *)
(* member that holds the write: what the failover election relies on when   *)
(* it waits for reports from a read quorum of the PC and of the CC.         *)
ReadQuorumHasHolder ==
    \A w \in acknowledged :
        LET c == w.authority.current
        IN  \A R \in SUBSET c.members :
                Cardinality(R) >= Cardinality(c.members) - c.write_quorum + 1 =>
                    \E i \in R : Holds(i, w.authority, w.lsn)

(* An acknowledged write is known to some member of every read quorum.      *)
THEOREM ElectionSeesAcknowledgedWrites == Spec => []ReadQuorumHasHolder
<1>1. TypeOK /\ AcknowledgedIsReplicated => ReadQuorumHasHolder
  <2> SUFFICES ASSUME TypeOK, AcknowledgedIsReplicated, NEW w \in acknowledged,
                      NEW R \in SUBSET w.authority.current.members,
                      Cardinality(R) >= Cardinality(w.authority.current.members)
                                        - w.authority.current.write_quorum + 1
               PROVE  \E i \in R : Holds(i, w.authority, w.lsn)
    BY DEF ReadQuorumHasHolder
  <2> DEFINE c == w.authority.current
             W == {i \in c.members : Holds(i, w.authority, w.lsn)}
  <2>1. c.members \subseteq Identity /\ c.write_quorum \in Nat
    BY Zenon, AuthorityFacts DEF TypeOK, Configurations
  <2>2. IsFiniteSet(c.members)
    BY <2>1, IdentityAssumption, FS_Subset
  <2>3. Cardinality(W) >= c.write_quorum
    BY Zenon DEF AcknowledgedIsReplicated, HeldByQuorum
  <2>4. W \in SUBSET c.members
    OBVIOUS
  <2>5. Cardinality(c.members) \in Nat /\ Cardinality(R) \in Nat /\ Cardinality(W) \in Nat
    BY Zenon, <2>2, <2>4, FS_Subset, FS_CardinalityType
  <2>6. Cardinality(R) + Cardinality(W) > Cardinality(c.members)
    <3>1. Cardinality(R) >= Cardinality(c.members) - c.write_quorum + 1
      OBVIOUS
    <3> HIDE DEF c, W
    <3> QED
      BY <3>1, <2>1, <2>3, <2>5
  <2>7. R \cap W # {}
    BY Zenon, <2>2, <2>4, <2>6, QuorumsMeet
  <2> QED
    BY <2>7
<1> QED
  BY <1>1, TypeCorrect, AcknowledgedWritesAreReplicated, PTL

-----------------------------------------------------------------------------
(* The quorum progress found by sorting.                                    *)

(* A nonempty set of natural numbers has a least element.                   *)
LEMMA LeastNatural ==
    ASSUME NEW T \in SUBSET Nat, T # {}
    PROVE  \E x \in T : \A y \in T : x <= y
<1>1. PICK x \in T : \A y \in T : ~(<<y, x>> \in OpToRel(<, Nat))
  BY Zenon, NatLessThanWellFounded, WFMin
<1>2. \A y \in T : ~(y < x)
  BY Zenon, <1>1 DEF OpToRel
<1> QED
  BY <1>2

(* order lists the n members of M, each once, by descending value.          *)
Sorts(order, n, M, v) ==
    /\ order \in [1..n -> M]
    /\ \A j, k \in 1..n : j < k => order[j] # order[k] /\ v[order[j]] >= v[order[k]]

(* Putting a member of least value behind the others keeps them sorted.     *)
LEMMA SortedWithLast ==
    ASSUME NEW v \in [Identity -> Nat], NEW M \in SUBSET Identity, NEW m \in M,
           \A x \in M : v[m] <= v[x], NEW n \in Nat, NEW o, Sorts(o, n, M \ {m}, v)
    PROVE  \E order : Sorts(order, n + 1, M, v)
<1>1. PICK order : order = [k \in 1..n + 1 |-> IF k = n + 1 THEN m ELSE o[k]]
  BY Zenon
<1>2. \A k \in 1..n + 1 : k # n + 1 => k \in 1..n
  OBVIOUS
<1>3. o \in [1..n -> M \ {m}]
  BY DEF Sorts
<1>4. \A k \in 1..n : o[k] \in M /\ o[k] # m
  BY Zenon, <1>3
<1>5. \A k \in 1..n + 1 : order[k] = IF k = n + 1 THEN m ELSE o[k]
  BY Zenon, <1>1
<1>6. order \in [1..n + 1 -> M]
  BY Zenon, <1>1, <1>2, <1>4
<1>7. ASSUME NEW j \in 1..n + 1, NEW k \in 1..n + 1, j < k
      PROVE  order[j] # order[k] /\ v[order[j]] >= v[order[k]]
  <2>1. j \in 1..n /\ order[j] = o[j]
    BY <1>5, <1>7
  <2>2. CASE k = n + 1
    <3>1. order[k] = m /\ o[j] \in M /\ o[j] # m
      BY Zenon, <1>4, <1>5, <2>1, <2>2
    <3>2. v[m] <= v[o[j]] /\ v[m] \in Nat /\ v[o[j]] \in Nat
      BY <3>1
    <3>3. v[o[j]] >= v[m]
      BY <3>2
    <3> QED
      BY Zenon, <2>1, <3>1, <3>3
  <2>3. CASE k # n + 1
    <3>1. k \in 1..n /\ order[k] = o[k]
      BY Zenon, <1>2, <1>5, <2>3
    <3> QED
      BY Zenon, <1>7, <2>1, <3>1 DEF Sorts
  <2> QED
    BY Zenon, <2>2, <2>3
<1> QED
  BY Zenon, <1>6, <1>7 DEF Sorts

(* Every set of members can be sorted.                                      *)
LEMMA SortExists ==
    ASSUME NEW v \in [Identity -> Nat], NEW M \in SUBSET Identity
    PROVE  \E order : Sorts(order, Cardinality(M), M, v)
<1> DEFINE Sortable(S) == \E order : Sorts(order, Cardinality(S), S, v)
           Bad == {n \in Nat : \E S \in SUBSET Identity : Cardinality(S) = n /\ ~Sortable(S)}
<1>1. \A S \in SUBSET Identity : IsFiniteSet(S) /\ Cardinality(S) \in Nat
  BY IdentityAssumption, FS_Subset, FS_CardinalityType
<1>2. ASSUME NEW n \in Bad, \A k \in Bad : n <= k PROVE FALSE
  <2>1. PICK S \in SUBSET Identity : Cardinality(S) = n /\ ~Sortable(S)
    BY <1>2
  <2>2. n \in Nat
    BY <1>2
  <2>3. CASE S = {}
    <3>1. n = 0
      BY <2>1, <2>3, FS_EmptySet
    <3>2. Sorts([k \in 1..0 |-> k], 0, {}, v)
      BY DEF Sorts
    <3> QED
      BY Zenon, <2>1, <2>3, <3>1, <3>2
  <2>4. CASE S # {}
    <3> DEFINE V == {v[x] : x \in S}
    <3>1. V \in SUBSET Nat /\ V # {}
      BY Zenon, <2>4
    <3>2. PICK low \in V : \A y \in V : low <= y
      BY Zenon, <3>1, LeastNatural
    <3>3. PICK m \in S : low = v[m]
      BY Zenon, <3>2
    <3>4. \A x \in S : v[m] <= v[x]
      BY Zenon, <3>2, <3>3
    <3>5. S \ {m} \in SUBSET Identity
      OBVIOUS
    <3>6. Cardinality(S \ {m}) = n - 1 /\ Cardinality(S \ {m}) \in Nat
      BY <1>1, <2>1, <3>5, FS_RemoveElement
    <3>7. PICK k \in Nat : k = Cardinality(S \ {m}) /\ k + 1 = n /\ ~(n <= k)
      BY <2>2, <3>6
    <3>8. Sortable(S \ {m})
      BY Zenon, <1>2, <3>5, <3>7
    <3>9. PICK o : Sorts(o, k, S \ {m}, v)
      BY Zenon, <3>7, <3>8
    <3>10. \E order : Sorts(order, k + 1, S, v)
      BY Zenon, <3>4, <3>9, SortedWithLast
    <3> QED
      BY Zenon, <2>1, <3>7, <3>10
  <2> QED
    BY <2>3, <2>4
<1>3. Bad = {}
  <2>1. Bad \in SUBSET Nat
    OBVIOUS
  <2> HIDE DEF Bad
  <2> QED
    BY Zenon, <1>2, <2>1, LeastNatural
<1>4. Sortable(M)
  BY Zenon, <1>1, <1>3
<1> QED
  BY <1>4

(* What Ranked yields.                                                      *)
LEMMA RankedFacts ==
    ASSUME NEW c \in Configurations, NEW p \in [Identity -> Nat \cup {Absent}]
    PROVE  /\ Ranked(c, p) \in [1..Cardinality(c.members) -> c.members]
           /\ \A j, k \in 1..Cardinality(c.members) :
                 j < k => /\ Ranked(c, p)[j] # Ranked(c, p)[k]
                          /\ Credit(p, Ranked(c, p)[j]) >= Credit(p, Ranked(c, p)[k])
<1>1. c.members \in SUBSET Identity
  BY DEF Configurations
<1>2. PICK v : v = [i \in Identity |-> Credit(p, i)]
  BY Zenon
<1>3. \A i \in Identity : Credit(p, i) \in Nat /\ v[i] = Credit(p, i)
  BY <1>2 DEF Credit, Absent
<1>4. v \in [Identity -> Nat]
  BY Zenon, <1>2, <1>3
<1>5. PICK order : Sorts(order, Cardinality(c.members), c.members, v)
  BY Zenon, <1>1, <1>4, SortExists
<1>6. order \in [1..Cardinality(c.members) -> c.members]
  BY Zenon, <1>5 DEF Sorts
<1>7. \A j \in 1..Cardinality(c.members) : v[order[j]] = Credit(p, order[j])
  BY Zenon, <1>1, <1>3, <1>6
<1>8. \A j, k \in 1..Cardinality(c.members) :
          j < k => order[j] # order[k] /\ Credit(p, order[j]) >= Credit(p, order[k])
  BY Zenon, <1>5, <1>7 DEF Sorts
<1> QED
  BY Zenon, <1>6, <1>8 DEF Ranked

(* The members with credit lsn make a write quorum exactly when the credit  *)
(* of the quorum-th of the sorted members reaches lsn.                      *)
LEMMA QuorumProgressFacts ==
    ASSUME NEW c \in Configurations, c.write_quorum \in 1..Cardinality(c.members),
           NEW p \in [Identity -> Nat \cup {Absent}], NEW lsn \in Nat
    PROVE  /\ QuorumProgress(c, p) \in Nat
           /\ HasQuorum(c, p, lsn) <=> lsn <= QuorumProgress(c, p)
<1>1. PICK n, q, order : n = Cardinality(c.members) /\ q = c.write_quorum /\ order = Ranked(c, p)
  OBVIOUS
<1>2. c.members \in SUBSET Identity /\ IsFiniteSet(c.members) /\ n \in Nat /\ q \in Nat /\ q \in 1..n
  BY <1>1, IdentityAssumption, FS_Subset, FS_CardinalityType DEF Configurations
<1>3. order \in [1..n -> c.members]
      /\ \A j, k \in 1..n : j < k => /\ order[j] # order[k]
                                     /\ Credit(p, order[j]) >= Credit(p, order[k])
  <2>1. /\ Ranked(c, p) \in [1..Cardinality(c.members) -> c.members]
        /\ \A j, k \in 1..Cardinality(c.members) :
              j < k => /\ Ranked(c, p)[j] # Ranked(c, p)[k]
                       /\ Credit(p, Ranked(c, p)[j]) >= Credit(p, Ranked(c, p)[k])
    BY RankedFacts
  <2> QED
    BY Zenon, <1>1, <2>1
<1>4. \A i \in c.members : Credit(p, i) \in Nat
  BY <1>2 DEF Credit, Absent
<1>5. PICK reached : reached = Credit(p, order[q])
  OBVIOUS
<1>6. QuorumProgress(c, p) = reached /\ reached \in Nat
  <2>1. q # 0 /\ q <= n
    BY <1>2
  <2>2. QuorumProgress(c, p) = reached
    BY Zenon, <1>1, <1>5, <2>1 DEF QuorumProgress
  <2> QED
    BY Zenon, <1>2, <1>3, <1>4, <1>5, <2>2
<1>7. \A j \in 1..n : order[j] \in c.members /\ Credit(p, order[j]) \in Nat
  BY Zenon, <1>3, <1>4
<1>8. \A j, k \in 1..n : j # k => order[j] # order[k]
  BY <1>2, <1>3
<1>9. PICK H : H = Holders(c, p, lsn)
  OBVIOUS
<1>10. H \subseteq c.members /\ IsFiniteSet(H) /\ Cardinality(H) \in Nat
  BY <1>2, <1>9, FS_Subset, FS_CardinalityType DEF Holders
<1>11. ASSUME lsn <= reached PROVE Cardinality(H) >= q
  <2>1. PICK f : f = [j \in 1..q |-> order[j]]
    BY Zenon
  <2>2. \A j \in 1..q : j \in 1..n /\ order[j] \in H
    <3> SUFFICES ASSUME NEW j \in 1..q PROVE j \in 1..n /\ order[j] \in H
      OBVIOUS
    <3>1. j \in 1..n /\ (j < q \/ j = q)
      BY <1>2
    <3>2. Credit(p, order[j]) >= reached /\ Credit(p, order[j]) \in Nat
      BY <1>2, <1>3, <1>5, <1>6, <1>7, <3>1
    <3>3. Credit(p, order[j]) >= lsn
      BY <1>6, <1>11, <3>2
    <3> QED
      BY Zenon, <1>7, <1>9, <3>1, <3>3 DEF Holders
  <2>3. f \in Injection(1..q, H)
    BY ZenonT(60), <1>8, <2>1, <2>2 DEF Injection, IsInjective
  <2>4. Cardinality(1..q) <= Cardinality(H)
    BY Zenon, <1>10, <2>3, FS_Injection
  <2>5. Cardinality(1..q) = q
    <3>1. 1 \in Int /\ q \in Int /\ ~(1 > q) /\ q - 1 + 1 = q
      BY <1>2
    <3> QED
      BY Zenon, <3>1, FS_Interval
  <2> QED
    BY <1>2, <1>10, <2>4, <2>5
<1>12. ASSUME ~(lsn <= reached) PROVE ~(Cardinality(H) >= q)
  <2>1. PICK l : l = q - 1
    OBVIOUS
  <2>2. l \in Nat /\ \A j \in 1..n : j < q => j \in 1..l
    BY <1>2, <2>1
  <2>3. PICK Im : Im = {order[j] : j \in 1..l}
    BY Zenon
  <2>4. H \subseteq Im
    <3> SUFFICES ASSUME NEW i \in H PROVE i \in Im
      OBVIOUS
    <3>1. i \in c.members /\ Credit(p, i) >= lsn
      BY Zenon, <1>9, <1>10 DEF Holders
    <3>2. order \in Injection(1..n, c.members)
      BY Zenon, <1>3, <1>8 DEF Injection, IsInjective
    <3>3. Cardinality(1..n) = n /\ IsFiniteSet(c.members)
      <4>1. 1 \in Int /\ n \in Int /\ ~(1 > n) /\ n - 1 + 1 = n
        BY <1>2
      <4> QED
        BY Zenon, <1>2, <4>1, FS_Interval
    <3>4. order \in Surjection(1..n, c.members)
      BY Zenon, <1>1, <1>2, <3>2, <3>3, FS_Injection
    <3>5. PICK j \in 1..n : order[j] = i
      BY Zenon, <3>1, <3>4 DEF Surjection
    <3>6. Credit(p, order[j]) > reached
      BY <1>6, <1>7, <1>12, <3>1, <3>5
    <3>7. ~(q < j) /\ q # j
      <4>1. ~(reached >= Credit(p, order[j]))
        BY <1>6, <1>7, <3>5, <3>6
      <4>2. Credit(p, order[j]) # reached
        BY <1>6, <1>7, <3>5, <3>6
      <4> QED
        BY Zenon, <1>2, <1>3, <1>5, <3>5, <4>1, <4>2
    <3>8. j < q
      BY <1>2, <3>5, <3>7
    <3> QED
      BY Zenon, <2>2, <2>3, <3>5, <3>8
  <2>5. PICK g : g = [j \in 1..l |-> order[j]]
    BY Zenon
  <2>6. g \in Surjection(1..l, Im)
    BY Zenon, <2>3, <2>5 DEF Surjection
  <2>7. IsFiniteSet(1..l) /\ Cardinality(1..l) = l
    <3>1. 1 \in Int /\ l \in Int /\ l - 1 + 1 = l /\ (1 > l => l = 0)
      BY <2>2
    <3> QED
      BY Zenon, <3>1, FS_Interval
  <2>8. IsFiniteSet(Im) /\ Cardinality(Im) <= l
    <3>1. IsFiniteSet(Im) /\ Cardinality(Im) <= Cardinality(1..l)
      BY Zenon, <2>6, <2>7, FS_Surjection
    <3> QED
      BY Zenon, <2>7, <3>1
  <2>9. Cardinality(H) <= Cardinality(Im) /\ Cardinality(Im) \in Nat
    BY Zenon, <2>4, <2>8, FS_Subset, FS_CardinalityType
  <2> QED
    BY <1>2, <1>10, <2>1, <2>2, <2>8, <2>9
<1>13. HasQuorum(c, p, lsn) <=> Cardinality(H) >= q
  BY Zenon, <1>1, <1>9 DEF HasQuorum
<1> QED
  BY Zenon, <1>6, <1>11, <1>12, <1>13

(* Credit is held, in any state.                                            *)
LEMMA CreditIsHeldNow ==
    ASSUME IInv, authority # None, NEW i \in Identity, NEW lsn \in Nat,
           Credit(progress, i) >= lsn
    PROVE  Holds(i, authority, lsn)
<1>1. authority \in Admissible /\ Fence(authority) \in AdmissibleFences
  <2>1. authority \in Admissible
    BY Zenon DEF IInv, TypeOK
  <2> QED
    BY Zenon, <2>1, AuthorityFacts
<1>2. /\ progress \in [Identity -> Nat \cup {Absent}]
      /\ applied_lsn \in Nat /\ built \in [Identity -> Nat]
      /\ verified_in \in [Identity -> [Session -> [AdmissibleFences -> Nat]]]
      /\ sessions \in [Identity -> Session \cup {None}]
      /\ progress[Local] <= applied_lsn /\ CreditIsEarned
  BY Zenon DEF IInv, TypeOK, LocalCreditIsDurable
<1>3. PICK n, k : n = progress[i] /\ k = applied_lsn
  OBVIOUS
<1>4. (n \in Nat \/ n = Absent) /\ k \in Nat /\ built[i] \in Nat
  BY Zenon, <1>2, <1>3
<1>5. (IF n = Absent THEN 0 ELSE n) >= lsn
  BY Zenon, <1>3 DEF Credit
<1>6. n \in Int /\ (lsn # 0 => n >= lsn /\ n > 0)
  BY <1>4, <1>5 DEF Absent
<1>7. CASE i = Local
  <2>1. n <= k
    BY Zenon, <1>2, <1>3, <1>7
  <2>2. k >= lsn
    BY <1>4, <1>6, <2>1
  <2> QED
    BY Zenon, <1>3, <1>7, <2>2 DEF Holds
<1>8. CASE i # Local /\ lsn = 0
  <2>1. Fence(authority) \in CreditFences(authority) /\ 1 \in Session
    BY Zenon, <1>1, SessionAssumption DEF CreditFences
  <2>2. PICK v : v = verified_in[i][1][Fence(authority)]
    OBVIOUS
  <2>3. v \in Nat
    <3>1. verified_in[i] \in [Session -> [AdmissibleFences -> Nat]]
      BY Zenon, <1>2
    <3>2. verified_in[i][1] \in [AdmissibleFences -> Nat]
      BY Zenon, <2>1, <3>1
    <3> QED
      BY Zenon, <1>1, <2>2, <3>2
  <2>4. v >= lsn
    BY <1>8, <2>3
  <2> QED
    BY Zenon, <1>8, <2>1, <2>2, <2>4 DEF Holds
<1>9. CASE i # Local /\ lsn # 0
  <2>1. i \in Peers /\ n > 0 /\ n >= lsn
    BY Zenon, <1>6, <1>9 DEF Peers
  <2>2. CASE sessions[i] # None /\ \E f \in CreditFences(authority) : verified_in[i][sessions[i]][f] >= n
    <3>a. PICK f \in CreditFences(authority) : verified_in[i][sessions[i]][f] >= n
      BY Zenon, <2>2
    <3>b. PICK v : v = verified_in[i][sessions[i]][f]
      BY Zenon
    <3>1. v = verified_in[i][sessions[i]][f] /\ v >= n
      BY Zenon, <3>a, <3>b
    <3>2. sessions[i] \in Session /\ f \in AdmissibleFences
      BY Zenon, <1>2, <2>2 DEF CreditFences
    <3>3. v \in Nat
      <4>1. verified_in[i] \in [Session -> [AdmissibleFences -> Nat]]
        BY Zenon, <1>2
      <4>2. verified_in[i][sessions[i]] \in [AdmissibleFences -> Nat]
        BY Zenon, <3>2, <4>1
      <4> QED
        BY Zenon, <3>1, <3>2, <4>2
    <3>4. v >= lsn
      BY <1>6, <2>1, <3>1, <3>3
    <3> QED
      BY Zenon, <1>9, <3>1, <3>2, <3>4 DEF Holds
  <2>3. CASE authority.scale_up # None /\ i = authority.scale_up.target /\ built[i] >= n
    <3>1. PICK v : v = built[i]
      OBVIOUS
    <3>2. v \in Nat /\ v >= n
      BY Zenon, <1>4, <2>3, <3>1
    <3>3. v >= lsn
      BY <1>6, <2>1, <3>2
    <3> QED
      BY Zenon, <1>9, <2>3, <3>1, <3>3 DEF Holds
  <2> QED
    BY Zenon, <1>2, <1>3, <2>1, <2>2, <2>3 DEF CreditIsEarned
<1> QED
  BY Zenon, <1>7, <1>8, <1>9

(* catch_up_complete reports only what is true: when it holds, a write      *)
(* quorum of the CC and every replica that gates the transition durably     *)
(* hold the boundary frozen at admission.                                   *)
THEOREM CatchUpIsAlwaysReplicated == Spec => []CatchUpIsReplicated
<1>1. IInv => CatchUpIsReplicated
  <2> SUFFICES ASSUME IInv, authority # None, catch_up_boundary # None, CatchUpComplete
               PROVE  /\ HeldByQuorum(authority.current, authority, catch_up_boundary)
                      /\ \A i \in must_catch_up : Holds(i, authority, catch_up_boundary)
    BY DEF CatchUpIsReplicated
  <2>1. PICK c, b, reached : /\ c = authority.current /\ b = catch_up_boundary
                             /\ reached = QuorumProgress(authority.current, progress)
    OBVIOUS
  <2>2. authority \in Admissible /\ c \in Configurations /\ b \in Nat
        /\ progress \in [Identity -> Nat \cup {Absent}] /\ must_catch_up \subseteq Identity
    BY Zenon, <2>1, AuthorityFacts DEF IInv, TypeOK
  <2>3. c.write_quorum \in 1..Cardinality(c.members)
    BY Zenon, <2>1, <2>2, AdmissibleAssumption
  <2>4. /\ reached >= b
        /\ \A i \in must_catch_up : progress[i] # Absent /\ progress[i] >= reached
    BY Zenon, <2>1 DEF CatchUpComplete
  <2>5. reached \in Nat /\ (HasQuorum(c, progress, b) <=> b <= reached)
    BY Zenon, <2>1, <2>2, <2>3, QuorumProgressFacts
  <2>6. HasQuorum(c, progress, b)
    BY <2>2, <2>4, <2>5
  <2>7. HeldByQuorum(c, authority, b)
    <3> DEFINE credited == Holders(c, progress, b)
               holding  == {i \in c.members : Holds(i, authority, b)}
    <3>1. c.members \subseteq Identity /\ c.write_quorum \in Nat
      BY <2>2 DEF Configurations
    <3>2. credited \subseteq holding
      BY Zenon, <2>2, <3>1, CreditIsHeldNow DEF Holders
    <3>3. IsFiniteSet(holding)
      BY Zenon, <3>1, IdentityAssumption, FS_Subset
    <3>4. Cardinality(credited) <= Cardinality(holding) /\ Cardinality(credited) \in Nat
          /\ Cardinality(holding) \in Nat
      BY Zenon, <3>2, <3>3, FS_Subset, FS_CardinalityType
    <3>5. Cardinality(credited) >= c.write_quorum
      BY Zenon, <2>6 DEF HasQuorum
    <3>6. Cardinality(holding) >= c.write_quorum
      BY <3>1, <3>4, <3>5
    <3> QED
      BY Zenon, <3>6 DEF HeldByQuorum
  <2>8. ASSUME NEW i \in must_catch_up PROVE Holds(i, authority, b)
    <3>1. i \in Identity
      BY <2>2
    <3>2. progress[i] # Absent /\ progress[i] >= reached
      BY Zenon, <2>4, <2>8
    <3>3. Credit(progress, i) >= b
      <4>1. PICK n : n = progress[i]
        OBVIOUS
      <4>2. (n \in Nat \/ n = Absent) /\ n # Absent /\ n >= reached
        BY Zenon, <2>2, <3>1, <3>2, <4>1
      <4>3. n >= b
        BY <2>2, <2>4, <2>5, <4>2
      <4> QED
        BY Zenon, <3>2, <4>1, <4>3 DEF Credit
    <3> QED
      BY Zenon, <2>2, <3>1, <3>3, CreditIsHeldNow
  <2> QED
    BY Zenon, <2>1, <2>7, <2>8
<1> QED
  BY <1>1, InductiveInvariant, PTL

(* The catch-up gate and the commit rule agree at every LSN: what the one   *)
(* finds by sorting the credits is the greatest LSN the other calls ready.  *)
THEOREM CatchUpAgreesWithCommit == Spec => []QuorumProgressAgreesWithCommit
<1>1. IInv => QuorumProgressAgreesWithCommit
  <2> SUFFICES ASSUME IInv, authority # None, NEW lsn \in Nat \ {0}
               PROVE  HasQuorum(authority.current, progress, lsn)
                      <=> lsn <= QuorumProgress(authority.current, progress)
    BY Zenon DEF QuorumProgressAgreesWithCommit
  <2>1. PICK c : c = authority.current
    OBVIOUS
  <2>2. authority \in Admissible /\ c \in Configurations /\ lsn \in Nat
        /\ progress \in [Identity -> Nat \cup {Absent}]
    BY Zenon, <2>1, AuthorityFacts DEF IInv, TypeOK
  <2>3. c.write_quorum \in 1..Cardinality(c.members)
    BY Zenon, <2>1, <2>2, AdmissibleAssumption
  <2> QED
    BY Zenon, <2>1, <2>2, <2>3, QuorumProgressFacts
<1> QED
  BY <1>1, InductiveInvariant, PTL

=============================================================================
