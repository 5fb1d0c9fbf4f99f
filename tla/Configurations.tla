--------------------------- MODULE Configurations ---------------------------
(***************************************************************************)
(* Replica configurations, authority fences and quorum arithmetic.         *)
(*                                                                         *)
(* A configuration is the set of replica identities that count votes in    *)
(* one epoch, with its primary and its write quorum.  An authority is what *)
(* the controller admits at a replica: a Current Configuration (CC) and,   *)
(* while a transition is open, the Previous Configuration (PC) it replaces.*)
(* The fence of an authority is the triple every replication item and      *)
(* acknowledgement carries.                                                *)
(*                                                                         *)
(* The code's ConfigurationId is a digest of the epoch, primary, quorum    *)
(* and members, so the model lets the configuration stand for its own id.  *)
(***************************************************************************)
EXTENDS Integers, FiniteSets

CONSTANTS
    Identity,   \* replica identities (replica id, instance, agent generation)
    None        \* the absent value of an Option

ASSUME IdentityAssumption == IsFiniteSet(Identity)

-----------------------------------------------------------------------------
(* Policy: majority write quorum, and the read quorum that meets it.        *)

WriteQuorum(n) == (n \div 2) + 1

ReadQuorum(n) == n - WriteQuorum(n) + 1

Configurations ==
    [epoch : Nat, primary : Identity, members : SUBSET Identity, write_quorum : Nat]

(* ConfigurationDescriptor::new with the fixed policy of its member count.  *)
Configuration(epoch, primary, members) ==
    [epoch |-> epoch, primary |-> primary, members |-> members,
     write_quorum |-> WriteQuorum(Cardinality(members))]

-----------------------------------------------------------------------------
(* Authorities.  handoff is the certified prefix of a planned switchover;   *)
(* scale_up names the replica being added and the boundary it has reached.  *)

ScaleUps == [target : Identity, boundary : Nat]

Authorities ==
    [previous : Configurations \cup {None}, current : Configurations,
     handoff : Nat \cup {None}, scale_up : ScaleUps \cup {None}]

Fence(a) == [previous |-> a.previous, current |-> a.current]

AuthorityMembers(a) ==
    a.current.members \cup (IF a.previous = None THEN {} ELSE a.previous.members)

ContainsMember(a, i) == i \in AuthorityMembers(a)

PrimaryIdentity(a) == a.current.primary

LocalIsPrimary(a, i) == i \in a.current.members /\ i = a.current.primary

(* An envelope or acknowledgement is accepted only under the exact fence.   *)
ValidateFence(a, sender, receiver, fence) ==
    /\ sender = PrimaryIdentity(a)
    /\ ContainsMember(a, receiver)
    /\ fence = Fence(a)

(* The same configuration with its Previous Configuration dropped.          *)
IsCurrentOnlyCompletionOf(next, old) ==
    /\ next.current = old.current
    /\ old.previous # None
    /\ next.previous = None
    /\ next.handoff = old.handoff
    /\ next.scale_up = old.scale_up

-----------------------------------------------------------------------------
(* Quorum arithmetic over a map from identities to acknowledged LSNs.       *)

Absent == -1

Credit(progress, i) == IF progress[i] = Absent THEN 0 ELSE progress[i]

Raise(progress, i, lsn) == [progress EXCEPT ![i] = IF @ < lsn THEN lsn ELSE @]

Holders(config, progress, lsn) ==
    {i \in config.members : Credit(progress, i) >= lsn}

HasQuorum(config, progress, lsn) ==
    Cardinality(Holders(config, progress, lsn)) >= config.write_quorum

ClientCommitReady(a, progress, lsn) ==
    /\ HasQuorum(a.current, progress, lsn)
    /\ a.previous # None => HasQuorum(a.previous, progress, lsn)

(* The members in descending order of their progress.                       *)
Ranked(config, progress) ==
    CHOOSE order \in [1..Cardinality(config.members) -> config.members] :
        \A j, k \in 1..Cardinality(config.members) :
            j < k => /\ order[j] # order[k]
                     /\ Credit(progress, order[j]) >= Credit(progress, order[k])

(* Mutant: the index is taken one place too early.                          *)
QuorumProgressOneEarly(config, progress) ==
    LET index == IF config.write_quorum <= 1 THEN 1 ELSE config.write_quorum - 1
    IN  IF index <= Cardinality(config.members)
        THEN Credit(progress, Ranked(config, progress)[index]) ELSE 0

(* Sort the members' progress in descending order, take the quorum-th.      *)
QuorumProgress(config, progress) ==
    LET index == IF config.write_quorum = 0 THEN 1 ELSE config.write_quorum
    IN  IF index <= Cardinality(config.members)
        THEN Credit(progress, Ranked(config, progress)[index]) ELSE 0

(* Replicas whose own progress gates the end of a transition: the replica   *)
(* being added, and a primary that was not the primary of the PC.           *)
DeriveMustCatchUp(a) ==
    (IF a.scale_up = None THEN {} ELSE {a.scale_up.target})
    \cup
    (IF a.previous # None /\ a.previous.primary # PrimaryIdentity(a)
     THEN {PrimaryIdentity(a)} ELSE {})

=============================================================================
