------------------------- MODULE LocalWritesProofs -------------------------
(***************************************************************************)
(* What LocalWrites keeps for every set of writes, every bound on the LSNs *)
(* and every set of faults: the journal is honest, an acknowledged write   *)
(* is kept, and a primary commits its own writes only with a quorum.       *)
(***************************************************************************)
EXTENDS LocalWrites, SequenceTheorems, WellFoundedInduction, TLAPS

-----------------------------------------------------------------------------
(* The inductive invariant.                                                 *)

Types ==
    /\ journal \in [Write -> Entries \cup {None}] /\ local \in [Write -> Entries \cup {None}]
    /\ store \in Seq(Write \cup {Foreign})
    /\ commit \in Nat /\ verified \in Nat /\ engine \in Nat /\ peers \in Nat
    /\ mode \in {"closed", "secondary", "primary", "granted"}
    /\ pend \in Reservations \cup {None} /\ waits \subseteq Lsns
    /\ slot \in Write \cup {None} /\ caller \in BOOLEAN
    /\ task \in Tasks \cup {None} /\ acked \subseteq Reservations

(* The table of unresolved writes in memory follows the journal.            *)
LocalFits ==
    \A w \in Write : local[w] # None =>
        /\ journal[w] # None /\ journal[w].lsn = local[w].lsn
        /\ local[w].phase = "registered" => journal[w].phase # "reserved"

(* What the pass that holds the write lock has established at each step.    *)
TaskFits ==
    task # None =>
        /\ task.op = None <=> task.step \in {"commit", "record", "finish"}
        /\ task.step = "reserve" => journal[task.op] = None
        /\ task.step \in {"reserve", "list", "apply", "verify", "seal", "restore", "register",
                          "enlist"} => task.lsn \in Lsns
        /\ task.step \in {"list", "apply", "verify", "seal", "restore", "register", "enlist"} =>
              journal[task.op] # None /\ journal[task.op].lsn = task.lsn
        /\ task.step \in {"verify", "seal", "restore", "register", "enlist"} =>
              Holds(task.op, task.lsn)
        /\ task.step \in {"seal", "restore", "record", "finish"} => task.lsn <= commit
        /\ task.step = "enlist" => journal[task.op].phase # "reserved"

(* A caller waits for the pass that runs for it, or for an LSN the engine   *)
(* holds a completion for.                                                  *)
CallerFits ==
    /\ caller => mode = "granted" \/ (At("begin") /\ ~task.recovering)
    /\ task # None /\ task.recovering => ~caller
    /\ task # None /\ ~task.recovering /\ task.op # None => caller /\ slot = task.op
    /\ caller /\ (task = None \/ task.op = None) =>
          /\ slot # None /\ journal[slot] # None
          /\ journal[slot].phase # "reserved" /\ journal[slot].lsn \in waits

IInv ==
    /\ Types /\ LocalFits /\ TaskFits /\ CallerFits /\ engine <= commit
    /\ JournalIsHonest /\ AcknowledgedIsKept

-----------------------------------------------------------------------------
(* Largest and smallest elements.                                           *)

(* A nonempty set of natural numbers has a least element.                   *)
LEMMA LeastNatural ==
  ASSUME NEW T \in SUBSET Nat, T # {}
  PROVE  \E x \in T : \A y \in T : x <= y
<1>1. PICK x \in T : \A y \in T : ~(<<y, x>> \in OpToRel(<, Nat))
  BY Zenon, NatLessThanWellFounded, WFMin
<1>2. \A y \in T : ~(y < x)
  BY Zenon, <1>1 DEF OpToRel
<1> QED
  BY <1>2

(* Min gives the least element of a nonempty set of natural numbers.        *)
LEMMA MinFacts ==
  ASSUME NEW T \in SUBSET Nat, T # {}
  PROVE  Min(T) \in T /\ \A y \in T : Min(T) <= y
BY Zenon, LeastNatural DEF Min

(* Max gives the greatest element of a nonempty bounded set.                *)
LEMMA MaxFacts ==
  ASSUME NEW n \in Nat, NEW T \in SUBSET (0..n), T # {}
  PROVE  Max(T) \in T /\ \A y \in T : y <= Max(T)
<1> DEFINE U == {n - x : x \in T}
<1>0. \A x \in T : x \in Nat /\ x <= n /\ n - x \in Nat
  OBVIOUS
<1>1. U \in SUBSET Nat /\ U # {}
  BY Zenon, <1>0
<1>2. PICK u \in U : \A v \in U : u <= v
  BY Zenon, <1>1, LeastNatural
<1>3. PICK x \in T : u = n - x
  BY <1>2
<1>4. \A y \in T : x >= y
  <2> SUFFICES ASSUME NEW y \in T PROVE x >= y
    OBVIOUS
  <2>1. n - x <= n - y
    BY Zenon, <1>2, <1>3
  <2> QED
    BY <1>0, <2>1
<1> QED
  BY Zenon, <1>4 DEF Max

(* The maximum of two natural numbers.                                      *)
LEMMA MaxOfTwo ==
  ASSUME NEW a \in Nat, NEW b \in Nat
  PROVE  Max({a, b}) \in Nat /\ Max({a, b}) \in {a, b} /\ Max({a, b}) >= a /\ Max({a, b}) >= b
<1>1. \E x \in {a, b} : \A y \in {a, b} : x >= y
  OBVIOUS
<1> QED
  BY <1>1 DEF Max

-----------------------------------------------------------------------------
(* The application's log only grows, and its commit point only rises.       *)

StoreGrows == store' = store \/ \E x \in Write \cup {Foreign} : store' = Append(store, x)

(* A write that the application holds stays where it is.                    *)
LEMMA HoldsStays ==
  ASSUME Types, StoreGrows
  PROVE  /\ store' \in Seq(Write \cup {Foreign})
         /\ \A w, lsn : lsn \in Lsns /\ Holds(w, lsn) => Holds(w, lsn)'
<1>1. CASE store' = store
  BY <1>1 DEF Types, Holds, Applied
<1>2. CASE \E x \in Write \cup {Foreign} : store' = Append(store, x)
  <2>1. PICK x \in Write \cup {Foreign} : store' = Append(store, x)
    BY <1>2
  <2>2. /\ store' \in Seq(Write \cup {Foreign}) /\ Len(store') = Len(store) + 1
        /\ \A k \in 1..Len(store) : store'[k] = store[k]
    BY <2>1, AppendProperties DEF Types
  <2> QED
    BY <2>2, LsnAssumption DEF Types, Holds, Applied, Lsns
<1> QED
  BY <1>1, <1>2 DEF StoreGrows

(* What is settled in the application stays settled.                        *)
LEMMA SettledStays ==
  ASSUME IInv, StoreGrows, commit' \in Nat, commit' >= commit
  PROVE  /\ journal' = journal => JournalIsHonest'
         /\ acked' = acked => AcknowledgedIsKept'
<1>1. /\ \A w, lsn : lsn \in Lsns /\ Holds(w, lsn) => Holds(w, lsn)'
      /\ Types /\ JournalIsHonest /\ AcknowledgedIsKept
  BY HoldsStays DEF IInv
<1>2. ASSUME journal' = journal PROVE JournalIsHonest'
  <2> SUFFICES ASSUME NEW w \in Write, journal[w] # None
               PROVE  /\ journal[w].phase # "reserved" => Holds(w, journal[w].lsn)'
                      /\ journal[w].phase = "committed" => journal[w].lsn <= commit'
    BY <1>2 DEF JournalIsHonest
  <2>1. journal[w].lsn \in Lsns
    BY <1>1 DEF Types, Entries
  <2>2. PICK k \in Lsns : k = journal[w].lsn
    BY <2>1
  <2>3. journal[w].phase # "reserved" => Holds(w, k)'
    BY <1>1, <2>2 DEF JournalIsHonest
  <2>4. journal[w].phase = "committed" => k <= commit'
    BY <1>1, <2>2, LsnAssumption DEF JournalIsHonest, Types, Lsns
  <2>5. k' = journal'[w].lsn
    BY <2>2, <1>2
  <2> QED
    BY <1>2, <2>2, <2>3, <2>4 DEF Holds, Applied
<1>3. ASSUME acked' = acked PROVE AcknowledgedIsKept'
  <2> SUFFICES ASSUME NEW a \in acked PROVE Holds(a.op, a.lsn)' /\ a.lsn <= commit'
    BY <1>3 DEF AcknowledgedIsKept
  <2>1. a.lsn \in Lsns
    BY <1>1 DEF Types, Reservations
  <2> QED
    BY <1>1, <2>1, LsnAssumption DEF AcknowledgedIsKept, Types, Lsns
<1> QED
  BY <1>2, <1>3

-----------------------------------------------------------------------------
(* The pieces the actions are made of.                                      *)

(* What the invariant says of the pass that holds the write lock.           *)
LEMMA TaskFacts ==
  ASSUME IInv, task # None
  PROVE  /\ task \in Tasks /\ task.op \in Write \cup {None} /\ task.step \in Steps
         /\ task.recovering \in BOOLEAN /\ task.lsn \in 0..MaxLsn
         /\ task.step \notin {"commit", "record", "finish"} => task.op \in Write
BY Zenon DEF IInv, Types, TaskFits, Tasks

(* A pass that goes on keeps everything but its step.                       *)
LEMMA GotoFacts ==
  ASSUME Types, task # None, NEW s \in Steps, Goto(s)
  PROVE  /\ task' \in Tasks /\ task' # None /\ task'.step = s
         /\ task'.op = task.op /\ task'.recovering = task.recovering /\ task'.lsn = task.lsn
<1>1. task \in Tasks
  BY DEF Types
<1>2. task' = [task EXCEPT !.step = s]
  BY DEF Goto
<1>3. task' \in Tasks
  BY <1>1, <1>2 DEF Tasks
<1> QED
  BY <1>1, <1>2, <1>3, NoneAssumption DEF Tasks

(* After an error no pass runs and nobody waits for it.                     *)
LEMMA FailFacts ==
  ASSUME IInv, task # None, NEW c \in BOOLEAN, Fail(c)
  PROVE  /\ task' = None /\ caller' = FALSE /\ slot' \in Write \cup {None}
         /\ TaskFits' /\ CallerFits'
<1>1. task' = None /\ caller' = FALSE
  BY Zenon, TaskFacts DEF Fail, IInv, CallerFits, Types
<1>2. slot' \in Write \cup {None}
  BY DEF Fail, IInv, Types
<1>3. TaskFits' /\ CallerFits'
  BY <1>1 DEF TaskFits, CallerFits, At
<1> QED
  BY <1>1, <1>2, <1>3

(* A completion acknowledges at most the write of the waiting caller, and   *)
(* the caller waits on only when the completion was not for it.             *)
LEMMA CompleteFacts ==
  ASSUME IInv, NEW L, Complete(L), UNCHANGED <<journal, store, commit>>,
         caller /\ slot \in Write /\ journal[slot] # None /\ journal[slot].lsn \in L
            => Holds(slot, journal[slot].lsn) /\ journal[slot].lsn <= commit
  PROVE  /\ AcknowledgedIsKept' /\ acked' \subseteq Reservations
         /\ slot' \in Write \cup {None} /\ caller' \in BOOLEAN
         /\ caller' => /\ caller /\ slot' = slot
                       /\ slot \in Write /\ journal[slot] # None => journal[slot].lsn \notin L
<1> DEFINE done == {w \in Write : w = slot /\ caller /\ journal[w] # None /\ journal[w].lsn \in L}
<1>1. /\ acked' = acked \cup {[op |-> w, lsn |-> journal[w].lsn] : w \in done}
      /\ slot' = IF done = {} THEN slot ELSE None
      /\ caller' = (caller /\ done = {})
  BY Zenon DEF Complete
<1>2. /\ slot \in Write \cup {None} /\ caller \in BOOLEAN /\ acked \subseteq Reservations
      /\ AcknowledgedIsKept
  BY DEF IInv, Types
<1>3. \A w \in done : /\ journal[w].lsn \in Lsns /\ w \in Write
                      /\ Holds(w, journal[w].lsn) /\ journal[w].lsn <= commit
  BY DEF IInv, Types, Entries
<1>4. acked' \subseteq Reservations
  BY <1>1, <1>2, <1>3 DEF Reservations
<1>5. AcknowledgedIsKept'
  <2> SUFFICES ASSUME NEW a \in acked' PROVE Holds(a.op, a.lsn) /\ a.lsn <= commit
    BY DEF AcknowledgedIsKept, Holds, Applied
  <2>1. CASE a \in acked
    BY <1>2, <2>1 DEF AcknowledgedIsKept
  <2>2. CASE \E w \in done : a = [op |-> w, lsn |-> journal[w].lsn]
    BY <1>3, <2>2
  <2> QED
    BY Zenon, <1>1, <2>1, <2>2
<1> QED
  BY Zenon, <1>1, <1>2, <1>4, <1>5

-----------------------------------------------------------------------------
(* Each action preserves the invariant.                                     *)

(* Replicate preserves the invariant.                                       *)
LEMMA ReplicatePreserves ==
  ASSUME IInv, NEW w \in Write, Replicate(w)
  PROVE  IInv'
<1>1. /\ UNCHANGED <<durable, mode, local, log, acked>>
      /\ task = None /\ mode = "granted" /\ slot' = w /\ caller' = TRUE
      /\ task' = [Idle EXCEPT !.op = w, !.step = "begin", !.fresh = (slot = None)]
  BY DEF Replicate
<1>2. PICK f \in BOOLEAN : task' = [op |-> w, step |-> "begin", recovering |-> FALSE,
fresh |-> f, lsn |-> 0]
  BY Zenon, <1>1 DEF Idle
<1>3. task' \in Tasks /\ task' # None
  <2>1. 0 \in 0..MaxLsn
    BY LsnAssumption
  <2>2. task' \in Tasks
    BY <1>2, <2>1 DEF Tasks, Steps
  <2> QED
    BY <2>2, NoneAssumption
<1>4. Types'
  BY <1>1, <1>3 DEF IInv, Types, durable, log
<1>7. task'.op = w /\ task'.step = "begin" /\ task'.recovering = FALSE /\ w # None
  BY <1>2, WriteAssumption
<1>5. TaskFits' /\ CallerFits'
  BY <1>1, <1>3, <1>7 DEF TaskFits, CallerFits
<1>6. LocalFits' /\ (engine <= commit)' /\ JournalIsHonest' /\ AcknowledgedIsKept'
  BY Zenon, <1>1 DEF IInv, durable, log, LocalFits, JournalIsHonest, AcknowledgedIsKept, Holds,
     Applied
<1> QED
  BY <1>4, <1>5, <1>6 DEF IInv

(* DropCaller preserves the invariant.                                      *)
LEMMA DropCallerPreserves ==
  ASSUME IInv, DropCaller
  PROVE  IInv'
<1>1. /\ UNCHANGED <<durable, mode, local, log, slot, acked>> /\ caller' = FALSE /\ caller
      /\ task' = IF task # None /\ ~task.recovering /\ task.op # None THEN None ELSE task
  BY DEF DropCaller
<1>2. Types'
  BY Zenon, <1>1 DEF IInv, Types, durable, log
<1>3. task' = None \/ task' = task
  BY <1>1
<1>4. TaskFits'
  BY Zenon, <1>1, <1>3 DEF IInv, TaskFits, durable, Holds, Applied
<1>5. CallerFits'
  BY Zenon, <1>1, <1>3 DEF IInv, CallerFits
<1>6. LocalFits' /\ (engine <= commit)' /\ JournalIsHonest' /\ AcknowledgedIsKept'
  BY Zenon, <1>1 DEF IInv, durable, log, LocalFits, JournalIsHonest, AcknowledgedIsKept, Holds,
     Applied
<1> QED
  BY <1>2, <1>4, <1>5, <1>6 DEF IInv

(* Begin preserves the invariant.                                           *)
LEMMA BeginPreserves ==
  ASSUME IInv, Begin
  PROVE  IInv'
<1>1. /\ UNCHANGED <<durable, mode, local, next, waits, engine, peers>>
      /\ task # None /\ task.step = "begin" /\ task.op \in Write /\ task.op # None
  BY TaskFacts, WriteAssumption DEF Begin, At
<1>2. LocalFits' /\ (engine <= commit)' /\ JournalIsHonest'
  BY Zenon, <1>1 DEF IInv, durable, LocalFits, JournalIsHonest, Holds, Applied
<1>3. acked' = acked /\ AcknowledgedIsKept'
  BY Zenon, <1>1 DEF Begin, IInv, durable, AcknowledgedIsKept, Holds, Applied
<1>4. CASE \E c \in BOOLEAN : Fail(c) /\ UNCHANGED pend
  <2>1. /\ task' = None /\ caller' = FALSE /\ slot' \in Write \cup {None}
        /\ TaskFits' /\ CallerFits'
    BY Zenon, <1>1, <1>4, FailFacts
  <2>2. Types'
    BY Zenon, <1>1, <1>3, <1>4, <2>1 DEF IInv, Types, durable
  <2> QED
    BY <1>2, <1>3, <2>1, <2>2 DEF IInv
<1>5. CASE /\ journal[task.op] # None
           /\ task' = [task EXCEPT !.lsn = journal[task.op].lsn,
                          !.step = IF journal[task.op].phase = "committed" THEN "verify" ELSE "apply"]
           /\ UNCHANGED <<pend, slot, caller, acked>>
           /\ mode = "granted" \/ task.recovering
  <2>1. journal[task.op] \in Entries /\ journal[task.op].lsn \in Lsns
    BY Zenon, <1>1, <1>5 DEF IInv, Types, Entries
  <2>2. PICK k \in Lsns : k = journal[task.op].lsn
    BY <2>1
  <2>3. PICK x \in {"verify",
  "apply"} : x = IF journal[task.op].phase = "committed" THEN "verify" ELSE "apply"
    OBVIOUS
  <2>4. task' = [task EXCEPT !.lsn = k, !.step = x] /\ task \in Tasks
    BY <1>1, <1>5, <2>2, <2>3, TaskFacts
  <2>5. /\ task' \in Tasks /\ task' # None /\ task'.lsn = k /\ task'.step = x
        /\ task'.op = task.op /\ task'.recovering = task.recovering
    <3>1. x \in Steps
      BY <2>3 DEF Steps
    <3> QED
      <4>1. k \in 0..MaxLsn
        BY LsnAssumption DEF Lsns
      <4>2. task' \in Tasks
        BY Zenon, <2>4, <3>1, <4>1 DEF Tasks
      <4> QED
        BY Zenon, <2>4, <4>2, NoneAssumption DEF Tasks
  <2>10. /\ UNCHANGED <<pend, slot, caller, acked>> /\ journal[task.op] # None
         /\ mode = "granted" \/ task.recovering
    BY <1>5
  <2>6. Types'
    BY Zenon, <1>1, <2>10, <2>5 DEF IInv, Types, durable
  <2>7. x = "verify" => Holds(task.op, k)
    BY Zenon, <1>1, <2>2, <2>3, <1>5 DEF IInv, JournalIsHonest
  <2>8. TaskFits'
    BY Zenon, <1>1, <2>10, <2>2, <2>3, <2>5, <2>7 DEF TaskFits, durable, Holds, Applied
  <2>9. CallerFits'
    BY Zenon, <1>1, <2>10, <2>3, <2>5 DEF IInv, CallerFits, durable
  <2> QED
    BY <1>2, <1>3, <2>6, <2>8, <2>9 DEF IInv
<1>6. CASE /\ journal[task.op] = None /\ mode = "granted" /\ ~task.recovering
           /\ LET lsn == IF pend = None THEN next + 1 ELSE pend.lsn IN
                 /\ lsn \in Lsns
                 /\ pend' = [op |-> task.op, lsn |-> lsn]
                 /\ task' = [task EXCEPT !.step = "reserve", !.lsn = lsn]
           /\ UNCHANGED <<slot, caller, acked>>
  <2>2. PICK k \in Lsns : pend' = [op |-> task.op,
  lsn |-> k] /\ task' = [task EXCEPT !.step = "reserve", !.lsn = k]
    BY Zenon, <1>6
  <2>4. task \in Tasks
    BY <1>1, TaskFacts
  <2>5. /\ task' \in Tasks /\ task' # None /\ task'.lsn = k /\ task'.step = "reserve"
        /\ task'.op = task.op /\ task'.recovering = task.recovering
    <3>1. "reserve" \in Steps
      BY DEF Steps
    <3> QED
      <4>1. k \in 0..MaxLsn
        BY LsnAssumption DEF Lsns
      <4>2. task' \in Tasks
        BY Zenon, <2>2, <2>4, <3>1, <4>1 DEF Tasks
      <4> QED
        BY Zenon, <2>2, <2>4, <4>2, NoneAssumption DEF Tasks
  <2>7. /\ journal[task.op] = None /\ mode = "granted" /\ ~task.recovering
        /\ UNCHANGED <<slot, caller, acked>>
    BY <1>6
  <2>6. Types'
    <3>1. pend' \in Reservations
      BY <1>1, <2>2 DEF Reservations
    <3> QED
      BY Zenon, <1>1, <2>5, <2>7, <3>1 DEF IInv, Types, durable
  <2>8. TaskFits'
    BY <1>1, <2>5, <2>7 DEF TaskFits, durable
  <2>9. CallerFits'
    BY Zenon, <1>1, <2>5, <2>7 DEF IInv, CallerFits, durable
  <2> QED
    BY <1>2, <1>3, <2>6, <2>8, <2>9 DEF IInv
<1> QED
  <2>1. task.fresh \in BOOLEAN
    BY <1>1, TaskFacts DEF Tasks
  <2> QED
    BY Zenon, <1>4, <1>5, <1>6, <2>1 DEF Begin

(* Reserve preserves the invariant.                                         *)
LEMMA ReservePreserves ==
  ASSUME IInv, Reserve
  PROVE  IInv'
<1>1. /\ UNCHANGED <<store, commit, verified, mode, local, log, api>>
      /\ task # None /\ task.step = "reserve" /\ task.op \in Write /\ Goto("list")
      /\ journal' = [journal EXCEPT ![task.op] = [lsn |-> task.lsn, phase |-> "reserved"]]
      /\ journal[task.op] = None /\ task.lsn \in Lsns
      /\ local[task.op] = None
  BY Zenon, TaskFacts DEF Reserve, At, IInv, TaskFits, LocalFits
<1>2. /\ task' \in Tasks /\ task' # None /\ task'.step = "list"
      /\ task'.op = task.op /\ task'.recovering = task.recovering /\ task'.lsn = task.lsn
  BY Zenon, <1>1, GotoFacts DEF IInv, Steps
<1>3. [lsn |-> task.lsn, phase |-> "reserved"] \in Entries
  BY <1>1 DEF Entries, Phases
<1>4. Types'
  BY Zenon, <1>1, <1>2, <1>3 DEF IInv, Types, log, api
<1>5. /\ \A w \in Write \ {task.op} : journal'[w] = journal[w]
      /\ journal'[task.op] # None /\ journal'[task.op].lsn = task.lsn
      /\ journal'[task.op].phase = "reserved"
  BY Zenon, <1>1, <1>3, NoneAssumption DEF IInv, Types
<1>6. TaskFits'
  BY Zenon, <1>1, <1>2, <1>5, WriteAssumption DEF TaskFits
<1>7. LocalFits'
  BY Zenon, <1>1, <1>5 DEF IInv, LocalFits
<1>8. CallerFits'
  BY Zenon, <1>1, <1>2, WriteAssumption DEF IInv, CallerFits, At, api
<1>9. JournalIsHonest'
  BY ZenonT(60), <1>1, <1>5 DEF IInv, JournalIsHonest, Holds, Applied
<1>10. AcknowledgedIsKept' /\ (engine <= commit)'
  BY <1>1 DEF IInv, AcknowledgedIsKept, Holds, Applied, api, log
<1> QED
  BY <1>4, <1>6, <1>7, <1>8, <1>9, <1>10 DEF IInv

(* List preserves the invariant.                                            *)
LEMMA ListPreserves ==
  ASSUME IInv, List
  PROVE  IInv'
<1>1. /\ UNCHANGED <<durable, mode, log, api>>
      /\ task # None /\ task.step = "list" /\ task.op \in Write /\ Goto("apply")
      /\ local' = [local EXCEPT ![task.op] = journal[task.op]]
  BY TaskFacts DEF List, At
<1>2. /\ task' \in Tasks /\ task' # None /\ task'.step = "apply"
      /\ task'.op = task.op /\ task'.recovering = task.recovering /\ task'.lsn = task.lsn
  BY Zenon, <1>1, GotoFacts DEF IInv, Steps
<1>4. Types'
  BY Zenon, <1>1, <1>2 DEF IInv, Types, log, api, durable
<1>6. TaskFits'
  BY Zenon, <1>1, <1>2, WriteAssumption DEF IInv, TaskFits, durable
<1>7. LocalFits'
  BY Zenon, <1>1 DEF IInv, LocalFits, Types, durable
<1>8. CallerFits'
  BY Zenon, <1>1, <1>2, WriteAssumption DEF IInv, CallerFits, At, api
<1>10. AcknowledgedIsKept' /\ (engine <= commit)' /\ JournalIsHonest'
  BY Zenon, <1>1 DEF IInv, AcknowledgedIsKept, JournalIsHonest, Holds, Applied, api, log, durable
<1> QED
  BY <1>4, <1>6, <1>7, <1>8, <1>10 DEF IInv

(* Apply preserves the invariant: a write that is applied, or found at its  *)
(* LSN, is held there.                                                      *)
LEMMA ApplyPreserves ==
  ASSUME IInv, Apply
  PROVE  IInv'
<1>1. /\ UNCHANGED <<journal, commit, verified, mode, local, log, acked>>
      /\ task # None /\ task.step = "apply" /\ task.op \in Write /\ task.lsn \in Lsns
      /\ store \in Seq(Write \cup {Foreign})
  BY Zenon, TaskFacts DEF Apply, At, IInv, TaskFits, Types
<1>2. StoreGrows
  BY Zenon, <1>1 DEF Apply, StoreGrows
<1>3. store' \in Seq(Write \cup {Foreign}) /\ JournalIsHonest' /\ AcknowledgedIsKept'
  BY <1>1, <1>2, HoldsStays, SettledStays DEF IInv, Types
<1>4. LocalFits' /\ (engine <= commit)'
  BY <1>1 DEF IInv, LocalFits, log
<1>5. CASE Fail(FALSE)
  <2>1. /\ task' = None /\ caller' = FALSE /\ slot' \in Write \cup {None}
        /\ TaskFits' /\ CallerFits'
    BY Zenon, <1>1, <1>5, FailFacts
  <2>2. Types'
    BY Zenon, <1>1, <1>3, <2>1 DEF IInv, Types, log
  <2> QED
    BY <1>3, <1>4, <2>1, <2>2 DEF IInv
<1>6. CASE /\ Goto("verify") /\ UNCHANGED <<slot, caller>>
           /\ \/ Applied >= task.lsn /\ store[task.lsn] = task.op /\ store' = store
              \/ Applied + 1 = task.lsn /\ store' = Append(store, task.op)
  <2>1. /\ task' \in Tasks /\ task' # None /\ task'.step = "verify"
        /\ task'.op = task.op /\ task'.recovering = task.recovering /\ task'.lsn = task.lsn
    BY Zenon, <1>1, <1>6, GotoFacts DEF IInv, Steps
  <2>2. Types'
    BY Zenon, <1>1, <1>3, <1>6, <2>1 DEF IInv, Types, log
  <2>3. task.lsn <= Len(store') /\ store'[task.lsn] = task.op
    BY <1>1, <1>6, LsnAssumption, AppendProperties DEF Applied, Lsns
  <2>4. TaskFits'
    BY Zenon, <1>1, <2>1, <2>3, WriteAssumption DEF IInv, TaskFits, Holds, Applied
  <2>5. CallerFits'
    BY Zenon, <1>1, <1>6, <2>1, WriteAssumption DEF IInv, CallerFits, At
  <2> QED
    BY <1>3, <1>4, <2>2, <2>4, <2>5 DEF IInv
<1> QED
  BY Zenon, <1>5, <1>6 DEF Apply

(* Verify preserves the invariant.                                          *)
LEMMA VerifyPreserves ==
  ASSUME IInv, Verify
  PROVE  IInv'
<1>1. /\ UNCHANGED <<journal, store, commit, mode, local, log, api>>
      /\ task # None /\ task.step = "verify" /\ task.op \in Write /\ task.lsn \in Lsns
      /\ journal[task.op] # None /\ journal[task.op].lsn = task.lsn /\ Holds(task.op, task.lsn)
  BY Zenon, TaskFacts DEF Verify, At, IInv, TaskFits
<1>2. PICK s \in {"restore", "seal", "register"} :
         /\ Goto(s)
         /\ s = "restore" => journal[task.op].phase = "committed"
         /\ s = "seal" => commit >= task.lsn
  BY DEF Verify
<1>3. /\ task' \in Tasks /\ task' # None /\ task'.step = s
      /\ task'.op = task.op /\ task'.recovering = task.recovering /\ task'.lsn = task.lsn
  BY Zenon, <1>1, <1>2, GotoFacts DEF IInv, Steps
<1>4. Types'
  <2>1. verified' \in Nat
    BY <1>1, LsnAssumption DEF Verify, IInv, Types, Lsns
  <2> QED
    BY Zenon, <1>1, <1>3, <2>1 DEF IInv, Types, log, api
<1>5. s \in {"restore", "seal"} => task.lsn <= commit
  BY Zenon, <1>1, <1>2, LsnAssumption DEF IInv, JournalIsHonest, Types, Lsns
<1>6. TaskFits'
  BY Zenon, <1>1, <1>2, <1>3, <1>5, WriteAssumption DEF TaskFits, Holds, Applied
<1>7. CallerFits'
  BY Zenon, <1>1, <1>2, <1>3, WriteAssumption DEF IInv, CallerFits, At, api
<1>8. LocalFits' /\ AcknowledgedIsKept' /\ (engine <= commit)' /\ JournalIsHonest'
  BY Zenon, <1>1 DEF IInv, LocalFits, AcknowledgedIsKept, JournalIsHonest, Holds, Applied, api, log
<1> QED
  BY <1>4, <1>6, <1>7, <1>8 DEF IInv

(* A phase that is written for a write that the application holds keeps     *)
(* the journal honest and the table in memory behind it.                    *)
LEMMA PhaseFacts ==
  ASSUME IInv, NEW w \in Write, NEW p \in {"registered", "committed"},
         journal' = [journal EXCEPT ![w].phase = p], UNCHANGED <<store, commit, local>>,
         journal[w] # None, Holds(w, journal[w].lsn),
         p = "committed" => journal[w].lsn <= commit
  PROVE  /\ journal' \in [Write -> Entries \cup {None}]
         /\ \A v \in Write \ {w} : journal'[v] = journal[v]
         /\ journal'[w] # None /\ journal'[w].lsn = journal[w].lsn /\ journal'[w].phase = p
         /\ LocalFits' /\ JournalIsHonest'
<1>1. journal \in [Write -> Entries \cup {None}] /\ journal[w] \in Entries
  BY DEF IInv, Types
<1>2. [journal[w] EXCEPT !.phase = p] \in Entries
  BY <1>1 DEF Entries, Phases
<1>3. journal' = [journal EXCEPT ![w] = [journal[w] EXCEPT !.phase = p]]
  OBVIOUS
<1>4. journal' \in [Write -> Entries \cup {None}] /\ journal'[w] = [journal[w] EXCEPT !.phase = p]
  BY <1>1, <1>2, <1>3
<1>5. \A v \in Write \ {w} : journal'[v] = journal[v]
  BY <1>1, <1>3
<1>6. journal'[w] # None /\ journal'[w].lsn = journal[w].lsn /\ journal'[w].phase = p
  BY <1>1, <1>2, <1>4, NoneAssumption DEF Entries
<1>7. LocalFits'
  BY <1>5, <1>6 DEF IInv, LocalFits
<1>8. JournalIsHonest'
  BY ZenonT(60), <1>5, <1>6 DEF IInv, JournalIsHonest, Holds, Applied
<1> QED
  BY <1>4, <1>5, <1>6, <1>7, <1>8

(* Seal preserves the invariant.                                            *)
LEMMA SealPreserves ==
  ASSUME IInv, Seal
  PROVE  IInv'
<1>1. /\ UNCHANGED <<store, commit, verified, mode, local, log, api>>
      /\ task # None /\ task.step = "seal" /\ task.op \in Write /\ task.lsn \in Lsns
      /\ journal[task.op] # None /\ journal[task.op].lsn = task.lsn /\ Holds(task.op, task.lsn)
      /\ task.lsn <= commit /\ Goto("restore")
      /\ journal' = [journal EXCEPT ![task.op].phase = "committed"]
  BY Zenon, TaskFacts DEF Seal, At, IInv, TaskFits
<1>2. /\ journal' \in [Write -> Entries \cup {None}]
      /\ journal'[task.op] # None /\ journal'[task.op].lsn = task.lsn
      /\ LocalFits' /\ JournalIsHonest'
  BY Zenon, <1>1, PhaseFacts
<1>3. /\ task' \in Tasks /\ task' # None /\ task'.step = "restore"
      /\ task'.op = task.op /\ task'.recovering = task.recovering /\ task'.lsn = task.lsn
  BY Zenon, <1>1, GotoFacts DEF IInv, Steps
<1>4. Types'
  BY Zenon, <1>1, <1>2, <1>3 DEF IInv, Types, log, api
<1>5. TaskFits'
  BY Zenon, <1>1, <1>2, <1>3, WriteAssumption DEF TaskFits, Holds, Applied
<1>6. CallerFits'
  BY Zenon, <1>1, <1>3, WriteAssumption DEF IInv, CallerFits, At, api
<1>7. AcknowledgedIsKept' /\ (engine <= commit)'
  BY <1>1 DEF IInv, AcknowledgedIsKept, Holds, Applied, api, log
<1> QED
  BY <1>2, <1>4, <1>5, <1>6, <1>7 DEF IInv

(* Register preserves the invariant.                                        *)
LEMMA RegisterPreserves ==
  ASSUME IInv, Register
  PROVE  IInv'
<1>1. /\ UNCHANGED <<store, commit, verified, mode, local, log, api>>
      /\ task # None /\ task.step = "register" /\ task.op \in Write /\ task.lsn \in Lsns
      /\ journal[task.op] # None /\ journal[task.op].lsn = task.lsn /\ Holds(task.op, task.lsn)
      /\ Goto("enlist")
      /\ journal' = [journal EXCEPT ![task.op].phase = "registered"]
  BY Zenon, TaskFacts DEF Register, At, IInv, TaskFits
<1>2. /\ journal' \in [Write -> Entries \cup {None}]
      /\ journal'[task.op] # None /\ journal'[task.op].lsn = task.lsn
      /\ journal'[task.op].phase = "registered"
      /\ LocalFits' /\ JournalIsHonest'
  BY Zenon, <1>1, PhaseFacts
<1>3. /\ task' \in Tasks /\ task' # None /\ task'.step = "enlist"
      /\ task'.op = task.op /\ task'.recovering = task.recovering /\ task'.lsn = task.lsn
  BY Zenon, <1>1, GotoFacts DEF IInv, Steps
<1>4. Types'
  BY Zenon, <1>1, <1>2, <1>3 DEF IInv, Types, log, api
<1>5. TaskFits'
  BY Zenon, <1>1, <1>2, <1>3, WriteAssumption DEF TaskFits, Holds, Applied
<1>6. CallerFits'
  BY Zenon, <1>1, <1>3, WriteAssumption DEF IInv, CallerFits, At, api
<1>7. AcknowledgedIsKept' /\ (engine <= commit)'
  BY <1>1 DEF IInv, AcknowledgedIsKept, Holds, Applied, api, log
<1> QED
  BY <1>2, <1>4, <1>5, <1>6, <1>7 DEF IInv

(* Restore preserves the invariant: the write it reports is committed.      *)
LEMMA RestorePreserves ==
  ASSUME IInv, Restore
  PROVE  IInv'
<1>1. /\ UNCHANGED <<journal, store, commit, verified, mode>>
      /\ task # None /\ task.step = "restore" /\ task.op \in Write /\ task.lsn \in Lsns
      /\ journal[task.op] # None /\ journal[task.op].lsn = task.lsn /\ Holds(task.op, task.lsn)
      /\ task.lsn <= commit
  BY Zenon, TaskFacts DEF Restore, At, IInv, TaskFits, durable
<1>2. JournalIsHonest'
  BY Zenon, <1>1 DEF IInv, JournalIsHonest, Holds, Applied
<1>3. CASE Fail(FALSE) /\ UNCHANGED <<local, log, acked>>
  <2>1. /\ task' = None /\ caller' = FALSE /\ slot' \in Write \cup {None}
        /\ TaskFits' /\ CallerFits'
    BY Zenon, <1>1, <1>3, FailFacts
  <2>2. Types'
    BY Zenon, <1>1, <1>3, <2>1 DEF IInv, Types, log
  <2>3. LocalFits' /\ (engine <= commit)' /\ AcknowledgedIsKept'
    BY Zenon, <1>1, <1>3 DEF IInv, LocalFits, log, AcknowledgedIsKept, Holds, Applied
  <2> QED
    BY <1>2, <2>1, <2>2, <2>3 DEF IInv
<1>4. CASE /\ pend' = None /\ engine' = Max({engine, task.lsn}) /\ peers' = peers
           /\ waits' = {l \in waits : l > task.lsn}
           /\ local' = [local EXCEPT ![task.op] = None]
           /\ task' = None
           /\ IF task.recovering THEN UNCHANGED api
              ELSE Complete({task.lsn} \cup (waits \ waits'))
  <2>1. engine' \in Nat /\ engine' <= commit
    <3>1. engine \in Nat /\ engine <= commit /\ task.lsn \in Nat
      BY <1>1, LsnAssumption DEF IInv, Types, Lsns
    <3> QED
      BY <1>1, <1>4, <3>1, MaxOfTwo
  <2>2. LocalFits'
    BY Zenon, <1>1, <1>4 DEF IInv, LocalFits, Types
  <2>3. /\ AcknowledgedIsKept' /\ acked' \subseteq Reservations
        /\ slot' \in Write \cup {None} /\ caller' = FALSE
    <3>1. CASE task.recovering
      BY Zenon, <1>1, <1>4, <3>1 DEF api, IInv, CallerFits, Types, AcknowledgedIsKept, Holds,
         Applied
    <3>2. CASE ~task.recovering
      <4>1. caller /\ slot = task.op
        BY Zenon, <1>1, <3>2, WriteAssumption DEF IInv, CallerFits
      <4>2. PICK L : L = {task.lsn} \cup (waits \ waits')
        BY Zenon
      <4>3. Complete(L)
        BY <1>4, <3>2, <4>2
      <4>4. /\ AcknowledgedIsKept' /\ acked' \subseteq Reservations
            /\ slot' \in Write \cup {None} /\ caller' \in BOOLEAN
            /\ caller' => /\ caller /\ slot' = slot
                          /\ slot \in Write /\ journal[slot] # None => journal[slot].lsn \notin L
        BY Zenon, <1>1, <4>1, <4>3, CompleteFacts
      <4> QED
        BY Zenon, <1>1, <4>1, <4>2, <4>4
    <3> QED
      BY Zenon, <3>1, <3>2
  <2>4. Types'
    BY Zenon, <1>1, <1>4, <2>1, <2>3 DEF IInv, Types
  <2>5. TaskFits' /\ CallerFits'
    BY <1>4, <2>3 DEF TaskFits, CallerFits
  <2> QED
    BY <1>1, <1>2, <2>1, <2>2, <2>3, <2>4, <2>5 DEF IInv
<1> QED
  BY Zenon, <1>3, <1>4 DEF Restore

(* Enlist preserves the invariant: the caller either waits for an LSN the   *)
(* engine holds, or is told of a write below the engine's commit point.     *)
LEMMA EnlistPreserves ==
  ASSUME IInv, Enlist
  PROVE  IInv'
<1>1. /\ UNCHANGED <<journal, store, commit, verified, mode, engine, peers>>
      /\ task # None /\ task.step = "enlist" /\ task.op \in Write /\ task.lsn \in Lsns
      /\ journal[task.op] # None /\ journal[task.op].lsn = task.lsn /\ Holds(task.op, task.lsn)
      /\ journal[task.op].phase # "reserved" /\ task \in Tasks
      /\ local' = [local EXCEPT ![task.op] = journal[task.op]]
  BY Zenon, TaskFacts DEF Enlist, At, IInv, TaskFits, durable
<1>2. JournalIsHonest' /\ (engine <= commit)' /\ LocalFits'
      /\ local' \in [Write -> Entries \cup {None}]
  BY Zenon, <1>1 DEF IInv, JournalIsHonest, Holds, Applied, LocalFits, Types
<1>3. CASE Fail(FALSE) /\ UNCHANGED <<pend, next, waits, acked>>
  <2>1. /\ task' = None /\ caller' = FALSE /\ slot' \in Write \cup {None}
        /\ TaskFits' /\ CallerFits'
    BY Zenon, <1>1, <1>3, FailFacts
  <2>2. Types'
    BY Zenon, <1>1, <1>2, <1>3, <2>1 DEF IInv, Types
  <2>3. AcknowledgedIsKept'
    BY Zenon, <1>1, <1>3 DEF IInv, AcknowledgedIsKept, Holds, Applied
  <2> QED
    BY <1>2, <2>1, <2>2, <2>3 DEF IInv
<1>4. CASE /\ pend' = None
           /\ task' = [task EXCEPT !.step = "commit", !.op = None]
           /\ IF task.lsn <= engine
              THEN waits' = waits /\ Complete({task.lsn})
              ELSE waits' = waits \cup {task.lsn} /\ UNCHANGED api
  <2>1. /\ task' \in Tasks /\ task' # None /\ task'.step = "commit" /\ task'.op = None
        /\ task'.recovering = task.recovering /\ task'.lsn = task.lsn
    <3>1. task' \in Tasks
      BY Zenon, <1>1, <1>4 DEF Tasks, Steps
    <3> QED
      BY Zenon, <1>1, <1>4, <3>1, NoneAssumption DEF Tasks
  <2>2. TaskFits'
    BY <2>1 DEF TaskFits
  <2>3. mode = "granted" \/ ~caller
    BY Zenon, <1>1 DEF IInv, CallerFits, At
  <2>4. task.recovering => ~caller
    BY Zenon, <1>1 DEF IInv, CallerFits
  <2>5. ~task.recovering => caller /\ slot = task.op
    BY Zenon, <1>1, WriteAssumption DEF IInv, CallerFits
  <2>6. task.recovering \in BOOLEAN /\ slot \in Write \cup {None} /\ caller \in BOOLEAN
    BY Zenon, <1>1 DEF Tasks, IInv, Types
  <2>7. CASE task.lsn <= engine
    <3>1. task.lsn <= commit
      BY <1>1, <2>7, LsnAssumption DEF IInv, Types, Lsns
    <3>2. Complete({task.lsn}) /\ waits' = waits
      BY <1>4, <2>7
    <3>3. /\ AcknowledgedIsKept' /\ acked' \subseteq Reservations
          /\ slot' \in Write \cup {None} /\ caller' \in BOOLEAN
          /\ caller' => /\ caller /\ slot' = slot
                        /\ slot \in Write /\ journal[slot] # None => journal[slot].lsn \notin {task.lsn}
      BY Zenon, <1>1, <2>4, <2>5, <2>6, <3>1, <3>2, CompleteFacts
    <3>4. caller' = FALSE
      BY Zenon, <1>1, <2>4, <2>5, <2>6, <3>3
    <3>5. Types'
      BY Zenon, <1>1, <1>2, <1>4, <2>1, <3>2, <3>3 DEF IInv, Types
    <3>6. CallerFits'
      BY <2>1, <3>4 DEF CallerFits
    <3> QED
      BY <1>2, <2>2, <3>3, <3>5, <3>6 DEF IInv
  <2>8. CASE ~(task.lsn <= engine)
    <3>1. waits' = waits \cup {task.lsn} /\ UNCHANGED <<slot, caller, acked>>
      BY <1>4, <2>8 DEF api
    <3>2. AcknowledgedIsKept'
      BY Zenon, <1>1, <3>1 DEF IInv, AcknowledgedIsKept, Holds, Applied
    <3>3. Types'
      BY Zenon, <1>1, <1>2, <1>4, <2>1, <3>1 DEF IInv, Types
    <3>4. CallerFits'
      BY Zenon, <1>1, <2>1, <2>3, <2>4, <2>5, <2>6, <3>1, WriteAssumption DEF CallerFits
    <3> QED
      BY <1>2, <2>2, <3>2, <3>3, <3>4 DEF IInv
  <2> QED
    BY <2>7, <2>8
<1> QED
  BY Zenon, <1>3, <1>4 DEF Enlist

(* Acknowledge preserves the invariant.                                     *)
LEMMA AcknowledgePreserves ==
  ASSUME IInv, NEW lsn \in Lsns, Acknowledge(lsn)
  PROVE  IInv'
<1>1. /\ UNCHANGED <<durable, mode, local, pend, next, waits, engine, api>>
      /\ task = None /\ peers' = lsn /\ task' = [Idle EXCEPT !.step = "commit"]
  BY DEF Acknowledge
<1>2. task' = [op |-> None, step |-> "commit", recovering |-> FALSE, fresh |-> FALSE, lsn |-> 0]
  BY Zenon, <1>1 DEF Idle
<1>3. task' \in Tasks /\ task' # None /\ task'.step = "commit" /\ task'.op = None
      /\ task'.recovering = FALSE
  <2>1. 0 \in 0..MaxLsn
    BY LsnAssumption
  <2>2. task' \in Tasks
    BY <1>2, <2>1 DEF Tasks, Steps
  <2> QED
    BY Zenon, <1>2, <2>2, NoneAssumption
<1>4. Types'
  BY <1>1, <1>3, LsnAssumption DEF IInv, Types, durable, api, Lsns
<1>5. TaskFits'
  BY <1>3 DEF TaskFits
<1>6. CallerFits'
  BY Zenon, <1>1, <1>3 DEF IInv, CallerFits, At, durable, api
<1>7. LocalFits' /\ (engine <= commit)' /\ JournalIsHonest' /\ AcknowledgedIsKept'
  BY Zenon, <1>1 DEF IInv, durable, api, LocalFits, JournalIsHonest, AcknowledgedIsKept, Holds,
     Applied
<1> QED
  BY <1>4, <1>5, <1>6, <1>7 DEF IInv

(* What the commit step chooses: the highest ready LSN, if there is one.    *)
LEMMA ReadyFacts ==
  ASSUME IInv
  PROVE  /\ Ready # {} => Max(Ready) \in Ready /\ Max(Ready) \in Lsns
         /\ Max({commit} \cup Ready) \in Nat /\ Max({commit} \cup Ready) >= commit
         /\ Max({commit} \cup Ready) \in {commit} \cup Ready
         /\ Ready # {} => Max(Ready) <= Max({commit} \cup Ready)
<1>1. Ready \subseteq Lsns /\ commit \in Nat
  BY DEF Ready, IInv, Types
<1>2. PICK n \in Nat : n >= MaxLsn /\ n >= commit
  BY <1>1, LsnAssumption
<1>3. Ready \in SUBSET (0..n) /\ {commit} \cup Ready \in SUBSET (0..n)
  BY <1>1, <1>2, LsnAssumption DEF Lsns
<1>4. /\ Max({commit} \cup Ready) \in {commit} \cup Ready
      /\ \A y \in {commit} \cup Ready : y <= Max({commit} \cup Ready)
  BY Zenon, <1>3, MaxFacts
<1>5. Ready # {} => Max(Ready) \in Ready
  BY Zenon, <1>3, MaxFacts
<1>6. PICK m : m = Max({commit} \cup Ready)
  OBVIOUS
<1>7. m \in {commit} \cup Ready /\ commit <= m /\ \A y \in Ready : y <= m
  BY <1>4, <1>6
<1>8. m \in Nat
  BY <1>1, <1>7, LsnAssumption DEF Lsns
<1> QED
  BY <1>1, <1>5, <1>6, <1>7, <1>8

(* Commit preserves the invariant.                                          *)
LEMMA CommitPreserves ==
  ASSUME IInv, Commit
  PROVE  IInv'
<1>1. /\ UNCHANGED <<journal, store, verified, mode, local, log, api>>
      /\ task # None /\ task.step = "commit" /\ task \in Tasks /\ task.op = None
      /\ commit' = Max({commit} \cup Ready)
      /\ task' = IF Ready = {} THEN None ELSE [task EXCEPT !.step = "record", !.lsn = Max(Ready)]
  BY TaskFacts DEF Commit, At, IInv, TaskFits
<1>2. commit' \in Nat /\ commit' >= commit /\ StoreGrows
  BY <1>1, ReadyFacts DEF StoreGrows
<1>3. JournalIsHonest' /\ AcknowledgedIsKept'
  BY <1>1, <1>2, SettledStays DEF api
<1>4. LocalFits' /\ (engine <= commit)'
  BY <1>1, <1>2 DEF IInv, LocalFits, log, Types
<1>5. CASE task' = None
  <2>1. Types'
    BY <1>1, <1>2, <1>5 DEF IInv, Types, log, api
  <2>2. TaskFits' /\ CallerFits'
    BY Zenon, <1>1, <1>5 DEF IInv, TaskFits, CallerFits, At, log, api
  <2> QED
    BY <1>3, <1>4, <2>1, <2>2 DEF IInv
<1>6. CASE Ready # {}
  <2>1. PICK k \in Lsns : k = Max(Ready) /\ k <= commit'
    BY <1>1, <1>6, ReadyFacts
  <2>2. task' = [task EXCEPT !.step = "record", !.lsn = k]
    BY <1>1, <1>6, <2>1
  <2>3. /\ task' \in Tasks /\ task' # None /\ task'.step = "record" /\ task'.op = None
        /\ task'.recovering = task.recovering /\ task'.lsn = k
    <3>1. k \in 0..MaxLsn
      BY LsnAssumption DEF Lsns
    <3>2. task' \in Tasks
      BY Zenon, <1>1, <2>2, <3>1 DEF Tasks, Steps
    <3> QED
      BY Zenon, <1>1, <2>2, <3>2, NoneAssumption DEF Tasks
  <2>4. Types'
    BY Zenon, <1>1, <1>2, <2>3 DEF IInv, Types, log, api
  <2>5. TaskFits'
    BY <2>1, <2>3 DEF TaskFits
  <2>6. CallerFits'
    BY Zenon, <1>1, <2>3 DEF IInv, CallerFits, At, log, api
  <2> QED
    BY <1>3, <1>4, <2>4, <2>5, <2>6 DEF IInv
<1> QED
  BY <1>1, <1>5, <1>6

(* Record preserves the invariant: a write it records as committed was      *)
(* registered, and the application has committed it.                        *)
LEMMA RecordPreserves ==
  ASSUME IInv, Record
  PROVE  IInv'
<1>1. /\ UNCHANGED <<store, commit, verified, mode, local, log, api>>
      /\ task # None /\ task.step = "record" /\ task.op = None /\ task.lsn \in 0..MaxLsn
      /\ task.lsn <= commit /\ Goto("finish")
      /\ journal' = [w \in Write |->
                      IF w \in Finalizable THEN [journal[w] EXCEPT !.phase = "committed"]
                      ELSE journal[w]]
  BY TaskFacts DEF Record, At, IInv, TaskFits
<1>2. /\ task' \in Tasks /\ task' # None /\ task'.step = "finish"
      /\ task'.op = task.op /\ task'.recovering = task.recovering /\ task'.lsn = task.lsn
  BY Zenon, <1>1, GotoFacts DEF IInv, Steps
<1>3. ASSUME NEW w \in Finalizable
      PROVE  /\ w \in Write /\ journal[w] \in Entries /\ journal[w].phase # "reserved"
             /\ Holds(w, journal[w].lsn) /\ journal[w].lsn <= commit
  <2>1. /\ w \in Write /\ local[w] # None /\ local[w].phase = "registered"
        /\ local[w].lsn <= task.lsn
    BY DEF Finalizable
  <2>2. /\ journal[w] # None /\ journal[w].lsn = local[w].lsn /\ journal[w].phase # "reserved"
        /\ journal[w] \in Entries
    BY <2>1 DEF IInv, LocalFits, Types
  <2>3. journal[w].lsn \in Nat /\ task.lsn \in Nat /\ commit \in Nat
    BY <1>1, <2>2, LsnAssumption DEF Entries, Lsns, IInv, Types
  <2> QED
    BY <1>1, <2>1, <2>2, <2>3 DEF IInv, JournalIsHonest
<1>4. \A w \in Finalizable : /\ journal'[w] \in Entries /\ journal'[w].lsn = journal[w].lsn
                             /\ journal'[w].phase = "committed" /\ journal'[w] # None
                             /\ journal[w] # None
  <2> SUFFICES ASSUME NEW w \in Finalizable
               PROVE  /\ journal'[w] \in Entries /\ journal'[w].lsn = journal[w].lsn
                      /\ journal'[w].phase = "committed" /\ journal'[w] # None
                      /\ journal[w] # None
    OBVIOUS
  <2>1. journal'[w] = [journal[w] EXCEPT !.phase = "committed"] /\ journal[w] \in Entries
    BY <1>1, <1>3
  <2>2. journal'[w] \in Entries
    BY <2>1 DEF Entries, Phases
  <2> QED
    BY <2>1, <2>2, NoneAssumption DEF Entries
<1>5. \A w \in Write \ Finalizable : journal'[w] = journal[w]
  BY <1>1
<1>6. Types'
  <2>1. journal' \in [Write -> Entries \cup {None}]
    <3>1. \A w \in Write : journal'[w] \in Entries \cup {None}
      BY <1>4, <1>5 DEF IInv, Types
    <3>2. journal' = [w \in Write |-> journal'[w]]
      BY <1>1
    <3> QED
      BY <3>1, <3>2
  <2> QED
    BY Zenon, <1>1, <1>2, <2>1 DEF IInv, Types, log, api
<1>7. JournalIsHonest'
  <2> SUFFICES ASSUME NEW w \in Write, journal'[w] # None
               PROVE  /\ journal'[w].phase # "reserved" => Holds(w, journal'[w].lsn)
                      /\ journal'[w].phase = "committed" => journal'[w].lsn <= commit
    BY Zenon, <1>1 DEF JournalIsHonest, Holds, Applied
  <2>1. CASE w \in Finalizable
    BY <1>3, <1>4, <2>1
  <2>2. CASE w \notin Finalizable
    BY <1>5, <2>2 DEF IInv, JournalIsHonest
  <2> QED
    BY <2>1, <2>2
<1>8. LocalFits'
  BY Zenon, <1>1, <1>4, <1>5 DEF IInv, LocalFits
<1>9. TaskFits'
  BY <1>1, <1>2 DEF TaskFits
<1>10. CallerFits'
  <2>1. slot \in Write \cup {None}
    BY DEF IInv, Types
  <2>2. ASSUME caller
        PROVE  slot # None /\ journal'[slot] # None
               /\ journal'[slot].phase # "reserved" /\ journal'[slot].lsn \in waits
    BY Zenon, <1>1, <1>4, <1>5, <2>1, <2>2 DEF IInv, CallerFits
  <2> QED
    BY <1>1, <1>2, <2>2 DEF IInv, CallerFits, At, log, api
<1>11. AcknowledgedIsKept' /\ (engine <= commit)'
  BY <1>1 DEF IInv, AcknowledgedIsKept, Holds, Applied, log, api
<1> QED
  BY <1>6, <1>7, <1>8, <1>9, <1>10, <1>11 DEF IInv

(* Finish preserves the invariant: every LSN it completes is committed.     *)
LEMMA FinishPreserves ==
  ASSUME IInv, Finish
  PROVE  IInv'
<1>1. /\ UNCHANGED <<journal, store, commit, verified, mode, pend, peers>>
      /\ task # None /\ task.step = "finish" /\ task.op = None /\ task.lsn \in 0..MaxLsn
      /\ task.lsn <= commit /\ task' = None
      /\ engine' = Max({engine, task.lsn})
      /\ waits' = {lsn \in waits : lsn > task.lsn} /\ Complete(waits \ waits')
      /\ local' = [w \in Write |-> IF w \in Finalizable THEN None ELSE local[w]]
  BY Zenon, TaskFacts DEF Finish, At, IInv, TaskFits, durable
<1>2. PICK L : L = waits \ waits'
  BY Zenon
<1>3. Complete(L) /\ waits \subseteq Lsns /\ commit \in Nat
  BY Zenon, <1>1, <1>2 DEF IInv, Types
<1>4. caller => /\ slot # None /\ journal[slot] # None
                /\ journal[slot].phase # "reserved" /\ journal[slot].lsn \in waits
  BY Zenon, <1>1 DEF IInv, CallerFits
<1>5. ASSUME caller, slot \in Write, journal[slot] # None, journal[slot].lsn \in L
      PROVE  Holds(slot, journal[slot].lsn) /\ journal[slot].lsn <= commit
  <2>1. Holds(slot, journal[slot].lsn)
    BY <1>4, <1>5 DEF IInv, JournalIsHonest
  <2>2. PICK k \in Lsns : k = journal[slot].lsn /\ ~(k > task.lsn)
    BY <1>1, <1>2, <1>3, <1>5
  <2> QED
    BY <1>1, <1>3, <2>1, <2>2, LsnAssumption DEF Lsns
<1>6. /\ AcknowledgedIsKept' /\ acked' \subseteq Reservations
      /\ slot' \in Write \cup {None} /\ caller' \in BOOLEAN
      /\ caller' => /\ caller /\ slot' = slot
                    /\ slot \in Write /\ journal[slot] # None => journal[slot].lsn \notin L
  BY Zenon, <1>1, <1>3, <1>5, CompleteFacts
<1>7. engine' \in Nat /\ engine' <= commit
  <2>1. engine \in Nat /\ engine <= commit /\ task.lsn \in Nat
    BY <1>1, LsnAssumption DEF IInv, Types
  <2> QED
    BY <1>1, <2>1, MaxOfTwo
<1>8. Types'
  <2>1. local' \in [Write -> Entries \cup {None}]
    BY Zenon, <1>1 DEF IInv, Types
  <2> QED
    BY Zenon, <1>1, <1>6, <1>7, <2>1 DEF IInv, Types
<1>9. LocalFits' /\ JournalIsHonest'
  BY Zenon, <1>1 DEF IInv, LocalFits, JournalIsHonest, Holds, Applied
<1>10. TaskFits'
  BY Zenon, <1>1 DEF TaskFits
<1>11. CallerFits'
  <2>1. slot \in Write \cup {None}
    BY DEF IInv, Types
  <2>2. caller => mode = "granted"
    BY Zenon, <1>1 DEF IInv, CallerFits, At
  <2> QED
    BY Zenon, <1>1, <1>2, <1>4, <1>6, <2>1, <2>2 DEF CallerFits
<1> QED
  BY Zenon, <1>1, <1>6, <1>7, <1>8, <1>9, <1>10, <1>11 DEF IInv

(* Restart preserves the invariant: only the journal and the application    *)
(* survive, and the table in memory is read from the journal.               *)
LEMMA RestartPreserves ==
  ASSUME IInv, Restart
  PROVE  IInv'
<1>1. /\ UNCHANGED <<journal, store, commit, verified, acked>>
      /\ mode' \in {"closed", "secondary"}
      /\ local' = [w \in Write |-> IF w \in Unresolved(journal) THEN journal[w] ELSE None]
      /\ pend' = None /\ waits' = {} /\ engine' = 0 /\ peers' = 0
      /\ slot' = None /\ caller' = FALSE /\ task' = None
  BY DEF Restart, durable
<1>2. Types'
  <2>1. local' \in [Write -> Entries \cup {None}]
    BY <1>1 DEF IInv, Types
  <2> QED
    BY Zenon, <1>1, <2>1 DEF IInv, Types
<1>3. LocalFits'
  BY Zenon, <1>1 DEF LocalFits, IInv, Types
<1>4. TaskFits' /\ CallerFits'
  BY <1>1 DEF TaskFits, CallerFits
<1>5. (engine <= commit)' /\ JournalIsHonest' /\ AcknowledgedIsKept'
  BY <1>1 DEF IInv, Types, JournalIsHonest, AcknowledgedIsKept, Holds, Applied
<1> QED
  BY <1>2, <1>3, <1>4, <1>5 DEF IInv

(* A new authority leaves a caller only to a pass that has not begun.       *)
LEMMA ReadmitFacts ==
  ASSUME IInv, Readmit, UNCHANGED journal
  PROVE  /\ pend' = None /\ waits' = {} /\ peers' = 0 /\ task' = task /\ acked' = acked
         /\ slot' \in Write \cup {None} /\ caller' \in BOOLEAN
         /\ TaskFits' /\ CallerFits'
<1>1. /\ pend' = None /\ waits' = {} /\ peers' = 0 /\ task' = task /\ acked' = acked
      /\ task = None \/ (task # None /\ task.step = "begin")
      /\ slot' = IF caller /\ task = None THEN None ELSE slot
      /\ caller' = (caller /\ task # None)
  BY DEF Readmit, At
<1>2. slot' \in Write \cup {None} /\ caller' \in BOOLEAN
  BY <1>1 DEF IInv, Types
<1>3. TaskFits'
  BY Zenon, <1>1 DEF IInv, TaskFits
<1>4. CASE task = None
  <2>1. caller' = FALSE /\ task' = None
    BY Zenon, <1>1, <1>4
  <2>2. CallerFits'
    BY <2>1 DEF CallerFits, At
  <2> QED
    BY <1>1, <1>2, <1>3, <2>2
<1>5. CASE task # None
  <2>1. caller' = caller /\ slot' = slot /\ task' = task /\ task.step = "begin"
    BY <1>1, <1>5 DEF IInv, Types
  <2>2. task.op # None /\ task.recovering \in BOOLEAN
    BY <1>5, <2>1, TaskFacts, WriteAssumption
  <2>3. CallerFits'
    BY Zenon, <1>5, <2>1, <2>2 DEF IInv, CallerFits, At
  <2> QED
    BY <1>1, <1>2, <1>3, <2>3
<1> QED
  BY <1>4, <1>5

(* Demote preserves the invariant.                                          *)
LEMMA DemotePreserves ==
  ASSUME IInv, Demote
  PROVE  IInv'
<1>1. /\ UNCHANGED <<journal, store, commit, local, engine>> /\ Readmit /\ mode' = "secondary"
      /\ verified' \in commit..Applied
  BY DEF Demote
<1>2. verified' \in Nat
  BY <1>1 DEF IInv, Types, Applied
<1>3. /\ pend' = None /\ waits' = {} /\ peers' = 0 /\ task' = task /\ acked' = acked
      /\ slot' \in Write \cup {None} /\ caller' \in BOOLEAN
      /\ TaskFits' /\ CallerFits'
  BY <1>1, ReadmitFacts
<1>4. Types'
  BY <1>1, <1>2, <1>3 DEF IInv, Types
<1>5. LocalFits' /\ (engine <= commit)' /\ JournalIsHonest' /\ AcknowledgedIsKept'
  BY Zenon, <1>1, <1>3 DEF IInv, LocalFits, JournalIsHonest, AcknowledgedIsKept, Holds, Applied
<1> QED
  BY <1>3, <1>4, <1>5 DEF IInv

(* The prefix that a promotion settles: it never lowers the commit point,   *)
(* and when it raises it, it stays below every unresolved local write.      *)
LEMMA SettledFacts ==
  ASSUME Types, NEW p \in Nat
  PROVE  /\ Settled(p) \in Nat /\ Settled(p) >= commit
         /\ \A w \in Unresolved(local) :
               local[w].lsn \in Lsns /\ (Settled(p) > commit => Settled(p) < local[w].lsn)
<1> DEFINE unresolved == {local[w].lsn : w \in Unresolved(local)}
           S == {p} \cup {lsn - 1 : lsn \in unresolved}
<1>1. \A w \in Unresolved(local) : local[w].lsn \in Lsns
  BY DEF Types, Unresolved, Entries
<1>2. S \in SUBSET Nat /\ S # {}
  <2>1. \A lsn \in unresolved : lsn - 1 \in Nat
    BY <1>1, LsnAssumption DEF Lsns
  <2> QED
    BY <2>1
<1>3. Min(S) \in S /\ \A y \in S : Min(S) <= y
  <2> HIDE DEF S
  <2> QED
    BY <1>2, MinFacts
<1>4. Settled(p) = Max({commit, Min(S)})
  BY DEF Settled
<1>5. commit \in Nat /\ Min(S) \in Nat
  BY Zenon, <1>2, <1>3 DEF Types
<1>6. Settled(p) \in Nat /\ Settled(p) \in {commit, Min(S)} /\ Settled(p) >= commit
  <2> HIDE DEF S
  <2> QED
    BY <1>4, <1>5, MaxOfTwo
<1>7. ASSUME NEW w \in Unresolved(local), Settled(p) > commit
      PROVE  Settled(p) < local[w].lsn
  <2>1. Min(S) <= local[w].lsn - 1
    BY Zenon, <1>3
  <2> HIDE DEF S
  <2> QED
    BY <1>1, <1>5, <1>6, <1>7, <2>1, LsnAssumption DEF Lsns
<1> QED
  BY <1>1, <1>6, <1>7

(* Promote preserves the invariant.                                         *)
LEMMA PromotePreserves ==
  ASSUME IInv, Promote
  PROVE  IInv'
<1>1. PICK p : p = IF mode = "closed" THEN verified ELSE Applied
  OBVIOUS
<1>2. /\ UNCHANGED <<journal, store, local>> /\ Readmit /\ mode' = "primary" /\ verified' = p
      /\ commit' = Settled(p) /\ engine' = Max({engine, Settled(p)})
  BY <1>1 DEF Promote
<1>3. p \in Nat
  BY <1>1 DEF IInv, Types, Applied
<1>4. commit' \in Nat /\ commit' >= commit
  BY <1>2, <1>3, SettledFacts DEF IInv
<1>5. engine' \in Nat /\ engine' <= commit'
  <2>1. engine \in Nat /\ engine <= commit /\ commit \in Nat
    BY DEF IInv, Types
  <2> QED
    BY <1>2, <1>4, <2>1, MaxOfTwo
<1>6. /\ pend' = None /\ waits' = {} /\ peers' = 0 /\ task' = task /\ acked' = acked
      /\ slot' \in Write \cup {None} /\ caller' \in BOOLEAN
  BY <1>2, ReadmitFacts
<1>7. TaskFits' /\ CallerFits'
  BY <1>2, ReadmitFacts
<1>8. Types'
  BY Zenon, <1>2, <1>3, <1>4, <1>5, <1>6 DEF IInv, Types
<1>9. JournalIsHonest' /\ AcknowledgedIsKept'
  BY <1>2, <1>4, <1>6, SettledStays DEF StoreGrows
<1>10. LocalFits'
  BY <1>2 DEF IInv, LocalFits
<1> QED
  BY <1>5, <1>7, <1>8, <1>9, <1>10 DEF IInv

(* ReceiveReplication preserves the invariant.                              *)
LEMMA ReceiveReplicationPreserves ==
  ASSUME IInv, ReceiveReplication
  PROVE  IInv'
<1>1. /\ UNCHANGED <<journal, mode, local, log, api, task>>
      /\ store' = IF verified = Applied THEN Append(store, Foreign) ELSE store
      /\ verified' = verified + 1 /\ commit' \in commit..verified /\ task = None
  BY DEF ReceiveReplication
<1>2. StoreGrows
  BY <1>1 DEF StoreGrows
<1>3. commit' \in Nat /\ commit' >= commit /\ verified' \in Nat
  BY <1>1 DEF IInv, Types
<1>4. store' \in Seq(Write \cup {Foreign}) /\ JournalIsHonest' /\ AcknowledgedIsKept'
  BY <1>1, <1>2, <1>3, HoldsStays, SettledStays DEF IInv, api
<1>5. Types'
  BY Zenon, <1>1, <1>3, <1>4 DEF IInv, Types, log, api
<1>6. LocalFits' /\ TaskFits' /\ CallerFits'
  BY Zenon, <1>1 DEF IInv, LocalFits, TaskFits, CallerFits, At, log, api
<1>7. (engine <= commit)'
  BY <1>1, <1>3 DEF IInv, Types, log
<1> QED
  BY <1>4, <1>5, <1>6, <1>7 DEF IInv

(* Recover preserves the invariant: no caller waits while a grant recovers. *)
LEMMA RecoverPreserves ==
  ASSUME IInv, NEW w \in Write, Recover(w)
  PROVE  IInv'
<1>1. /\ UNCHANGED <<durable, mode, local, log, api>>
      /\ task = None /\ mode = "primary"
      /\ task' = [Idle EXCEPT !.op = w, !.step = "begin", !.recovering = TRUE]
  BY DEF Recover
<1>2. task' = [op |-> w, step |-> "begin", recovering |-> TRUE, fresh |-> FALSE, lsn |-> 0]
  BY Zenon, <1>1 DEF Idle
<1>3. task' \in Tasks /\ task' # None /\ task'.step = "begin" /\ task'.op = w /\ w # None
      /\ task'.recovering = TRUE
  <2>1. 0 \in 0..MaxLsn
    BY LsnAssumption
  <2>2. task' \in Tasks
    BY <1>2, <2>1 DEF Tasks, Steps
  <2> QED
    BY Zenon, <1>2, <2>2, NoneAssumption, WriteAssumption
<1>4. Types'
  BY <1>1, <1>3 DEF IInv, Types, durable, log, api
<1>5. TaskFits'
  BY <1>3 DEF TaskFits
<1>6. ~caller /\ caller' = caller
  BY <1>1 DEF IInv, CallerFits, At, api
<1>7. CallerFits'
  BY <1>3, <1>6 DEF CallerFits
<1>8. LocalFits' /\ (engine <= commit)' /\ JournalIsHonest' /\ AcknowledgedIsKept'
  BY Zenon, <1>1 DEF IInv, durable, log, api, LocalFits, JournalIsHonest, AcknowledgedIsKept,
     Holds, Applied
<1> QED
  BY <1>4, <1>5, <1>7, <1>8 DEF IInv

(* PublishAccess preserves the invariant.                                   *)
LEMMA PublishAccessPreserves ==
  ASSUME IInv, PublishAccess
  PROVE  IInv'
<1>1. UNCHANGED <<durable, local, log, api, task>> /\ mode' = "granted"
  BY DEF PublishAccess
<1>2. Types'
  BY <1>1 DEF IInv, Types, durable, log, api
<1>3. TaskFits' /\ CallerFits'
  BY Zenon, <1>1 DEF IInv, TaskFits, CallerFits, durable, log, api, Holds, Applied
<1>4. LocalFits' /\ (engine <= commit)' /\ JournalIsHonest' /\ AcknowledgedIsKept'
  BY Zenon, <1>1 DEF IInv, durable, log, api, LocalFits, JournalIsHonest, AcknowledgedIsKept,
     Holds, Applied
<1> QED
  BY <1>2, <1>3, <1>4 DEF IInv

-----------------------------------------------------------------------------
(* The theorems.                                                            *)

(* The invariant holds initially.                                           *)
LEMMA InitInvariant == Init => IInv
<1> SUFFICES ASSUME Init PROVE IInv
  OBVIOUS
<1>1. Types
  <2>1. store \in Seq(Write \cup {Foreign})
    BY EmptySeq DEF Init
  <2> QED
    BY Zenon, <2>1 DEF Init, Types, Nothing
<1>2. LocalFits /\ JournalIsHonest
  BY DEF Init, LocalFits, JournalIsHonest, Nothing
<1>3. TaskFits /\ CallerFits /\ engine <= commit /\ AcknowledgedIsKept
  BY DEF Init, TaskFits, CallerFits, AcknowledgedIsKept
<1> QED
  BY <1>1, <1>2, <1>3 DEF IInv

(* Every step preserves the invariant.                                      *)
LEMMA NextInvariant == IInv /\ [Next]_vars => IInv'
<1> SUFFICES ASSUME IInv, [Next]_vars PROVE IInv'
  OBVIOUS
<1>1. CASE Step
  BY <1>1, BeginPreserves, ReservePreserves, ListPreserves, ApplyPreserves, VerifyPreserves,
     SealPreserves, RestorePreserves, RegisterPreserves, EnlistPreserves, CommitPreserves,
     RecordPreserves, FinishPreserves DEF Step
<1>2. CASE Grant
  BY <1>2, PromotePreserves, PublishAccessPreserves, RecoverPreserves DEF Grant
<1>3. CASE \E w \in Write : Replicate(w)
  BY <1>3, ReplicatePreserves
<1>4. CASE \E lsn \in Lsns : Acknowledge(lsn)
  BY <1>4, AcknowledgePreserves
<1>5. CASE DropCaller \/ Restart \/ Demote \/ ReceiveReplication
  BY Zenon, <1>5, DropCallerPreserves, RestartPreserves, DemotePreserves, ReceiveReplicationPreserves
<1>6. CASE UNCHANGED vars
  BY <1>6 DEF vars, durable, log, api, IInv, Types, LocalFits, TaskFits, CallerFits, At,
     JournalIsHonest, AcknowledgedIsKept, Holds, Applied
<1> QED
  BY <1>1, <1>2, <1>3, <1>4, <1>5, <1>6 DEF Next

(* The invariant holds in every behaviour.                                  *)
LEMMA Invariance == Spec => []IInv
BY InitInvariant, NextInvariant, PTL DEF Spec

(* Whatever crashes, dropped callers and changes of primary there are, an   *)
(* acknowledged write stays committed in the application at the LSN the     *)
(* caller was told (replicate's result).                                    *)
THEOREM AcknowledgedWritesAreKept == Spec => []AcknowledgedIsKept
<1>1. IInv => AcknowledgedIsKept
  BY DEF IInv
<1> QED
  BY <1>1, Invariance, PTL

(* The durable journal never runs ahead of the application, so what         *)
(* complete_open reads after a crash can be trusted.                        *)
THEOREM JournalStaysHonest == Spec => []JournalIsHonest
<1>1. IInv => JournalIsHonest
  BY DEF IInv
<1> QED
  BY <1>1, Invariance, PTL

(* One step of a primary commits an unresolved write of its own only below  *)
(* the LSN a quorum is known to hold.                                       *)
LEMMA CommitNeedsQuorum ==
  ASSUME IInv, [Next]_vars, NEW w \in Unresolved(local), mode # "secondary",
         commit < local[w].lsn, local[w].lsn <= commit'
  PROVE  local[w].lsn <= peers
<1>1. commit \in Nat /\ peers \in Nat /\ w \in Write /\ local[w].lsn \in Lsns /\ local[w].lsn \in Nat
  BY LsnAssumption DEF IInv, Types, Unresolved, Entries, Lsns
<1>2. commit' # commit
  BY <1>1
<1>3. CASE Commit
  <2>1. commit' = Max({commit} \cup Ready)
    BY <1>3 DEF Commit
  <2>2. commit' \in Ready
    BY <1>2, <2>1, ReadyFacts
  <2> QED
    BY <1>1, <2>2, LsnAssumption DEF Ready, IInv, Types, Lsns
<1>4. CASE Promote
  <2>1. PICK p : p = IF mode = "closed" THEN verified ELSE Applied
    OBVIOUS
  <2>2. commit' = Settled(p) /\ p \in Nat
    BY Zenon, <1>4, <2>1 DEF Promote, IInv, Types, Applied
  <2>3. Settled(p) \in Nat /\ Settled(p) >= commit
        /\ (Settled(p) > commit => Settled(p) < local[w].lsn)
    BY <2>2, SettledFacts DEF IInv
  <2> QED
    BY <1>1, <1>2, <2>2, <2>3
<1>5. CASE ReceiveReplication
  BY <1>5 DEF ReceiveReplication
<1>6. CASE UNCHANGED commit
  BY <1>2, <1>6
<1> QED
  <2>1. \/ Commit \/ Promote \/ ReceiveReplication \/ UNCHANGED commit
    BY Zenon DEF Next, Step, Grant, vars, durable, Begin, Reserve, List, Apply, Verify, Seal,
       Restore,
       Register, Enlist, Record, Finish, PublishAccess, Recover, Replicate, Acknowledge,
       DropCaller, Restart, Demote
  <2> QED
    BY <1>3, <1>4, <1>5, <1>6, <2>1

(* A primary commits a local write of its own only when a quorum holds it:  *)
(* finalize_ready_commit and settle_primary_prefix both respect it.         *)
THEOREM CommitsHaveQuorum == Spec => LocalCommitsHaveQuorum
<1>1. IInv /\ [Next]_vars =>
        [\A w \in Unresolved(local) :
            mode # "secondary" /\ commit < local[w].lsn /\ local[w].lsn <= commit'
                => local[w].lsn <= peers]_vars
  BY CommitNeedsQuorum
<1> QED
  BY <1>1, Invariance, PTL DEF Spec, LocalCommitsHaveQuorum

=============================================================================
