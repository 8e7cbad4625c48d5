----------------------- MODULE InProcTransportProofs -----------------------
(***************************************************************************)
(* The in-process transport implements its channels and loses no wake-up,  *)
(* for every world size, every number of threads and of messages.          *)
(*                                                                         *)
(* IInv is inductive: MutexInv makes the critical sections exclusive, so   *)
(* what wait's predicate saw is still in the queue when the recv pops      *)
(* (CallInv).  NoLostWakeup is inductive relative to it: a message is      *)
(* covered by the sender that is still to notify or by a receiver that is  *)
(* awake, and every step that takes one of these away takes the message    *)
(* away or puts another in its place.                                      *)
(***************************************************************************)
EXTENDS InProcTransport, FiniteSetTheorems, TLAPS

-----------------------------------------------------------------------------
(* The inductive invariant behind the safety properties.                   *)

\* Where a thread can be, and what its locals and its last result can hold.
LocalInv ==
  LET Copies == [from : Threads, k : Nat, len : Lens] \cup {None}
  IN  /\ pc \in [Threads -> {"idle", "push_lock", "push", "notify",
                             "lock", "test", "pop", "copy"}]
      /\ idx \in [Threads -> Grid \cup {None}]
      /\ len \in [Threads -> WantLens \cup {None}]
      /\ bytes \in [Threads -> Copies]
      /\ nsent \in [Threads -> Nat]
      /\ last \in [Threads -> {"none", "sent", "received", "bad_alloc",
                               "out_of_range", "size_mismatch"} \X Copies]
      /\ cv \in [Grid -> SUBSET Threads]

\* A thread holds no mutex but that of its channel, and that in its critical
\* section only.
MutexInv ==
  \A i \in Grid, t \in Threads :
    mu[i] = t => idx[t] = i /\ pc[t] \in {"push", "test", "pop"}

\* A send is on a channel from its rank with its next message, a recv on one to
\* its rank; what wait's predicate saw is still there when the recv pops; the
\* locals of the other call are not in use.
CallInv ==
  \A t \in Threads :
    /\ pc[t] \in {"push_lock", "push", "notify"} =>
         \E dst \in Ranks : idx[t] = SendIdx(t, dst)
    /\ pc[t] \in {"push_lock", "push"} =>
         bytes[t] \in [from : {t}, k : {nsent[t] + 1}, len : Lens]
    /\ pc[t] \in {"lock", "test", "pop"} =>
         len[t] \in WantLens /\ \E src \in Ranks : idx[t] = RecvIdx(t, src)
    /\ pc[t] = "pop" => q[idx[t]] # <<>>
    /\ pc[t] \in {"idle", "push_lock", "push", "notify"} => len[t] = None
    /\ pc[t] \in {"idle", "lock", "test", "pop"} => bytes[t] = None

IInv ==
  /\ TypeOK
  /\ LocalInv
  /\ MutexInv
  /\ CallInv

-----------------------------------------------------------------------------
(* The grid of queues.                                                     *)

LEMMA RankType ==
  ASSUME NEW t \in Threads
  PROVE  RankOf(t) \in Ranks
BY TransportAssumption DEF RankOf, Ranks, Threads

\* Every pair of ranks has its queue.
LEMMA GridIndex ==
  ASSUME NEW a \in Ranks, NEW b \in Ranks
  PROVE  a * WorldSize + b \in Grid
<1>1. /\ a \in Nat /\ b \in Nat /\ WorldSize \in Nat
      /\ b <= WorldSize - 1 /\ (WorldSize - 1) - a \in Nat
  BY TransportAssumption DEF Ranks
<1>2. ((WorldSize - 1) - a) * WorldSize \in Nat /\ a * WorldSize \in Nat
  BY <1>1
<1>3. ((WorldSize - 1) - a) * WorldSize = WorldSize * WorldSize - WorldSize - a * WorldSize
  BY <1>1
<1>4. WorldSize * WorldSize \in Nat
  BY <1>1
<1> DEFINE x == a * WorldSize
           y == WorldSize * WorldSize
           z == ((WorldSize - 1) - a) * WorldSize
<1>5. x \in Nat /\ y \in Nat /\ z \in Nat /\ z = y - WorldSize - x
  BY <1>2, <1>3, <1>4
<1> HIDE DEF x, y, z
<1>6. x + b \in 0 .. (y - 1)
  BY <1>1, <1>5
<1> QED BY <1>6 DEF x, y, Grid

LEMMA CallIndex ==
  ASSUME NEW t \in Threads, NEW p \in Ranks
  PROVE  SendIdx(t, p) \in Grid /\ RecvIdx(t, p) \in Grid
BY RankType, GridIndex DEF SendIdx, RecvIdx

LEMMA NoneFacts == None \notin Threads /\ None \notin Grid /\ None \notin WantLens
<1>1. Threads \subseteq Int /\ Grid \subseteq Int /\ WantLens \subseteq Int
  BY TransportAssumption DEF Threads, Grid
<1> QED BY <1>1, TransportAssumption

\* A push makes one more message possible and no message impossible.
LEMMA MessagesGrow ==
  ASSUME LocalInv, NEW t \in Threads, nsent' = [nsent EXCEPT ![t] = @ + 1]
  PROVE  /\ Messages \subseteq Messages'
         /\ [from : {t}, k : {nsent[t] + 1}, len : Lens] \subseteq Messages'
<1>1. nsent \in [Threads -> Nat]
  BY DEF LocalInv
<1>2. \A u \in Threads : MessageOf(u) \subseteq MessageOf(u)'
  <2> SUFFICES ASSUME NEW u \in Threads PROVE MessageOf(u) \subseteq MessageOf(u)'
    OBVIOUS
  <2>1. 1 .. nsent[u] \subseteq 1 .. nsent'[u]
    BY <1>1
  <2> QED BY <2>1 DEF MessageOf
<1>3. [from : {t}, k : {nsent[t] + 1}, len : Lens] \subseteq MessageOf(t)'
  <2>1. nsent[t] + 1 \in 1 .. nsent'[t]
    BY <1>1
  <2> QED BY <2>1 DEF MessageOf
<1>4. Threads' = Threads
  BY DEF Threads
<1>5. Messages \subseteq Messages'
  BY <1>2 DEF Messages
<1>6. MessageOf(t)' \subseteq Messages'
  BY DEF Messages
<1> QED BY <1>3, <1>5, <1>6

LEMMA MessagesSame ==
  ASSUME nsent' = nsent
  PROVE  Messages' = Messages
BY DEF Messages, MessageOf

LEMMA MessageType ==
  ASSUME LocalInv
  PROVE  Messages \subseteq [from : Threads, k : Nat, len : Lens]
<1>1. \A u \in Threads : 1 .. nsent[u] \subseteq Nat
  BY DEF LocalInv
<1> QED BY <1>1 DEF Messages, MessageOf

-----------------------------------------------------------------------------
(* The invariant, action by action.                                        *)

LEMMA SendKeeps ==
  ASSUME IInv, NEW t \in Threads, NEW dst, NEW l \in Lens, Send(t, dst, l)
  PROVE  IInv'
<1> USE DEF IInv
<1>0. /\ pc[t] = "idle" /\ UNCHANGED <<mu, q, cv, nsent>> /\ Messages' = Messages
  BY MessagesSame DEF Send
<1>1. CASE \E r \in {"out_of_range", "bad_alloc"} : Return(t, r, None)
  <2>1. TypeOK'
    BY <1>0, <1>1, NoneFacts DEF TypeOK, LocalInv, MutexInv, Return, Goto
  <2>2. LocalInv'
    BY <1>0, <1>1 DEF LocalInv, Return, Goto
  <2>3. MutexInv'
    BY <1>0, <1>1 DEF LocalInv, MutexInv, Return, Goto
  <2>4. CallInv'
    BY <1>0, <1>1 DEF LocalInv, CallInv, Return, Goto
  <2> QED BY <2>1, <2>2, <2>3, <2>4
<1>2. CASE /\ dst \in Ranks
           /\ idx' = [idx EXCEPT ![t] = SendIdx(t, dst)]
           /\ bytes' = [bytes EXCEPT ![t] = [from |-> t, k |-> nsent[t] + 1, len |-> l]]
           /\ Goto(t, "push_lock")
           /\ last' = [last EXCEPT ![t] = Nothing]
           /\ UNCHANGED len
  <2>0. SendIdx(t, dst) \in Grid
    BY <1>2, CallIndex
  <2>1. TypeOK'
    BY <1>0, <1>2, <2>0, NoneFacts DEF TypeOK, LocalInv, MutexInv, Goto
  <2>2. LocalInv'
    BY <1>0, <1>2, <2>0 DEF LocalInv, Goto, Nothing
  <2>3. MutexInv'
    BY <1>0, <1>2 DEF LocalInv, MutexInv, Goto
  <2>4. CallInv'
    BY <1>0, <1>2 DEF LocalInv, CallInv, Goto
  <2> QED BY <2>1, <2>2, <2>3, <2>4
<1> QED BY <1>1, <1>2 DEF Send

LEMMA SendLockKeeps ==
  ASSUME IInv, NEW t \in Threads, SendLock(t)
  PROVE  IInv'
<1> USE DEF IInv
<1>0. Messages' = Messages
  BY MessagesSame DEF SendLock
<1>1. TypeOK'
  BY <1>0, NoneFacts DEF TypeOK, LocalInv, MutexInv, SendLock, Acquire, Goto
<1>2. LocalInv'
  BY DEF LocalInv, SendLock, Goto
<1>3. MutexInv'
  BY DEF TypeOK, LocalInv, MutexInv, SendLock, Acquire, Goto
<1>4. CallInv'
  BY DEF LocalInv, CallInv, SendLock, Goto
<1> QED BY <1>1, <1>2, <1>3, <1>4

LEMMA SendPushKeeps ==
  ASSUME IInv, NEW t \in Threads, SendPush(t)
  PROVE  IInv'
<1> USE DEF IInv
<1>0. pc[t] = "push" /\ Release(t) /\ UNCHANGED cv
  BY DEF SendPush
<1>1. CASE /\ q' = [q EXCEPT ![idx[t]] = Append(@, bytes[t])]
           /\ nsent' = [nsent EXCEPT ![t] = @ + 1]
           /\ Goto(t, "notify")
           /\ UNCHANGED <<idx, len, bytes, last>>
  <2>0. Messages \subseteq Messages' /\ bytes[t] \in Messages'
    BY <1>0, <1>1, MessagesGrow DEF CallInv
  <2>1. q' \in [Grid -> Seq(Messages')]
    <3>1. q \in [Grid -> Seq(Messages')]
      BY <2>0 DEF TypeOK
    <3>2. idx[t] \in Grid
      BY <1>0 DEF TypeOK
    <3>3. Append(q[idx[t]], bytes[t]) \in Seq(Messages')
      BY <2>0, <3>1, <3>2
    <3> QED BY <1>1, <3>1, <3>3
  <2>2. TypeOK'
    BY <1>0, <1>1, <2>0, <2>1, NoneFacts
    DEF TypeOK, LocalInv, MutexInv, Release, Goto
  <2>3. LocalInv'
    BY <1>0, <1>1 DEF LocalInv, Goto
  <2>4. MutexInv'
    BY <1>0, <1>1, NoneFacts DEF TypeOK, LocalInv, MutexInv, Release, Goto
  <2>5. CallInv'
    BY <1>0, <1>1, NoneFacts DEF TypeOK, LocalInv, CallInv, Goto
  <2> QED BY <2>2, <2>3, <2>4, <2>5
<1>2. CASE Return(t, "bad_alloc", None) /\ UNCHANGED <<q, nsent>>
  <2>0. Messages' = Messages
    BY <1>2, MessagesSame
  <2>1. TypeOK'
    BY <1>0, <1>2, <2>0, NoneFacts DEF TypeOK, LocalInv, MutexInv, Release, Return, Goto
  <2>2. LocalInv'
    BY <1>0, <1>2 DEF LocalInv, Return, Goto
  <2>3. MutexInv'
    BY <1>0, <1>2, NoneFacts DEF TypeOK, LocalInv, MutexInv, Release, Return, Goto
  <2>4. CallInv'
    BY <1>0, <1>2 DEF TypeOK, LocalInv, CallInv, Return, Goto
  <2> QED BY <2>1, <2>2, <2>3, <2>4
<1> QED BY <1>1, <1>2 DEF SendPush

LEMMA SendNotifyKeeps ==
  ASSUME IInv, NEW t \in Threads, SendNotify(t)
  PROVE  IInv'
<1> USE DEF IInv
<1>0. /\ pc[t] = "notify" /\ Return(t, "sent", None)
      /\ UNCHANGED <<mu, q, nsent>> /\ Messages' = Messages
  BY MessagesSame DEF SendNotify
<1>1. cv' \in [Grid -> SUBSET Threads] /\ \A i \in Grid : cv'[i] \subseteq cv[i]
  BY DEF LocalInv, SendNotify, Unblock
<1>2. TypeOK'
  BY <1>0, <1>1, NoneFacts DEF TypeOK, LocalInv, MutexInv, Return, Goto
<1>3. LocalInv'
  BY <1>0, <1>1 DEF LocalInv, Return, Goto
<1>4. MutexInv'
  BY <1>0, NoneFacts DEF TypeOK, LocalInv, MutexInv, Return, Goto
<1>5. CallInv'
  BY <1>0 DEF LocalInv, CallInv, Return, Goto
<1> QED BY <1>2, <1>3, <1>4, <1>5

LEMMA RecvKeeps ==
  ASSUME IInv, NEW t \in Threads, NEW src, NEW l \in WantLens, Recv(t, src, l)
  PROVE  IInv'
<1> USE DEF IInv
<1>0. /\ pc[t] = "idle" /\ UNCHANGED <<mu, q, cv, nsent>> /\ Messages' = Messages
  BY MessagesSame DEF Recv
<1>1. CASE Return(t, "out_of_range", None)
  <2>1. TypeOK'
    BY <1>0, <1>1, NoneFacts DEF TypeOK, LocalInv, MutexInv, Return, Goto
  <2>2. LocalInv'
    BY <1>0, <1>1 DEF LocalInv, Return, Goto
  <2>3. MutexInv'
    BY <1>0, <1>1 DEF LocalInv, MutexInv, Return, Goto
  <2>4. CallInv'
    BY <1>0, <1>1 DEF LocalInv, CallInv, Return, Goto
  <2> QED BY <2>1, <2>2, <2>3, <2>4
<1>2. CASE /\ src \in Ranks
           /\ idx' = [idx EXCEPT ![t] = RecvIdx(t, src)]
           /\ len' = [len EXCEPT ![t] = l]
           /\ Goto(t, "lock")
           /\ last' = [last EXCEPT ![t] = Nothing]
           /\ UNCHANGED bytes
  <2>0. RecvIdx(t, src) \in Grid
    BY <1>2, CallIndex
  <2>1. TypeOK'
    BY <1>0, <1>2, <2>0, NoneFacts DEF TypeOK, LocalInv, MutexInv, Goto
  <2>2. LocalInv'
    BY <1>0, <1>2, <2>0 DEF LocalInv, Goto, Nothing
  <2>3. MutexInv'
    BY <1>0, <1>2 DEF LocalInv, MutexInv, Goto
  <2>4. CallInv'
    BY <1>0, <1>2 DEF LocalInv, CallInv, Goto
  <2> QED BY <2>1, <2>2, <2>3, <2>4
<1> QED BY <1>1, <1>2 DEF Recv

LEMMA RecvLockKeeps ==
  ASSUME IInv, NEW t \in Threads, RecvLock(t)
  PROVE  IInv'
<1> USE DEF IInv
<1>0. Messages' = Messages
  BY MessagesSame DEF RecvLock
<1>1. TypeOK'
  BY <1>0, NoneFacts DEF TypeOK, LocalInv, MutexInv, CallInv, RecvLock, Acquire, Goto
<1>2. LocalInv'
  BY DEF TypeOK, LocalInv, RecvLock, Acquire, Goto
<1>3. MutexInv'
  BY NoneFacts DEF TypeOK, LocalInv, MutexInv, RecvLock, Acquire, Goto
<1>4. CallInv'
  BY NoneFacts DEF TypeOK, LocalInv, CallInv, RecvLock, Acquire, Goto
<1> QED BY <1>1, <1>2, <1>3, <1>4

LEMMA RecvTestKeeps ==
  ASSUME IInv, NEW t \in Threads, RecvTest(t)
  PROVE  IInv'
<1> USE DEF IInv
<1>0. /\ pc[t] = "test" /\ UNCHANGED <<q, idx, len, bytes, nsent, last>>
      /\ Messages' = Messages /\ idx[t] \in Grid
  BY MessagesSame DEF RecvTest, TypeOK
<1>1. CASE /\ Release(t) /\ cv' = [cv EXCEPT ![idx[t]] = @ \cup {t}]
           /\ Goto(t, "lock")
  <2>1. TypeOK'
    BY <1>0, <1>1, NoneFacts DEF TypeOK, LocalInv, MutexInv, Release, Goto
  <2>2. LocalInv'
    BY <1>0, <1>1 DEF LocalInv, Goto
  <2>3. MutexInv'
    BY <1>0, <1>1, NoneFacts DEF TypeOK, LocalInv, MutexInv, Release, Goto
  <2>4. CallInv'
    BY <1>0, <1>1 DEF LocalInv, CallInv, Goto
  <2> QED BY <2>1, <2>2, <2>3, <2>4
<1>2. CASE q[idx[t]] # <<>> /\ Goto(t, "pop") /\ UNCHANGED <<mu, cv>>
  <2>1. TypeOK'
    BY <1>0, <1>2 DEF TypeOK, LocalInv, Goto
  <2>2. LocalInv'
    BY <1>0, <1>2 DEF LocalInv, Goto
  <2>3. MutexInv'
    BY <1>0, <1>2 DEF LocalInv, MutexInv, Goto
  <2>4. CallInv'
    BY <1>0, <1>2 DEF LocalInv, CallInv, Goto
  <2> QED BY <2>1, <2>2, <2>3, <2>4
<1> QED BY <1>1, <1>2 DEF RecvTest

LEMMA SpuriousWakeupKeeps ==
  ASSUME IInv, NEW t \in Threads, SpuriousWakeup(t)
  PROVE  IInv'
<1> USE DEF IInv
<1>0. Messages' = Messages
  BY MessagesSame DEF SpuriousWakeup
<1>1. TypeOK'
  BY <1>0, NoneFacts DEF TypeOK, LocalInv, MutexInv, CallInv, SpuriousWakeup, Unblock
<1>2. LocalInv'
  BY DEF TypeOK, LocalInv, SpuriousWakeup, Unblock
<1>3. MutexInv'
  BY NoneFacts DEF TypeOK, LocalInv, MutexInv, SpuriousWakeup, Unblock
<1>4. CallInv'
  BY NoneFacts DEF TypeOK, LocalInv, CallInv, SpuriousWakeup, Unblock
<1> QED BY <1>1, <1>2, <1>3, <1>4

LEMMA RecvPopKeeps ==
  ASSUME IInv, NEW t \in Threads, RecvPop(t)
  PROVE  IInv'
<1> USE DEF IInv
<1>0. Messages' = Messages
  BY MessagesSame DEF RecvPop
<1>1. TypeOK'
  BY <1>0, NoneFacts DEF TypeOK, LocalInv, MutexInv, CallInv, RecvPop, Release, Goto
<1>2. LocalInv'
  <2>1. idx[t] \in Grid /\ q[idx[t]] # <<>> /\ q[idx[t]] \in Seq(Messages)
    BY DEF RecvPop, TypeOK, CallInv
  <2>2. Head(q[idx[t]]) \in [from : Threads, k : Nat, len : Lens]
    BY <2>1, MessageType
  <2> QED BY <2>2 DEF LocalInv, RecvPop, Goto
<1>3. MutexInv'
  BY NoneFacts DEF TypeOK, LocalInv, MutexInv, RecvPop, Release, Goto
<1>4. CallInv'
  BY NoneFacts DEF TypeOK, LocalInv, CallInv, RecvPop, Release, Goto
<1> QED BY <1>1, <1>2, <1>3, <1>4

LEMMA RecvReturnKeeps ==
  ASSUME IInv, NEW t \in Threads, RecvReturn(t)
  PROVE  IInv'
<1> USE DEF IInv
<1>0. /\ pc[t] = "copy" /\ UNCHANGED <<mu, q, cv, nsent>> /\ Messages' = Messages
  BY MessagesSame DEF RecvReturn
<1>1. PICK r \in {"received", "size_mismatch"}, m \in {bytes[t], None} : Return(t, r, m)
  BY DEF RecvReturn
<1>2. TypeOK'
  BY <1>0, <1>1, NoneFacts DEF TypeOK, LocalInv, MutexInv, Return, Goto
<1>3. LocalInv'
  BY <1>0, <1>1 DEF LocalInv, Return, Goto
<1>4. MutexInv'
  BY <1>0, <1>1, NoneFacts DEF TypeOK, LocalInv, MutexInv, Return, Goto
<1>5. CallInv'
  BY <1>0, <1>1 DEF LocalInv, CallInv, Return, Goto
<1> QED BY <1>2, <1>3, <1>4, <1>5

\* All of the invariant, in every state.
THEOREM Invariance == Spec => []IInv
<1>1. Init => IInv
  <2> SUFFICES ASSUME Init PROVE IInv
    OBVIOUS
  <2> USE DEF Init
  <2>1. TypeOK
    BY NoneFacts DEF TypeOK
  <2>2. LocalInv
    BY DEF LocalInv, Nothing
  <2>3. MutexInv
    BY NoneFacts DEF MutexInv
  <2>4. CallInv
    BY DEF CallInv
  <2> QED BY <2>1, <2>2, <2>3, <2>4 DEF IInv
<1>2. IInv /\ [Next]_vars => IInv'
  <2> SUFFICES ASSUME IInv, [Next]_vars PROVE IInv'
    OBVIOUS
  <2>1. CASE UNCHANGED vars
    <3>1. Messages' = Messages
      BY <2>1, MessagesSame DEF vars
    <3>2. TypeOK'
      BY <2>1, <3>1 DEF vars, IInv, TypeOK
    <3>3. LocalInv' /\ MutexInv' /\ CallInv'
      BY <2>1 DEF vars, IInv, LocalInv, MutexInv, CallInv
    <3> QED BY <3>2, <3>3 DEF IInv
  <2>2. CASE Next
    <3>1. PICK t \in Threads : Calls(t) \/ Running(t) \/ SpuriousWakeup(t)
      BY <2>2 DEF Next
    <3>2. CASE Calls(t)
      BY <3>2, SendKeeps, RecvKeeps DEF Calls
    <3>3. CASE Running(t)
      BY <3>3, SendLockKeeps, SendPushKeeps, SendNotifyKeeps, RecvLockKeeps,
         RecvTestKeeps, RecvPopKeeps, RecvReturnKeeps DEF Running
    <3> QED BY <3>1, <3>2, <3>3, SpuriousWakeupKeeps
  <2> QED BY <2>1, <2>2
<1> QED BY <1>1, <1>2, PTL DEF Spec

\* Every variable keeps its type, and a mutex of the grid is owned by the one
\* thread that is inside its critical section.
THEOREM TypeSafety == Spec => []TypeOK
<1>1. IInv => TypeOK
  BY DEF IInv
<1> QED BY <1>1, Invariance, PTL

-----------------------------------------------------------------------------
(* No wake-up is lost.                                                     *)

\* The calls that account for a message of channel i.
Awake(i) ==
  {t \in Threads \ cv[i] : idx[t] = i /\ pc[t] \in {"notify", "lock", "test", "pop"}}

Covered(i) == cv[i] # {} => Len(q[i]) <= Cardinality(Awake(i))

LEMMA CardMono ==
  ASSUME NEW S, NEW T \in SUBSET Threads, S \subseteq T
  PROVE  /\ Cardinality(S) \in Nat /\ Cardinality(T) \in Nat
         /\ Cardinality(S) <= Cardinality(T)
<1>1. IsFiniteSet(Threads)
  BY FS_Interval, TransportAssumption DEF Threads
<1>2. IsFiniteSet(T)
  BY <1>1, FS_Subset
<1>3. IsFiniteSet(S) /\ Cardinality(S) <= Cardinality(T)
  BY <1>2, FS_Subset
<1> QED BY <1>2, <1>3, FS_CardinalityType

\* One more, one less, and one for another.
LEMMA CardStep ==
  ASSUME NEW S \in SUBSET Threads, NEW x \in Threads
  PROVE  /\ x \notin S => Cardinality(S \cup {x}) = Cardinality(S) + 1
         /\ x \in S => Cardinality(S \ {x}) = Cardinality(S) - 1
         /\ \A w \in Threads \ S :
              x \in S => Cardinality((S \ {x}) \cup {w}) = Cardinality(S)
<1>1. IsFiniteSet(Threads)
  BY FS_Interval, TransportAssumption DEF Threads
<1>2. IsFiniteSet(S) /\ IsFiniteSet(S \ {x})
  BY <1>1, FS_Subset
<1>3. Cardinality(S) \in Nat
  BY <1>2, FS_CardinalityType
<1>4. x \in S => Cardinality(S \ {x}) = Cardinality(S) - 1
  BY <1>2, FS_RemoveElement
<1>5. x \notin S => Cardinality(S \cup {x}) = Cardinality(S) + 1
  BY <1>2, FS_AddElement
<1>6. ASSUME NEW w \in Threads \ S, x \in S
      PROVE  Cardinality((S \ {x}) \cup {w}) = Cardinality(S)
  <2>1. Cardinality((S \ {x}) \cup {w}) = Cardinality(S \ {x}) + 1
    BY <1>2, <1>6, FS_AddElement
  <2> QED BY <2>1, <1>3, <1>4, <1>6
<1> QED BY <1>4, <1>5, <1>6

\* A step that leaves a queue alone, blocks nobody and takes no call away.
LEMMA StillCovered ==
  ASSUME NEW i \in Grid, Covered(i), q'[i] = q[i], cv'[i] \subseteq cv[i],
         Awake(i) \subseteq Awake(i)', q[i] \in Seq(Messages)
  PROVE  Covered(i)'
<1>1. Awake(i)' \in SUBSET Threads
  BY DEF Awake, Threads
<1>2. /\ Cardinality(Awake(i)) \in Nat /\ Cardinality(Awake(i)') \in Nat
      /\ Cardinality(Awake(i)) <= Cardinality(Awake(i)')
  BY <1>1, CardMono
<1>3. cv'[i] # {} => cv[i] # {}
  OBVIOUS
<1>4. Len(q[i]) \in Nat
  OBVIOUS
<1> QED BY <1>2, <1>3, <1>4 DEF Covered

\* A push adds a message and its notify_one.
LEMMA SendPushCovers ==
  ASSUME IInv, NEW t \in Threads, SendPush(t), NEW i \in Grid, Covered(i)
  PROVE  Covered(i)'
<1>0. /\ pc[t] = "push" /\ cv' = cv /\ idx[t] \in Grid
      /\ q \in [Grid -> Seq(Messages)] /\ t \notin cv[i]
  BY DEF SendPush, IInv, TypeOK
<1>1. CASE i # idx[t] \/ (Return(t, "bad_alloc", None) /\ q' = q)
  <2>1. Awake(i) \subseteq Awake(i)' /\ q'[i] = q[i]
    BY <1>0, <1>1, NoneFacts DEF SendPush, Awake, Return, Goto, IInv, LocalInv
  <2> QED BY <1>0, <2>1, StillCovered
<1>2. CASE /\ i = idx[t] /\ q' = [q EXCEPT ![idx[t]] = Append(@, bytes[t])]
           /\ Goto(t, "notify") /\ idx' = idx
  <2>1. Awake(i)' = Awake(i) \cup {t} /\ t \notin Awake(i)
    BY <1>0, <1>2 DEF Awake, Goto, IInv, LocalInv
  <2>2. Awake(i) \in SUBSET Threads
    BY DEF Awake
  <2>3. Cardinality(Awake(i)') = Cardinality(Awake(i)) + 1 /\ Cardinality(Awake(i)) \in Nat
    BY <2>1, <2>2, CardStep, CardMono
  <2>4. Len(q'[i]) = Len(q[i]) + 1 /\ Len(q[i]) \in Nat
    BY <1>0, <1>2
  <2> QED BY <1>0, <2>3, <2>4 DEF Covered
<1>3. \/ Return(t, "bad_alloc", None) /\ q' = q
      \/ /\ q' = [q EXCEPT ![idx[t]] = Append(@, bytes[t])]
         /\ Goto(t, "notify") /\ idx' = idx
  BY DEF SendPush
<1> QED BY <1>1, <1>2, <1>3

\* notify_one replaces the sender by the receiver it wakes.
LEMMA SendNotifyCovers ==
  ASSUME IInv, NEW t \in Threads, SendNotify(t), NEW i \in Grid, Covered(i)
  PROVE  Covered(i)'
<1>0. /\ pc[t] = "notify" /\ Return(t, "sent", None) /\ q' = q /\ idx[t] \in Grid
      /\ q \in [Grid -> Seq(Messages)] /\ t \notin cv[i]
  BY DEF SendNotify, IInv, TypeOK
<1>1. CASE i # idx[t]
  <2>1. Awake(i) \subseteq Awake(i)' /\ cv'[i] \subseteq cv[i]
    BY <1>0, <1>1 DEF SendNotify, Unblock, Awake, Return, Goto, IInv, LocalInv
  <2> QED BY <1>0, <2>1, StillCovered
<1>2. CASE i = idx[t] /\ cv[i] = {}
  BY <1>2 DEF SendNotify, Covered
<1>3. CASE i = idx[t] /\ cv[i] # {}
  <2>1. PICK w \in cv[i] : Unblock(i, w)
    BY <1>3 DEF SendNotify
  <2>2. w \in Threads /\ pc[w] = "lock" /\ idx[w] = i /\ w # t
    BY <1>0, <2>1 DEF IInv, LocalInv, TypeOK
  <2>3. Awake(i)' = (Awake(i) \ {t}) \cup {w}
    BY <1>0, <1>3, <2>1, <2>2, NoneFacts DEF Unblock, Awake, Return, Goto, IInv, LocalInv
  <2>4. t \in Awake(i) /\ w \notin Awake(i)
    BY <1>0, <1>3, <2>1 DEF Awake
  <2>5. Awake(i) \in SUBSET Threads
    BY DEF Awake
  <2>6. Cardinality(Awake(i)') = Cardinality(Awake(i))
    <3>1. w \in Threads \ Awake(i)
      BY <2>2, <2>4
    <3>2. Cardinality((Awake(i) \ {t}) \cup {w}) = Cardinality(Awake(i))
      BY <2>4, <2>5, <3>1, CardStep
    <3> QED BY <2>3, <3>2
  <2> QED BY <1>0, <1>3, <2>6 DEF Covered
<1> QED BY <1>1, <1>2, <1>3

\* A receiver blocks only while it holds the mutex and the queue is empty.
LEMMA RecvTestCovers ==
  ASSUME IInv, NEW t \in Threads, RecvTest(t), NEW i \in Grid, Covered(i)
  PROVE  Covered(i)'
<1>0. /\ pc[t] = "test" /\ UNCHANGED <<q, idx>> /\ idx[t] \in Grid
      /\ q \in [Grid -> Seq(Messages)]
  BY DEF RecvTest, IInv, TypeOK
<1>1. CASE i = idx[t] /\ q[i] = <<>>
  <2>1. Awake(i)' \in SUBSET Threads
    BY DEF Awake, Threads
  <2>2. Cardinality(Awake(i)') \in Nat
    BY <2>1, CardMono
  <2>3. Len(q'[i]) = 0
    BY <1>0, <1>1
  <2>4. \A n \in Nat : 0 <= n
    OBVIOUS
  <2> QED BY <2>2, <2>3, <2>4 DEF Covered
<1>2. CASE i # idx[t] \/ q[i] # <<>>
  <2>1. cv'[i] = cv[i] /\ Awake(i) \subseteq Awake(i)'
    BY <1>0, <1>2 DEF RecvTest, Awake, Goto, IInv, LocalInv
  <2> QED BY <1>0, <2>1, StillCovered
<1> QED BY <1>1, <1>2

\* The receiver that pops accounted for the message it takes.
LEMMA RecvPopCovers ==
  ASSUME IInv, NEW t \in Threads, RecvPop(t), NEW i \in Grid, Covered(i)
  PROVE  Covered(i)'
<1>0. /\ pc[t] = "pop" /\ UNCHANGED <<cv, idx>> /\ idx[t] \in Grid
      /\ q[idx[t]] # <<>>
      /\ q \in [Grid -> Seq(Messages)] /\ t \notin cv[i]
  BY DEF RecvPop, IInv, TypeOK, CallInv
<1>1. CASE i # idx[t]
  <2>1. Awake(i) \subseteq Awake(i)' /\ q'[i] = q[i]
    BY <1>0, <1>1 DEF RecvPop, Awake, Goto, IInv, LocalInv
  <2> QED BY <1>0, <2>1, StillCovered
<1>2. CASE i = idx[t]
  <2>1. Awake(i)' = Awake(i) \ {t} /\ t \in Awake(i)
    BY <1>0, <1>2 DEF RecvPop, Awake, Goto, IInv, LocalInv
  <2>2. Awake(i) \in SUBSET Threads
    BY DEF Awake
  <2>3. Cardinality(Awake(i)') = Cardinality(Awake(i)) - 1 /\ Cardinality(Awake(i)) \in Nat
    BY <2>1, <2>2, CardStep, CardMono
  <2>4. Len(q'[i]) = Len(q[i]) - 1 /\ Len(q[i]) \in Nat
    BY <1>0, <1>2 DEF RecvPop
  <2> QED BY <1>0, <2>3, <2>4 DEF Covered
<1> QED BY <1>1, <1>2

\* All other steps of a call.
LEMMA OtherStepsCover ==
  ASSUME IInv, NEW t \in Threads, NEW i \in Grid, Covered(i),
         \/ Calls(t) \/ SendLock(t) \/ RecvLock(t) \/ RecvReturn(t) \/ SpuriousWakeup(t)
  PROVE  Covered(i)'
<1>0. q[i] \in Seq(Messages)
  BY DEF IInv, TypeOK
<1>1. CASE Calls(t)
  <2>1. pc[t] = "idle" /\ UNCHANGED <<q, cv>>
    BY <1>1 DEF Calls, Send, Recv
  <2>2. \A u \in Threads \ {t} : pc'[u] = pc[u] /\ idx'[u] = idx[u]
    BY <1>1 DEF Calls, Send, Recv, Return, Goto, IInv, LocalInv
  <2>3. Awake(i) \subseteq Awake(i)'
    BY <2>1, <2>2 DEF Awake
  <2> QED BY <1>0, <2>1, <2>3, StillCovered
<1>2. CASE SendLock(t) \/ RecvLock(t)
  <2>1. UNCHANGED <<q, cv>> /\ Awake(i) \subseteq Awake(i)'
    BY <1>2 DEF SendLock, RecvLock, Awake, Goto, IInv, LocalInv
  <2> QED BY <1>0, <2>1, StillCovered
<1>3. CASE RecvReturn(t)
  <2>1. UNCHANGED <<q, cv>> /\ Awake(i) \subseteq Awake(i)'
    BY <1>3 DEF RecvReturn, Return, Awake, Goto, IInv, LocalInv
  <2> QED BY <1>0, <2>1, StillCovered
<1>4. CASE SpuriousWakeup(t)
  <2>1. q' = q /\ cv'[i] \subseteq cv[i] /\ Awake(i) \subseteq Awake(i)'
    BY <1>4 DEF SpuriousWakeup, Unblock, Awake, IInv, LocalInv
  <2> QED BY <1>0, <2>1, StillCovered
<1> QED BY <1>1, <1>2, <1>3, <1>4

\* While a receiver is blocked, every message of its channel has a notify_one
\* still to come or a receiver that is awake, although notify_one is called
\* after the mutex was released and wakes one thread only.
THEOREM WakeupSafety == Spec => []NoLostWakeup
<1> DEFINE AllCovered == \A i \in Grid : Covered(i)
<1>1. Init => AllCovered
  BY DEF Init, Covered
<1>2. IInv /\ AllCovered /\ [Next]_vars => AllCovered'
  <2> SUFFICES ASSUME IInv, AllCovered, [Next]_vars, NEW i \in Grid PROVE Covered(i)'
    BY DEF Grid
  <2>0. Covered(i)
    OBVIOUS
  <2>1. CASE UNCHANGED vars
    BY <2>0, <2>1 DEF vars, Covered, Awake
  <2>2. CASE Next
    <3>1. PICK t \in Threads : Calls(t) \/ Running(t) \/ SpuriousWakeup(t)
      BY <2>2 DEF Next
    <3> HIDE DEF AllCovered
    <3> QED
      BY <2>0, <3>1, SendPushCovers, SendNotifyCovers, RecvTestCovers, RecvPopCovers,
         OtherStepsCover DEF Running
  <2> QED BY <2>1, <2>2
<1>3. AllCovered => NoLostWakeup
  BY DEF NoLostWakeup, Covered, Awake
<1> HIDE DEF AllCovered
<1> QED BY <1>1, <1>2, <1>3, Invariance, PTL DEF Spec

-----------------------------------------------------------------------------
(* The grid implements the channels.                                       *)

\* The queue of a pair of ranks is the queue of no other pair.
LEMMA WayIndex ==
  ASSUME NEW a \in Ranks, NEW b \in Ranks
  PROVE  WayOf(a * WorldSize + b) = <<a, b>>
BY TransportAssumption DEF WayOf, Ranks

LEMMA IndexInjective ==
  ASSUME NEW a \in Ranks, NEW b \in Ranks, NEW c \in Ranks, NEW d \in Ranks,
         a * WorldSize + b = c * WorldSize + d
  PROVE  a = c /\ b = d
<1>1. <<a, b>> = <<c, d>>
  BY WayIndex
<1> QED BY <1>1

\* Changing one queue of the grid changes one channel.
LEMMA ChanUpdate ==
  ASSUME NEW a \in Ranks, NEW b \in Ranks, NEW v, DOMAIN q = Grid,
         q' = [q EXCEPT ![a * WorldSize + b] = v]
  PROVE  ChanOf' = [ChanOf EXCEPT ![<<a, b>>] = v]
<1>1. a * WorldSize + b \in Grid
  BY GridIndex
<1>2. ASSUME NEW c \in Ranks, NEW d \in Ranks
      PROVE  q'[c * WorldSize + d] =
               IF c = a /\ d = b THEN v ELSE q[c * WorldSize + d]
  <2>1. c * WorldSize + d \in Grid
    BY GridIndex
  <2>2. c * WorldSize + d = a * WorldSize + b <=> c = a /\ d = b
    BY IndexInjective
  <2> DEFINE x == c * WorldSize + d
             y == a * WorldSize + b
  <2>3. x \in Grid /\ y \in Grid /\ (x = y <=> c = a /\ d = b) /\ q' = [q EXCEPT ![y] = v]
    BY <1>1, <2>1, <2>2
  <2> HIDE DEF x, y
  <2>4. q'[x] = IF c = a /\ d = b THEN v ELSE q[x]
    BY <2>3
  <2> QED BY <2>4 DEF x
<1> DEFINE Idx(c) == c[1] * WorldSize + c[2]
<1>3. ASSUME NEW c \in Ranks \X Ranks
      PROVE  q'[Idx(c)] = IF c = <<a, b>> THEN v ELSE q[Idx(c)]
  <2>1. c[1] \in Ranks /\ c[2] \in Ranks /\ (c = <<a, b>> <=> c[1] = a /\ c[2] = b)
    OBVIOUS
  <2> QED BY <1>2, <2>1
<1>4. ChanOf = [c \in Ranks \X Ranks |-> q[Idx(c)]]
  BY DEF ChanOf
<1>5. ChanOf' = [c \in Ranks \X Ranks |-> q'[Idx(c)]]
  BY DEF ChanOf, Ranks
<1> HIDE DEF Idx
<1> QED BY <1>3, <1>4, <1>5

LEMMA ChanSame ==
  ASSUME q' = q
  PROVE  ChanOf' = ChanOf
BY DEF ChanOf, Ranks

LEMMA RankNames ==
  Transport!Ranks = Ranks /\ \A t \in Threads : Transport!RankOf(t) = RankOf(t)
BY DEF Transport!Ranks, Ranks, Transport!RankOf, RankOf

\* The call a thread is in, seen from outside.
CallAt(t) ==
  [op |-> OpOf(t), way |-> IF OpOf(t) = "none" THEN None ELSE WayOf(idx[t]),
   want |-> len[t], msg |-> bytes[t]]

\* A step of one thread changes the call of that thread only.
LEMMA CallUpdate ==
  ASSUME NEW t \in Threads, NEW c, CallAt(t)' = c,
         \A u \in Threads \ {t} :
           pc'[u] = pc[u] /\ idx'[u] = idx[u] /\ len'[u] = len[u] /\ bytes'[u] = bytes[u]
  PROVE  CallOf' = [CallOf EXCEPT ![t] = c]
<1>1. \A u \in Threads \ {t} : CallAt(u)' = CallAt(u)
  BY DEF CallAt, OpOf, WayOf
<1>2. CallOf = [u \in Threads |-> CallAt(u)]
  BY DEF CallOf, CallAt
<1>3. CallOf' = [u \in Threads |-> CallAt(u)']
  BY DEF CallOf, CallAt, Threads
<1> QED BY <1>1, <1>2, <1>3

\* A step that leaves a thread in the same part of its call changes no call.
LEMMA CallSame ==
  ASSUME UNCHANGED <<idx, len, bytes>>, \A u \in Threads : OpOf(u)' = OpOf(u)
  PROVE  CallOf' = CallOf
<1>1. \A u \in Threads : CallAt(u)' = CallAt(u)
  BY DEF CallAt, WayOf
<1>2. CallOf = [u \in Threads |-> CallAt(u)]
  BY DEF CallOf, CallAt
<1>3. CallOf' = [u \in Threads |-> CallAt(u)']
  BY DEF CallOf, CallAt, Threads
<1> QED BY <1>1, <1>2, <1>3

LEMMA CallValue ==
  ASSUME NEW t \in Threads
  PROVE  /\ CallOf[t] = CallAt(t)
         /\ CallOf[t].op = OpOf(t)
         /\ OpOf(t) # "none" => CallOf[t].way = WayOf(idx[t])
         /\ CallOf[t].want = len[t] /\ CallOf[t].msg = bytes[t]
<1>1. CallOf[t] = CallAt(t)
  BY DEF CallOf, CallAt
<1> QED BY <1>1 DEF CallAt

\* A call that ends is over for the channels too, with the same result.
LEMMA ReturnStep ==
  ASSUME IInv, NEW t \in Threads, UNCHANGED <<q, nsent>>, NEW r, NEW m, Return(t, r, m)
  PROVE  Transport!End(t, r, m)
<1>1. \A u \in Threads \ {t} :
        pc'[u] = pc[u] /\ idx'[u] = idx[u] /\ len'[u] = len[u] /\ bytes'[u] = bytes[u]
  BY DEF Return, Goto, IInv, LocalInv
<1>2. pc'[t] = "idle" /\ len'[t] = None /\ bytes'[t] = None
  BY DEF Return, Goto, IInv, LocalInv
<1>3. CallAt(t)' = Transport!NoCall
  BY <1>2 DEF CallAt, OpOf, Transport!NoCall, Transport!Call
<1>4. CallOf' = [CallOf EXCEPT ![t] = Transport!NoCall]
  BY <1>1, <1>3, CallUpdate
<1>5. ChanOf' = ChanOf
  BY ChanSame
<1> QED BY <1>4, <1>5 DEF Transport!End, Return

\* A send begins, or throws at its range check or its copy.
LEMMA SendStep ==
  ASSUME IInv, NEW t \in Threads, NEW dst, NEW l \in Lens, Send(t, dst, l)
  PROVE  Transport!Send(t) \/ Transport!Throw(t)
<1>0. pc[t] = "idle" /\ UNCHANGED <<q, nsent>>
  BY DEF Send
<1>1. CallOf[t].op = "none"
  BY <1>0, CallValue DEF OpOf
<1>2. CASE \E r \in {"bad_alloc", "out_of_range"} : Return(t, r, None)
  BY <1>0, <1>1, <1>2, ReturnStep DEF Transport!Throw
<1>3. CASE /\ dst \in Ranks
           /\ idx' = [idx EXCEPT ![t] = SendIdx(t, dst)]
           /\ bytes' = [bytes EXCEPT ![t] = [from |-> t, k |-> nsent[t] + 1, len |-> l]]
           /\ Goto(t, "push_lock")
           /\ last' = [last EXCEPT ![t] = Nothing]
           /\ UNCHANGED len
  <2> DEFINE m == [from |-> t, k |-> nsent[t] + 1, len |-> l]
             c == Transport!Call("put", <<RankOf(t), dst>>, None, m)
  <2>1. pc'[t] = "push_lock" /\ idx'[t] = SendIdx(t, dst) /\ len'[t] = None /\ bytes'[t] = m
    BY <1>0, <1>3 DEF Goto, IInv, LocalInv, CallInv
  <2>2. WayOf(SendIdx(t, dst)) = <<RankOf(t), dst>>
    BY <1>3, RankType, WayIndex DEF SendIdx
  <2>3. CallAt(t)' = c
    BY <2>1, <2>2 DEF CallAt, OpOf, WayOf, Transport!Call
  <2>4. \A u \in Threads \ {t} :
          pc'[u] = pc[u] /\ idx'[u] = idx[u] /\ len'[u] = len[u] /\ bytes'[u] = bytes[u]
    BY <1>3 DEF Goto, IInv, LocalInv
  <2> HIDE DEF c
  <2>5. CallOf' = [CallOf EXCEPT ![t] = c]
    BY <2>3, <2>4, CallUpdate
  <2>6. Transport!Begin(t, c)
    BY <1>0, <1>3, <2>5, ChanSame DEF Transport!Begin, Nothing
  <2> QED BY <1>1, <1>3, <2>6, RankNames DEF Transport!Send, c
<1> QED BY <1>2, <1>3 DEF Send

\* A recv begins, or throws at its range check.
LEMMA RecvStep ==
  ASSUME IInv, NEW t \in Threads, NEW src, NEW l \in WantLens, Recv(t, src, l)
  PROVE  Transport!Recv(t) \/ Transport!Throw(t)
<1>0. pc[t] = "idle" /\ UNCHANGED <<q, nsent>>
  BY DEF Recv
<1>1. CallOf[t].op = "none"
  BY <1>0, CallValue DEF OpOf
<1>2. CASE Return(t, "out_of_range", None)
  BY <1>0, <1>1, <1>2, ReturnStep DEF Transport!Throw
<1>3. CASE /\ src \in Ranks
           /\ idx' = [idx EXCEPT ![t] = RecvIdx(t, src)]
           /\ len' = [len EXCEPT ![t] = l]
           /\ Goto(t, "lock")
           /\ last' = [last EXCEPT ![t] = Nothing]
           /\ UNCHANGED bytes
  <2> DEFINE c == Transport!Call("take", <<src, RankOf(t)>>, l, None)
  <2>1. pc'[t] = "lock" /\ idx'[t] = RecvIdx(t, src) /\ len'[t] = l /\ bytes'[t] = None
    BY <1>0, <1>3 DEF Goto, IInv, LocalInv, CallInv
  <2>2. WayOf(RecvIdx(t, src)) = <<src, RankOf(t)>>
    BY <1>3, RankType, WayIndex DEF RecvIdx
  <2>3. CallAt(t)' = c
    BY <2>1, <2>2 DEF CallAt, OpOf, WayOf, Transport!Call
  <2>4. \A u \in Threads \ {t} :
          pc'[u] = pc[u] /\ idx'[u] = idx[u] /\ len'[u] = len[u] /\ bytes'[u] = bytes[u]
    BY <1>3 DEF Goto, IInv, LocalInv
  <2> HIDE DEF c
  <2>5. CallOf' = [CallOf EXCEPT ![t] = c]
    BY <2>3, <2>4, CallUpdate
  <2>6. Transport!Begin(t, c)
    BY <1>0, <1>3, <2>5, ChanSame DEF Transport!Begin, Nothing
  <2> QED BY <1>1, <1>3, <2>6, RankNames DEF Transport!Recv, c
<1> QED BY <1>2, <1>3 DEF Recv

\* Taking the mutex, testing and waking up cannot be seen from outside.
LEMMA SilentStep ==
  ASSUME IInv, NEW t \in Threads,
         SendLock(t) \/ RecvLock(t) \/ RecvTest(t) \/ SpuriousWakeup(t)
  PROVE  UNCHANGED <<ChanOf, nsent, CallOf, last>>
<1>1. UNCHANGED <<q, nsent, last, idx, len, bytes>>
  BY DEF SendLock, RecvLock, RecvTest, SpuriousWakeup
<1>2. \A u \in Threads : OpOf(u)' = OpOf(u)
  BY DEF SendLock, RecvLock, RecvTest, SpuriousWakeup, Goto, IInv, LocalInv, OpOf
<1> QED BY <1>1, <1>2, ChanSame, CallSame

\* push puts the message into the channel of the two ranks, or throws.
LEMMA PutStep ==
  ASSUME IInv, NEW t \in Threads, SendPush(t)
  PROVE  Transport!Put(t) \/ Transport!Throw(t)
<1>0. pc[t] = "push"
  BY DEF SendPush
<1>1. CallOf[t] = [op |-> "put", way |-> WayOf(idx[t]), want |-> len[t], msg |-> bytes[t]]
  BY <1>0, CallValue DEF CallAt, OpOf
<1>2. CASE Return(t, "bad_alloc", None) /\ UNCHANGED <<q, nsent>>
  BY <1>1, <1>2, ReturnStep DEF Transport!Throw
<1>3. CASE /\ q' = [q EXCEPT ![idx[t]] = Append(q[idx[t]], bytes[t])]
           /\ nsent' = [nsent EXCEPT ![t] = nsent[t] + 1]
           /\ Goto(t, "notify")
           /\ UNCHANGED <<idx, len, bytes, last>>
  <2>1. PICK dst \in Ranks : idx[t] = RankOf(t) * WorldSize + dst
    BY <1>0 DEF IInv, CallInv, SendIdx
  <2> DEFINE c == <<RankOf(t), dst>>
  <2>2. RankOf(t) \in Ranks /\ DOMAIN q = Grid
    BY RankType DEF IInv, TypeOK
  <2>3. WayOf(idx[t]) = c
    BY <2>1, <2>2, WayIndex
  <2>4. ChanOf[c] = q[idx[t]]
    BY <2>1, <2>2 DEF ChanOf
  <2>5. ChanOf' = [ChanOf EXCEPT ![c] = Append(q[idx[t]], bytes[t])]
    BY <1>3, <2>1, <2>2, ChanUpdate
  <2> HIDE DEF c
  <2>6. CallOf[t].op = "put" /\ CallOf[t].way = c /\ CallOf[t].msg = bytes[t]
    BY <1>1, <2>3
  <2>7. pc'[t] = "notify"
    BY <1>3 DEF Goto, IInv, LocalInv
  <2>8. CallAt(t)' = [op |-> "sent", way |-> WayOf(idx[t]), want |-> len[t], msg |-> bytes[t]]
    BY <1>3, <2>7 DEF CallAt, OpOf, WayOf
  <2>9. CallAt(t)' = [CallOf[t] EXCEPT !.op = "sent"]
    BY <1>1, <2>8
  <2>10. \A u \in Threads \ {t} :
          pc'[u] = pc[u] /\ idx'[u] = idx[u] /\ len'[u] = len[u] /\ bytes'[u] = bytes[u]
    BY <1>3 DEF Goto, IInv, LocalInv
  <2>11. CallOf' = [CallOf EXCEPT ![t].op = "sent"]
    BY <2>9, <2>10, CallUpdate
  <2> QED BY <1>3, <2>4, <2>5, <2>6, <2>11 DEF Transport!Put
<1> QED BY <1>2, <1>3 DEF SendPush

\* pop takes the oldest message of the channel to the thread's rank.
LEMMA TakeStep ==
  ASSUME IInv, NEW t \in Threads, RecvPop(t)
  PROVE  Transport!Take(t)
<1>0. /\ pc[t] = "pop" /\ UNCHANGED <<idx, len, nsent, last>>
      /\ pc' = [pc EXCEPT ![t] = "copy"]
      /\ bytes' = [bytes EXCEPT ![t] = Head(q[idx[t]])]
      /\ q' = [q EXCEPT ![idx[t]] = Tail(q[idx[t]])]
  BY DEF RecvPop, Goto
<1>1. PICK src \in Ranks : idx[t] = src * WorldSize + RankOf(t)
  BY <1>0 DEF IInv, CallInv, RecvIdx
<1> DEFINE c == <<src, RankOf(t)>>
<1>2. RankOf(t) \in Ranks /\ DOMAIN q = Grid /\ q[idx[t]] # <<>>
  BY <1>0, RankType DEF IInv, TypeOK, CallInv
<1>3. ChanOf[c] = q[idx[t]]
  BY <1>1, <1>2 DEF ChanOf
<1>4. ChanOf' = [ChanOf EXCEPT ![c] = Tail(q[idx[t]])]
  BY <1>0, <1>1, <1>2, ChanUpdate
<1>5. WayOf(idx[t]) = c
  BY <1>1, <1>2, WayIndex
<1> HIDE DEF c
<1>6. CallOf[t].op = "take" /\ CallOf[t].way = c /\ CallOf[t].want = len[t]
  BY <1>0, <1>5, CallValue DEF OpOf
<1>7. pc'[t] = "copy" /\ bytes'[t] = Head(q[idx[t]])
  BY <1>0 DEF IInv, LocalInv
<1>8. CallAt(t)' = Transport!Call("taken", c, len[t], Head(q[idx[t]]))
  BY <1>0, <1>5, <1>7 DEF CallAt, OpOf, WayOf, Transport!Call
<1>9. \A u \in Threads \ {t} :
        pc'[u] = pc[u] /\ idx'[u] = idx[u] /\ len'[u] = len[u] /\ bytes'[u] = bytes[u]
  BY <1>0 DEF IInv, LocalInv
<1>10. CallOf' = [CallOf EXCEPT ![t] = Transport!Call("taken", c, len[t], Head(q[idx[t]]))]
  BY <1>8, <1>9, CallUpdate
<1> QED BY <1>0, <1>2, <1>3, <1>4, <1>6, <1>10 DEF Transport!Take

\* recv hands its message out if the length is the one asked for, and drops it
\* otherwise.
LEMMA EndRecvStep ==
  ASSUME IInv, NEW t \in Threads, RecvReturn(t)
  PROVE  Transport!EndRecv(t)
<1>0. pc[t] = "copy" /\ UNCHANGED <<q, nsent>>
  BY DEF RecvReturn
<1>1. CallOf[t].op = "taken" /\ CallOf[t].want = len[t] /\ CallOf[t].msg = bytes[t]
  BY <1>0, CallValue DEF OpOf
<1> QED BY <1>0, <1>1, ReturnStep DEF RecvReturn, Transport!EndRecv

LEMMA EndSendStep ==
  ASSUME IInv, NEW t \in Threads, SendNotify(t)
  PROVE  Transport!EndSend(t)
<1>0. pc[t] = "notify" /\ UNCHANGED <<q, nsent>> /\ Return(t, "sent", None)
  BY DEF SendNotify
<1>1. CallOf[t].op = "sent"
  BY <1>0, CallValue DEF OpOf
<1> QED BY <1>0, <1>1, ReturnStep DEF Transport!EndSend

\* The grid of queues implements one FIFO channel per ordered pair of ranks:
\* a send returns only after its message went in and throws only if it did not,
\* what went in is taken once, in order, by one recv of the other rank, whatever
\* threads share a rank, and that recv returns it exactly if it has the length
\* asked for; a recv that throws for a wrong length costs that message and no
\* other.
THEOREM Refinement == Spec => ImplementsChannels
<1>1. Init => Transport!Init
  <2> SUFFICES ASSUME Init PROVE Transport!Init
    OBVIOUS
  <2>1. ChanOf = [c \in Ranks \X Ranks |-> <<>>]
    <3>1. ASSUME NEW c \in Ranks \X Ranks PROVE q[c[1] * WorldSize + c[2]] = <<>>
      <4>1. c[1] * WorldSize + c[2] \in Grid
        BY GridIndex
      <4> QED BY <4>1 DEF Init
    <3> QED BY <3>1 DEF ChanOf
  <2>2. CallOf = [t \in Threads |-> Transport!NoCall]
    BY DEF CallOf, OpOf, Init, Transport!NoCall, Transport!Call
  <2> QED BY <2>1, <2>2, RankNames DEF Transport!Init, Init, Nothing
<1>2. IInv /\ [Next]_vars => [Transport!Next]_(Transport!vars)
  <2> SUFFICES ASSUME IInv, [Next]_vars
               PROVE  Transport!Next \/ UNCHANGED <<ChanOf, nsent, CallOf, last>>
    BY DEF Transport!vars
  <2>1. CASE UNCHANGED vars
    <3>1. \A u \in Threads : OpOf(u)' = OpOf(u)
      BY <2>1 DEF vars, OpOf
    <3> QED BY <2>1, <3>1, ChanSame, CallSame DEF vars
  <2>2. CASE Next
    <3>1. PICK t \in Threads : Calls(t) \/ Running(t) \/ SpuriousWakeup(t)
      BY <2>2 DEF Next
    <3>2. CASE Calls(t)
      BY <3>2, SendStep, RecvStep DEF Calls, Transport!Next
    <3>3. CASE SendLock(t) \/ RecvLock(t) \/ RecvTest(t) \/ SpuriousWakeup(t)
      BY <3>3, SilentStep
    <3>4. CASE SendPush(t) \/ SendNotify(t)
      BY <3>4, PutStep, EndSendStep DEF Transport!Next
    <3>5. CASE RecvPop(t) \/ RecvReturn(t)
      BY <3>5, TakeStep, EndRecvStep DEF Transport!Next
    <3> QED BY <3>1, <3>2, <3>3, <3>4, <3>5 DEF Running
  <2> QED BY <2>1, <2>2
<1> QED BY <1>1, <1>2, Invariance, PTL DEF Spec, ImplementsChannels, Transport!Spec
=============================================================================
