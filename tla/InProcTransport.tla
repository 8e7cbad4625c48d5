-------------------------- MODULE InProcTransport --------------------------
(***************************************************************************)
(* The in-process transport of 04-collectives-cpp (transport_inproc.cpp):  *)
(* a grid of queues, each with a mutex and a condition variable.  Threads  *)
(* call send and recv in any order, with any peer, in range or not.        *)
(* Several threads may share the transport of one rank.                    *)
(*                                                                         *)
(* A byte buffer is its length and the identity of the call that sent it.  *)
(* An exception leaves the function at once; lock_guard releases.          *)
(***************************************************************************)
EXTENDS Integers, Sequences, FiniteSets

CONSTANTS
  WorldSize,   \* ranks (world_size_, InProcGrid::n)
  NumThreads,  \* threads; thread t acts for rank t % WorldSize
  Lens,        \* lengths that are sent
  WantLens,    \* lengths that are asked for
  MaxSends,    \* sends that get past their copy
  None         \* no message, no owner: neither a number nor a message

ASSUME TransportAssumption ==
  /\ WorldSize \in Nat \ {0} /\ NumThreads \in Nat /\ MaxSends \in Nat
  /\ Lens \subseteq Nat /\ WantLens \subseteq Nat
  /\ None \notin Int /\ None \notin [from : Nat, k : Nat, len : Nat]

VARIABLES
  mu,     \* channel -> the thread that holds grid_->mu[idx], or None
  q,      \* channel -> grid_->q[idx]
  cv,     \* channel -> the threads blocked on grid_->cv[idx]
  pc,     \* thread -> where it is; "idle" between calls
  idx,    \* thread -> the channel of its call
  len,    \* thread -> the len of its recv
  bytes,  \* thread -> its local vector of bytes
  begun,  \* sends that got past their copy
  nsent,  \* thread -> messages it pushed
  last    \* thread -> what its last call gave it, until the next one

vars == <<mu, q, cv, pc, idx, len, bytes, begun, nsent, last>>

Threads == 0 .. NumThreads - 1
Ranks == 0 .. WorldSize - 1
RankOf(t) == t % WorldSize

\* InProcGrid holds n * n queues.
Grid == 0 .. WorldSize * WorldSize - 1

\* dst_rank and src_rank, the range check's two failures included.
Peers == -1 .. WorldSize

Nothing == <<"none", None>>

Init ==
  /\ mu = [i \in Grid |-> None]
  /\ q = [i \in Grid |-> <<>>]
  /\ cv = [i \in Grid |-> {}]
  /\ pc = [t \in Threads |-> "idle"]
  /\ idx = [t \in Threads |-> None]
  /\ len = [t \in Threads |-> None]
  /\ bytes = [t \in Threads |-> None]
  /\ begun = 0
  /\ nsent = [t \in Threads |-> 0]
  /\ last = [t \in Threads |-> Nothing]

-----------------------------------------------------------------------------
(* Steps both calls are made of.                                           *)

Goto(t, label) == pc' = [pc EXCEPT ![t] = label]

Acquire(t) == mu[idx[t]] = None /\ mu' = [mu EXCEPT ![idx[t]] = t]
Release(t) == mu' = [mu EXCEPT ![idx[t]] = None]

\* The call of t ends with status r and message m; its locals are gone.
Return(t, r, m) ==
  /\ Goto(t, "idle")
  /\ idx' = [idx EXCEPT ![t] = None]
  /\ len' = [len EXCEPT ![t] = None]
  /\ bytes' = [bytes EXCEPT ![t] = None]
  /\ last' = [last EXCEPT ![t] = <<r, m>>]

-----------------------------------------------------------------------------
(* send                                                                    *)

SendIdx(t, dst) == RankOf(t) * WorldSize + dst

\* The range check, then the copy of the caller's buffer, which may throw.
Send(t, dst, l) ==
  /\ pc[t] = "idle" /\ begun < MaxSends
  /\ \/ dst \notin Ranks /\ Return(t, "out_of_range", None) /\ UNCHANGED begun
     \/ dst \in Ranks /\ Return(t, "bad_alloc", None) /\ UNCHANGED begun
     \/ /\ dst \in Ranks
        /\ idx' = [idx EXCEPT ![t] = SendIdx(t, dst)]
        /\ bytes' = [bytes EXCEPT ![t] =
                       [from |-> t, k |-> nsent[t] + 1, len |-> l]]
        /\ begun' = begun + 1
        /\ Goto(t, "push_lock")
        /\ last' = [last EXCEPT ![t] = Nothing]
        /\ UNCHANGED len
  /\ UNCHANGED <<mu, q, cv, nsent>>

SendLock(t) ==
  /\ pc[t] = "push_lock"
  /\ Acquire(t)
  /\ Goto(t, "push")
  /\ UNCHANGED <<q, cv, idx, len, bytes, begun, nsent, last>>

\* Mutant of SendPush: only the message that ends the queue's emptiness is
\* notified.
SendPush_NotifyFirst(t) ==
  /\ pc[t] = "push"
  /\ Release(t)
  /\ q' = [q EXCEPT ![idx[t]] = Append(@, bytes[t])]
  /\ nsent' = [nsent EXCEPT ![t] = @ + 1]
  /\ IF q[idx[t]] = <<>>
       THEN Goto(t, "notify") /\ UNCHANGED <<idx, len, bytes, last>>
       ELSE Return(t, "sent", None)
  /\ UNCHANGED <<cv, begun>>

\* push, which may throw, and the end of the lock_guard's scope.
SendPush(t) ==
  /\ pc[t] = "push"
  /\ Release(t)
  /\ \/ /\ q' = [q EXCEPT ![idx[t]] = Append(@, bytes[t])]
        /\ nsent' = [nsent EXCEPT ![t] = @ + 1]
        /\ Goto(t, "notify")
        /\ UNCHANGED <<idx, len, bytes, last>>
     \/ Return(t, "bad_alloc", None) /\ UNCHANGED <<q, nsent>>
  /\ UNCHANGED <<cv, begun>>

\* A thread blocked on channel i goes on to take the mutex again.
Unblock(i, w) == cv' = [cv EXCEPT ![i] = @ \ {w}]

\* Mutant of SendNotify: nobody is notified.
SendNotify_Forgotten(t) ==
  /\ pc[t] = "notify"
  /\ Return(t, "sent", None)
  /\ UNCHANGED <<mu, q, cv, begun, nsent>>

\* notify_one, without the mutex: some thread blocked on the channel, if any.
SendNotify(t) ==
  /\ pc[t] = "notify"
  /\ Return(t, "sent", None)
  /\ IF cv[idx[t]] = {} THEN UNCHANGED cv
     ELSE \E w \in cv[idx[t]] : Unblock(idx[t], w)
  /\ UNCHANGED <<mu, q, begun, nsent>>

-----------------------------------------------------------------------------
(* recv                                                                    *)

\* Mutant of RecvIdx: the row and the column of the grid are mixed up.
RecvIdx_Transposed(t, src) == RankOf(t) * WorldSize + src

RecvIdx(t, src) == src * WorldSize + RankOf(t)

Recv(t, src, l) ==
  /\ pc[t] = "idle"
  /\ \/ src \notin Ranks /\ Return(t, "out_of_range", None)
     \/ /\ src \in Ranks
        /\ idx' = [idx EXCEPT ![t] = RecvIdx(t, src)]
        /\ len' = [len EXCEPT ![t] = l]
        /\ Goto(t, "lock")
        /\ last' = [last EXCEPT ![t] = Nothing]
        /\ UNCHANGED bytes
  /\ UNCHANGED <<mu, q, cv, begun, nsent>>

\* The unique_lock takes the mutex, at first and when wait comes back.
RecvLock(t) ==
  /\ pc[t] = "lock" /\ t \notin cv[idx[t]]
  /\ Acquire(t)
  /\ Goto(t, "test")
  /\ UNCHANGED <<q, cv, idx, len, bytes, begun, nsent, last>>

\* Mutant of RecvTest: the mutex is released between the test and the pop.
RecvTest_Unlocked(t) ==
  /\ pc[t] = "test"
  /\ Release(t)
  /\ IF q[idx[t]] = <<>>
       THEN /\ cv' = [cv EXCEPT ![idx[t]] = @ \cup {t}]
            /\ Goto(t, "lock")
       ELSE Goto(t, "pop") /\ UNCHANGED cv
  /\ UNCHANGED <<q, idx, len, bytes, begun, nsent, last>>

\* wait's predicate; while it fails wait releases the mutex and blocks, in
\* one step.
RecvTest(t) ==
  /\ pc[t] = "test"
  /\ IF q[idx[t]] = <<>>
       THEN /\ Release(t)
            /\ cv' = [cv EXCEPT ![idx[t]] = @ \cup {t}]
            /\ Goto(t, "lock")
       ELSE Goto(t, "pop") /\ UNCHANGED <<mu, cv>>
  /\ UNCHANGED <<q, idx, len, bytes, begun, nsent, last>>

\* A condition variable may wake a thread that nobody notified.
SpuriousWakeup(t) ==
  /\ pc[t] = "lock" /\ t \in cv[idx[t]]
  /\ Unblock(idx[t], t)
  /\ UNCHANGED <<mu, q, pc, idx, len, bytes, begun, nsent, last>>

\* front, pop and unlock; nobody looks at the queue without the mutex.
RecvPop(t) ==
  /\ pc[t] = "pop"
  /\ bytes' = [bytes EXCEPT ![t] = Head(q[idx[t]])]
  /\ q' = [q EXCEPT ![idx[t]] = Tail(@)]
  /\ Release(t)
  /\ Goto(t, "copy")
  /\ UNCHANGED <<cv, idx, len, begun, nsent, last>>

\* The size check throws after the message left the queue.
RecvReturn(t) ==
  /\ pc[t] = "copy"
  /\ IF bytes[t].len # len[t]
       THEN Return(t, "size_mismatch", None)
       ELSE Return(t, "received", bytes[t])
  /\ UNCHANGED <<mu, q, cv, begun, nsent>>

-----------------------------------------------------------------------------

Calls(t) ==
  \/ \E p \in Peers, l \in Lens : Send(t, p, l)
  \/ \E p \in Peers, l \in WantLens : Recv(t, p, l)

Running(t) ==
  \/ SendLock(t) \/ SendPush(t) \/ SendNotify(t)
  \/ RecvLock(t) \/ RecvTest(t) \/ RecvPop(t) \/ RecvReturn(t)

Next == \E t \in Threads : Calls(t) \/ Running(t) \/ SpuriousWakeup(t)

Spec == Init /\ [][Next]_vars

\* A call that can go on does; nobody has to make a call, no wake-up is
\* spurious by necessity, and the mutex owes no thread its turn.
FairSpec == Spec /\ \A t \in Threads : WF_vars(Running(t))

-----------------------------------------------------------------------------
(* Properties.                                                             *)

MessageOf(t) == [from : {t}, k : 1 .. nsent[t], len : Lens]
Messages == UNION {MessageOf(t) : t \in Threads}

\* Every variable keeps its type; a mutex has the owner whose program counter
\* is inside the critical section, and that one only.
TypeOK ==
  /\ mu \in [Grid -> Threads \cup {None}]
  /\ q \in [Grid -> Seq(Messages)]
  /\ \A t \in Threads : pc[t] = "idle" <=> idx[t] = None
  /\ \A t \in Threads : pc[t] # "idle" =>
       /\ idx[t] \in Grid
       /\ pc[t] \in {"push", "test", "pop"} <=> mu[idx[t]] = t
  /\ \A t \in Threads : pc[t] = "copy" =>
       bytes[t] \in Messages /\ len[t] \in WantLens
  /\ \A i \in Grid : \A t \in cv[i] : pc[t] = "lock" /\ idx[t] = i

\* No wake-up is lost, although notify_one comes after the mutex is released
\* and wakes one thread only: while a receiver is blocked, every message of
\* the channel has a notify_one still to come or a receiver that is awake.
NoLostWakeup ==
  \A i \in Grid : cv[i] # {} =>
    Len(q[i]) <= Cardinality({t \in Threads \ cv[i] :
                                idx[t] = i /\ pc[t] \in {"notify", "lock", "test", "pop"}})

\* Which queue of the grid a channel is (transport_inproc.hpp: q[src*n + dst]).
ChanOf == [c \in Ranks \X Ranks |-> q[c[1] * WorldSize + c[2]]]
WayOf(i) == <<i \div WorldSize, i % WorldSize>>

\* What the program counter and the locals of t say about its call.
OpOf(t) ==
  CASE pc[t] \in {"push_lock", "push"} -> "put"
    [] pc[t] = "notify" -> "sent"
    [] pc[t] \in {"lock", "test", "pop"} -> "take"
    [] pc[t] = "copy" -> "taken"
    [] OTHER -> "none"
CallOf ==
  [t \in Threads |->
     [op |-> OpOf(t), way |-> IF OpOf(t) = "none" THEN None ELSE WayOf(idx[t]),
      want |-> len[t], msg |-> bytes[t]]]

Transport == INSTANCE Channels WITH chan <- ChanOf, call <- CallOf

\* The grid implements the channels a Transport promises: for every pair of
\* ranks, what is sent is taken once, in order, by one recv, whatever threads
\* share a rank and however their steps interleave; a send returns if and only
\* if its message went in, and a recv returns exactly the length it asked for,
\* where a message of another length costs that message and no other.
ImplementsChannels == Transport!Spec

\* A receiver does not stay blocked beside a message: it is woken, or some
\* other receiver takes the message.
NobodyForgotten == \A i \in Grid : []<>(q[i] = <<>> \/ cv[i] = {})
=============================================================================
