------------------------------ MODULE Channels ------------------------------
(***************************************************************************)
(* What a Transport promises its callers (collective.hpp): one FIFO channel *)
(* for every ordered pair of ranks.  A send that returns has put one        *)
(* message into its channel.  A recv takes the oldest message of its        *)
(* channel, which no other recv gets; it hands the message to the caller if *)
(* it has the length asked for, and throws and drops it otherwise.          *)
(***************************************************************************)
EXTENDS Integers, Sequences

CONSTANTS WorldSize, Threads, Lens, WantLens, None

VARIABLES
  chan,   \* <<src, dst>> -> the messages under way, oldest first
  nsent,  \* thread -> how many messages it put into a channel
  call,   \* thread -> the call it is in
  last    \* thread -> what its last call gave it, until the next one

vars == <<chan, nsent, call, last>>

Ranks == 0 .. WorldSize - 1

\* Several threads may act for one rank.
RankOf(t) == t % WorldSize

\* A call: what it does next, its channel, the length a recv asks for, and the
\* message a send brings or a recv has taken.
Call(op, way, want, msg) == [op |-> op, way |-> way, want |-> want, msg |-> msg]
NoCall == Call("none", None, None, None)

Init ==
  /\ chan = [c \in Ranks \X Ranks |-> <<>>]
  /\ nsent = [t \in Threads |-> 0]
  /\ call = [t \in Threads |-> NoCall]
  /\ last = [t \in Threads |-> <<"none", None>>]

\* A call c of t begins, with nothing reported yet; the call of t ends.
Begin(t, c) ==
  /\ last' = [last EXCEPT ![t] = <<"none", None>>]
  /\ call' = [call EXCEPT ![t] = c]
  /\ UNCHANGED <<chan, nsent>>

End(t, r, m) ==
  /\ last' = [last EXCEPT ![t] = <<r, m>>]
  /\ call' = [call EXCEPT ![t] = NoCall]
  /\ UNCHANGED <<chan, nsent>>

\* A message carries its identity: who sent it, and as which of its messages.
Send(t) ==
  /\ call[t].op = "none"
  /\ \E dst \in Ranks, l \in Lens :
       Begin(t, Call("put", <<RankOf(t), dst>>, None,
                     [from |-> t, k |-> nsent[t] + 1, len |-> l]))

Put(t) ==
  /\ call[t].op = "put"
  /\ chan' = [chan EXCEPT ![call[t].way] = Append(@, call[t].msg)]
  /\ nsent' = [nsent EXCEPT ![t] = @ + 1]
  /\ call' = [call EXCEPT ![t].op = "sent"]
  /\ UNCHANGED last

EndSend(t) == call[t].op = "sent" /\ End(t, "sent", None)

Recv(t) ==
  /\ call[t].op = "none"
  /\ \E src \in Ranks, l \in WantLens :
       Begin(t, Call("take", <<src, RankOf(t)>>, l, None))

Take(t) ==
  /\ call[t].op = "take"
  /\ chan[call[t].way] # <<>>
  /\ call' = [call EXCEPT ![t] = Call("taken", @.way, @.want, Head(chan[@.way]))]
  /\ chan' = [chan EXCEPT ![call[t].way] = Tail(@)]
  /\ UNCHANGED <<nsent, last>>

\* The length is exact: the message is handed out, or dropped with an error.
EndRecv(t) ==
  /\ call[t].op = "taken"
  /\ IF call[t].msg.len = call[t].want THEN End(t, "received", call[t].msg)
     ELSE End(t, "size_mismatch", None)

\* A call throws before it has put or taken anything: the peer is out of range,
\* or there is no memory.
Throw(t) ==
  \/ call[t].op = "none" /\ End(t, "out_of_range", None)
  \/ call[t].op \in {"none", "put"} /\ End(t, "bad_alloc", None)

Next ==
  \E t \in Threads :
    Send(t) \/ Put(t) \/ EndSend(t) \/ Recv(t) \/ Take(t) \/ EndRecv(t) \/ Throw(t)

Spec == Init /\ [][Next]_vars
=============================================================================
