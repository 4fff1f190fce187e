---------------------------- MODULE CaptureQueue ----------------------------
(***************************************************************************)
(* jpcap.api.Capture: the thread that calls start runs the packet loop and *)
(* offers each packet to a queue; a worker of the executor polls the queue *)
(* and hands what it gets to the handlers, over a snapshot of their list.  *)
(* Other threads add and remove handlers.  poll does not wait: with        *)
(* nothing in the queue the worker goes on with null.                      *)
(*                                                                         *)
(* Packets are numbered in the order they arrive.  A packet loop ends with *)
(* its captor; each start adds a worker, and none is ever told to end.     *)
(***************************************************************************)
EXTENDS Integers, SequencesExt

CONSTANTS
  Handlers,
  Capacity,    \* of the queue: 10 in the code
  MaxPackets,  \* bound: packets that arrive
  MaxStarts,   \* bound: calls of start
  MaxChanges   \* bound: handlers added and removed

ASSUME QueueAssumption ==
  Capacity \in Nat \ {0} /\ MaxPackets \in Nat /\ MaxStarts \in Nat /\ MaxChanges \in Nat

Workers == 1..MaxStarts

null == 0

VARIABLES
  queue,      \* packets that wait
  arrived,    \* how many packets have arrived
  handlers,   \* the handlers, in their order
  looping,    \* whether a thread is in the packet loop
  workers,    \* how many workers run
  packet,     \* for each worker, the packet it polled
  todo,       \* for each worker, the handlers of its snapshot it has not called
  handled,    \* for each handler, the packets it got
  changes     \* counts changes of the handlers

vars == <<queue, arrived, handlers, looping, workers, packet, todo, handled, changes>>

Init ==
  /\ queue = <<>> /\ arrived = 0
  /\ handlers = <<>> /\ changes = 0
  /\ looping = FALSE /\ workers = 0
  /\ packet = [w \in Workers |-> null] /\ todo = [w \in Workers |-> <<>>]
  /\ handled = [h \in Handlers |-> <<>>]

(* start, of one thread at a time: a worker, and the packet loop. *)
start ==
  /\ ~looping /\ workers < MaxStarts
  /\ workers' = workers + 1 /\ looping' = TRUE
  /\ UNCHANGED <<queue, arrived, handlers, packet, todo, handled, changes>>

\* Mutation: a full queue gives up its oldest packet and takes the new one first.
OfferedFirst(q, p) == IF Len(q) < Capacity THEN <<p>> \o q ELSE <<p>> \o Tail(q)

\* The queue takes a packet if it has room.
Offered(q, p) == IF Len(q) < Capacity THEN Append(q, p) ELSE q

receivePacket ==
  /\ looping /\ arrived < MaxPackets
  /\ arrived' = arrived + 1
  /\ queue' = Offered(queue, arrived')
  /\ UNCHANGED <<handlers, looping, workers, packet, todo, handled, changes>>

(* The end of the file, or an error: loopPacket returns. *)
LoopEnds ==
  /\ looping
  /\ looping' = FALSE
  /\ UNCHANGED <<queue, arrived, handlers, workers, packet, todo, handled, changes>>

\* Mutation: the packet stays in the queue until the handlers are called.
PollWithoutTaking(w) ==
  /\ w <= workers /\ todo[w] = <<>>
  /\ IF queue = <<>> THEN packet' = [packet EXCEPT ![w] = null] /\ UNCHANGED queue
     ELSE packet' = [packet EXCEPT ![w] = Head(queue)] /\ UNCHANGED queue
  /\ todo' = [todo EXCEPT ![w] = handlers]
  /\ UNCHANGED <<arrived, handlers, looping, workers, handled, changes>>

(* Between two polls the worker has no handler left to call. *)
Poll(w) ==
  /\ w <= workers /\ todo[w] = <<>>
  /\ IF queue = <<>> THEN packet' = [packet EXCEPT ![w] = null] /\ UNCHANGED queue
     ELSE packet' = [packet EXCEPT ![w] = Head(queue)] /\ queue' = Tail(queue)
  /\ todo' = [todo EXCEPT ![w] = handlers]
  /\ UNCHANGED <<arrived, handlers, looping, workers, handled, changes>>

\* Mutation: only the first handler is called.
HandleAndForget(w) ==
  /\ todo[w] # <<>>
  /\ handled' = [handled EXCEPT ![Head(todo[w])] = IF packet[w] = null THEN @ ELSE Append(@, packet[w])]
  /\ todo' = [todo EXCEPT ![w] = <<>>]
  /\ UNCHANGED <<queue, arrived, handlers, looping, workers, packet, changes>>

(* One handler is called; what it does with null is its own affair. *)
Handle(w) ==
  /\ todo[w] # <<>>
  /\ handled' = [handled EXCEPT ![Head(todo[w])] = IF packet[w] = null THEN @ ELSE Append(@, packet[w])]
  /\ todo' = [todo EXCEPT ![w] = Tail(@)]
  /\ UNCHANGED <<queue, arrived, handlers, looping, workers, packet, changes>>

(* No handler is added while it is among the handlers: it would be called twice. *)
addHandler(h) ==
  /\ changes < MaxChanges /\ changes' = changes + 1
  /\ ~Contains(handlers, h)
  /\ handlers' = Append(handlers, h)
  /\ UNCHANGED <<queue, arrived, looping, workers, packet, todo, handled>>

removeHandler(h) ==
  /\ changes < MaxChanges /\ changes' = changes + 1
  /\ \E i \in 1..Len(handlers) : handlers[i] = h /\ handlers' = RemoveAt(handlers, i)
  /\ UNCHANGED <<queue, arrived, looping, workers, packet, todo, handled>>

Next ==
  \/ start \/ receivePacket \/ LoopEnds
  \/ \E w \in Workers : Poll(w) \/ Handle(w)
  \/ \E h \in Handlers : addHandler(h) \/ removeHandler(h)

(* A running worker is scheduled, and handlers return. *)
Fairness == \A w \in Workers : WF_vars(Poll(w)) /\ WF_vars(Handle(w))

Spec == Init /\ [][Next]_vars /\ Fairness

-----------------------------------------------------------------------------
(***************************************************************************)
(* Properties                                                              *)
(***************************************************************************)
Increasing(s) == \A i, j \in 1..Len(s) : i < j => s[i] < s[j]

\* No handler gets a packet twice, however many workers poll.
HandledOnce ==
  \A h \in Handlers : \A i, j \in 1..Len(handled[h]) : i # j => handled[h][i] # handled[h][j]

\* As long as start is called once, a handler gets packets in the order they
\* arrived, however handlers come and go.
HandledInOrder == workers <= 1 => \A h \in Handlers : Increasing(handled[h])

\* A packet that entered the queue reaches every handler that is there when it
\* does and stays: the worker never passes one over.
Reaches ==
  \A h \in Handlers, p \in 1..MaxPackets :
    (Contains(queue, p) /\ Contains(handlers, h))
      ~> (Contains(handled[h], p) \/ ~Contains(handlers, h))
=============================================================================
