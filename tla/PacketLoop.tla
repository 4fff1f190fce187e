----------------------------- MODULE PacketLoop -----------------------------
(***************************************************************************)
(* processPacket, loopPacket, getPacket and breakLoop of JpcapCaptor.c.    *)
(* pcap calls dispatcher_handler for each packet, with the ID of the       *)
(* captor alone: the JNI environment and the receiver of the call are kept *)
(* in tables, one entry for each ID.  A receiver may itself capture, and   *)
(* several threads may, so calls are stacked for each thread.  Nothing     *)
(* keeps two calls from using one captor at a time.                        *)
(*                                                                         *)
(* Each call makes a new global reference to its receiver.  A reference is *)
(* known by the captor and the number of its call, and stands for the      *)
(* receiver.                                                               *)
(*                                                                         *)
(* pcap is external: it may have a packet at any time; pcap_dispatch       *)
(* returns when a timeout expires, pcap_loop does not, and both when the   *)
(* count is reached or the captor is told to break.  A captor is its ID;   *)
(* none is closed here (JpcapInstances has that).                          *)
(***************************************************************************)
EXTENDS Integers, Sequences, FiniteSets

CONSTANTS
  Captors, Threads,
  Counts,       \* numbers of packets asked for; -1 asks for no end of them
  MaxDepth,     \* bound: calls of a thread inside each other
  MaxCalls      \* bound: calls that are made

NoThread == "no thread"
NoRef == [captor |-> "none", number |-> 0]

ASSUME LoopAssumption ==
  /\ Counts \subseteq Int
  /\ MaxDepth \in Nat /\ MaxCalls \in Nat
  /\ NoThread \notin Threads

VARIABLES
  jni_envs,        \* for each ID, the thread whose environment is used
  jpcap_handlers,  \* for each ID, the reference to the receiver
  refs,            \* the global references that were made and not deleted
  made,            \* how many were made
  breaking,        \* the captors that were told to break
  calls,           \* for each thread, the calls it is in
  result,          \* what the last call to return took, and returned
  (* history, read by properties alone *)
  overlapped,      \* the references of calls that went on together with another
                   \* one on their captor
  visited          \* those of the calls that go on whose captor another thread has
                   \* taken a packet from

tableVars == <<jni_envs, jpcap_handlers, refs, made>>
historyVars == <<overlapped, visited>>
vars == <<tableVars, breaking, calls, result, historyVars>>

Top(t) == calls[t][Len(calls[t])]

CallsOf(t) == {calls[t][i] : i \in 1..Len(calls[t])}

\* The references of the calls that go on, on captor c and in a set of threads.
InUse(c, threads) ==
  {call.own : call \in {k \in UNION {CallsOf(t) : t \in threads} : k.captor = c}}

InPcap(t) == calls[t] # <<>> /\ Top(t).at = "pcap"
InReceiver(t) == calls[t] # <<>> /\ Top(t).at = "receivePacket"

\* A thread can call from its own code, and from a receiver.
MayCall(t) ==
  /\ Len(calls[t]) < MaxDepth
  /\ calls[t] = <<>> \/ InReceiver(t)

Init ==
  /\ jni_envs = [c \in Captors |-> NoThread]
  /\ jpcap_handlers = [c \in Captors |-> NoRef]
  /\ refs = {} /\ made = 0
  /\ breaking = {}
  /\ calls = [t \in Threads |-> <<>>]
  /\ result = [taken |-> 0, value |-> 0]
  /\ overlapped = {} /\ visited = {}

\* Mutation: one entry for all captors.
OneSlot(c) == CHOOSE d \in Captors : TRUE

Slot(c) == c

(* processPacket and loopPacket: the tables are set before pcap is called. *)
Call(t, c, by, count) ==
  /\ MayCall(t) /\ made < MaxCalls
  /\ made' = made + 1
  /\ LET ref == [captor |-> c, number |-> made + 1]
         others == InUse(c, Threads)
     IN /\ refs' = refs \cup {ref}
        /\ jpcap_handlers' = [jpcap_handlers EXCEPT ![Slot(c)] = ref]
        /\ calls' = [calls EXCEPT ![t] =
                       Append(@, [captor |-> c, by |-> by, own |-> ref, count |-> count,
                                  taken |-> 0, at |-> "pcap", env |-> NoThread, called |-> NoRef])]
        /\ overlapped' = IF others = {} THEN overlapped ELSE overlapped \cup others \cup {ref}
  /\ jni_envs' = [jni_envs EXCEPT ![Slot(c)] = t]
  /\ UNCHANGED <<breaking, result, visited>>

(* Of an endless call only whether it took a packet is kept.
   dispatcher_handler, until the receiver is called: environment and receiver
   are those that the tables have now. *)
Dispatch(t) ==
  /\ InPcap(t)
  /\ LET call == Top(t)
         c == call.captor
     IN /\ c \notin breaking
        /\ call.count = -1 \/ call.taken < call.count
        /\ calls' = [calls EXCEPT ![t][Len(calls[t])] =
                       [call EXCEPT !.taken = IF call.count = -1 THEN 1 ELSE @ + 1,
                                    !.at = "receivePacket",
                                    !.env = jni_envs[Slot(c)], !.called = jpcap_handlers[Slot(c)]]]
  /\ UNCHANGED <<tableVars, breaking, result, historyVars>>

(* The receiver returns, and dispatcher_handler. *)
Received(t) ==
  /\ InReceiver(t)
  /\ calls' = [calls EXCEPT ![t][Len(calls[t])] =
                  [Top(t) EXCEPT !.at = "pcap", !.env = NoThread, !.called = NoRef]]
  /\ UNCHANGED <<tableVars, breaking, result, historyVars>>

\* Mutation: the reference is not deleted.
KeepReference(t, value) ==
  /\ result' = [taken |-> Top(t).taken, value |-> value]
  /\ calls' = [calls EXCEPT ![t] = SubSeq(@, 1, Len(@) - 1)]
  /\ visited' = visited \ {Top(t).own}
  /\ UNCHANGED <<tableVars, overlapped>>

\* What is left of processPacket and loopPacket when pcap has returned: the
\* reference that the table has now is deleted.
Leave(t, value) ==
  /\ result' = [taken |-> Top(t).taken, value |-> value]
  /\ refs' = refs \ {jpcap_handlers[Slot(Top(t).captor)]}
  /\ calls' = [calls EXCEPT ![t] = SubSeq(@, 1, Len(@) - 1)]
  /\ visited' = visited \ {Top(t).own}
  /\ UNCHANGED <<jni_envs, jpcap_handlers, made, overlapped>>

(* pcap_dispatch returns the number of packets, pcap_loop 0. *)
CountReached(t) ==
  /\ InPcap(t) /\ Top(t).taken = Top(t).count
  /\ Leave(t, IF Top(t).by = "processPacket" THEN Top(t).taken ELSE 0)
  /\ UNCHANGED breaking

TimedOut(t) ==
  /\ InPcap(t) /\ Top(t).by = "processPacket"
  /\ Leave(t, Top(t).taken)
  /\ UNCHANGED breaking

(* pcap_dispatch may leave the order to break to the next call when it has
   packets to return. *)
Broken(t) ==
  /\ InPcap(t) /\ Top(t).captor \in breaking
  /\ \/ Leave(t, -2) /\ breaking' = breaking \ {Top(t).captor}
     \/ /\ Top(t).by = "processPacket" /\ Top(t).taken > 0
        /\ Leave(t, Top(t).taken) /\ UNCHANGED breaking

getPacket(t, c) ==
  /\ MayCall(t)
  /\ c \notin breaking
  /\ jni_envs' = [jni_envs EXCEPT ![Slot(c)] = t]
  /\ visited' = visited \cup InUse(c, Threads \ {t})
  /\ UNCHANGED <<jpcap_handlers, refs, made, breaking, calls, result, overlapped>>

breakLoop(c) ==
  /\ breaking' = breaking \cup {c}
  /\ UNCHANGED <<tableVars, calls, result, historyVars>>

Next ==
  \/ \E t \in Threads, c \in Captors, by \in {"processPacket", "loopPacket"},
        count \in Counts : Call(t, c, by, count)
  \/ \E c \in Captors : breakLoop(c)
  \/ \E t \in Threads, c \in Captors : getPacket(t, c)
  \/ \E t \in Threads : Dispatch(t) \/ Received(t) \/ CountReached(t) \/ TimedOut(t) \/ Broken(t)

Spec == Init /\ [][Next]_vars

-----------------------------------------------------------------------------
(***************************************************************************)
(* Properties                                                              *)
(***************************************************************************)
Refs == [captor : Captors, number : Nat \ {0}]

CallType ==
  [captor : Captors, by : {"processPacket", "loopPacket"}, own : Refs, count : Counts,
   taken : Nat, at : {"pcap", "receivePacket"}, env : Threads \cup {NoThread}, called : Refs \cup {NoRef}]

\* Types.
TypeOK ==
  /\ jni_envs \in [Captors -> Threads \cup {NoThread}]
  /\ jpcap_handlers \in [Captors -> Refs \cup {NoRef}]
  /\ refs \subseteq Refs /\ made \in Nat
  /\ breaking \subseteq Captors
  /\ calls \in [Threads -> Seq(CallType)]
  /\ result \in [taken : Nat, value : Int]
  /\ overlapped \subseteq Refs /\ visited \subseteq Refs

\* However calls overlap, a packet goes to the receiver of a call on the captor that
\* it came from, and never to that of an earlier call than the one that captured it.
\* A call that had its captor to itself hands its packets to its own receiver, and
\* in the environment of its thread unless another one got a packet from the captor
\* meanwhile (processPacket, loopPacket, getPacket, dispatcher_handler).
OwnReceiver ==
  \A t \in Threads : \A call \in CallsOf(t) :
    call.at = "receivePacket" =>
      /\ call.called.captor = call.captor /\ call.called.number >= call.own.number
      /\ call.own \notin overlapped => call.called = call.own
      /\ call.own \notin overlapped \cup visited => call.env = t

\* However calls overlap, a reference is only lost before its call returns, or left
\* behind when it has, if that call overlapped with another one on its captor.
RefsInUse ==
  LET inUse == {call.own : call \in UNION {CallsOf(t) : t \in Threads}}
  IN inUse \ overlapped \subseteq refs /\ refs \subseteq inUse \cup overlapped

\* "an instnace of JpcapHandler that analyzes the captured packets"
\* (JpcapCaptor.java:116): the receiver given to a call gets what it captures.
HandlerAnalyzes ==
  \A t \in Threads : \A call \in CallsOf(t) :
    call.at = "receivePacket" => call.called = call.own

\* "Number of captured packets" (JpcapCaptor.java:132) is what a call returns that
\* ends without an error.
ReturnsCount == result.value >= 0 => result.value = result.taken
=============================================================================
