---------------------------- MODULE Conversations ---------------------------
(***************************************************************************)
(* The conversations window: populateConversations of PacketManager walks  *)
(* over the capture and collects, for each source address, the addresses   *)
(* it sent TCP or UDP packets to; ConversationsController prints what it   *)
(* collected.  Both run on the JavaFX thread, so that nothing but the      *)
(* capture thread, which adds packets, interleaves with them.              *)
(***************************************************************************)
EXTENDS Integers, SequencesExt

CONSTANTS
  Address,
  MaxCapture  \* bound: packets of the capture

ASSUME ConversationsAssumption == MaxCapture \in Nat /\ "none" \notin Address

\* A packet is its addresses; that of another protocol has none to show.
TCPorUDP == [src_ip : Address, dst_ip : Address]
Other == [src_ip |-> "none", dst_ip |-> "none"]
Packet == TCPorUDP \cup {Other}

VARIABLES
  currentCapture,
  conversations,   \* sequences of addresses, the source first
  i,               \* the next packet of the walk, or conversation to print
  pc,              \* "start", "populate", "output", or "shown" when the window is open
  consoleOutput,   \* the lines collected for the window
  atOpen           \* the size of the capture when the window was opened

vars == <<currentCapture, conversations, i, pc, consoleOutput, atOpen>>

\* What the list holds, a null or nothing, when a thread reads it while another
\* adds to it is left out: packets that arrive meanwhile may be seen or not.
Init ==
  /\ currentCapture = <<>> /\ conversations = <<>>
  /\ i = 1 /\ pc = "start" /\ consoleOutput = <<>>
  /\ atOpen = 0

addPacket ==
  /\ Len(currentCapture) < MaxCapture
  /\ \E p \in Packet : currentCapture' = Append(currentCapture, p)
  /\ UNCHANGED <<conversations, i, pc, consoleOutput, atOpen>>

showConversations ==
  /\ pc \in {"start", "shown"}
  /\ conversations' = <<>> /\ i' = 1 /\ pc' = "populate"
  /\ consoleOutput' = <<>>
  /\ atOpen' = Len(currentCapture)
  /\ UNCHANGED currentCapture

\* The first conversation of this source, or -1.
checkIfConvoSourceExists(addr) ==
  LET found == {n \in DOMAIN conversations : conversations[n][1] = addr}
  IN IF found = {} THEN -1 ELSE CHOOSE n \in found : \A m \in found : n <= m

\* Mutation: the source is looked at as well.
DestinationOrSource(sPosition, dAddr) ==
  IF \E n \in DOMAIN conversations[sPosition] : conversations[sPosition][n] = dAddr
    THEN -1 ELSE Len(conversations[sPosition])

\* Mutation: the last destination is not looked at.
AllButTheLast(sPosition, dAddr) ==
  IF \E n \in 2..(Len(conversations[sPosition]) - 1) : conversations[sPosition][n] = dAddr
    THEN -1 ELSE Len(conversations[sPosition])

\* -1 if the address is one of the destinations.
checkIfConvoDestExists(sPosition, dAddr) ==
  IF \E n \in 2..Len(conversations[sPosition]) : conversations[sPosition][n] = dAddr
    THEN -1 ELSE Len(conversations[sPosition])

(* One round of the loop, which asks for the size of the capture each time. *)
Populate ==
  /\ pc = "populate" /\ i <= Len(currentCapture)
  /\ LET packet == currentCapture[i]
         sPosition == checkIfConvoSourceExists(packet.src_ip)
     IN conversations' =
          IF packet = Other THEN conversations
          ELSE IF sPosition = -1 THEN Append(conversations, <<packet.src_ip, packet.dst_ip>>)
          ELSE IF checkIfConvoDestExists(sPosition, packet.dst_ip) = -1 THEN conversations
          ELSE [conversations EXCEPT ![sPosition] = Append(@, packet.dst_ip)]
  /\ i' = i + 1
  /\ UNCHANGED <<currentCapture, pc, consoleOutput, atOpen>>

(* The loop ends when it has caught up with the capture. *)
Populated ==
  /\ pc = "populate" /\ i > Len(currentCapture)
  /\ pc' = "output" /\ i' = 1
  /\ UNCHANGED <<currentCapture, conversations, consoleOutput, atOpen>>

(* populateConversationOutput: a line for each destination of the source. *)
Output ==
  /\ pc = "output" /\ i <= Len(conversations)
  /\ LET tempList == conversations[i]
     IN consoleOutput' =
          consoleOutput \o [j \in 1..(Len(tempList) - 1) |-> <<tempList[1], tempList[j + 1]>>]
  /\ i' = i + 1
  /\ UNCHANGED <<currentCapture, conversations, pc, atOpen>>

Opened ==
  /\ pc = "output" /\ i > Len(conversations)
  /\ pc' = "shown"
  /\ UNCHANGED <<currentCapture, conversations, i, consoleOutput, atOpen>>

Next ==
  addPacket \/ showConversations \/ Populate \/ Populated \/ Output \/ Opened

Spec == Init /\ [][Next]_vars

-----------------------------------------------------------------------------
(***************************************************************************)
(* Properties                                                              *)
(***************************************************************************)
Shown == pc = "shown"

Pairs(capture) == {<<p.src_ip, p.dst_ip>> : p \in ToSet(capture) \ {Other}}

Lines == ToSet(consoleOutput)

\* "This class displays all conversations visible within the current capture"
\* (ConversationsController.java:20): of the packets that were there when the
\* window was opened none is missing, and nothing else is shown.
AllConversations ==
  Shown => /\ Pairs(SubSeq(currentCapture, 1, atOpen)) \subseteq Lines
           /\ Lines \subseteq Pairs(currentCapture)

\* No conversation is shown twice, and no source heads two of them.
ShownOnce ==
  /\ Shown => \A m, n \in DOMAIN consoleOutput : m # n => consoleOutput[m] # consoleOutput[n]
  /\ \A m, n \in DOMAIN conversations : m # n => conversations[m][1] # conversations[n][1]

-----------------------------------------------------------------------------
(***************************************************************************)
(* What makes them inductive                                               *)
(***************************************************************************)
\* A conversation is a source and at least one destination.
TypeOK ==
  /\ currentCapture \in Seq(Packet)
  /\ conversations \in Seq(Seq(Address))
  /\ \A n \in 1..Len(conversations) : Len(conversations[n]) >= 2
  /\ i \in Nat \ {0}
  /\ pc \in {"start", "populate", "output", "shown"}
  /\ consoleOutput \in Seq(Address \X Address)
  /\ atOpen \in 0..Len(currentCapture)

Sends(k, a, b) == currentCapture[k] = [src_ip |-> a, dst_ip |-> b]

\* The n-th conversation has the line a --> b as its j-th.
HasLine(n, j, a, b) == conversations[n][1] = a /\ conversations[n][j + 1] = b

Collected(a, b) ==
  \E n \in 1..Len(conversations) : \E j \in 1..(Len(conversations[n]) - 1) : HasLine(n, j, a, b)

\* Each source has one conversation, and each destination one place in it.
DistinctInv ==
  /\ \A m, n \in 1..Len(conversations) : conversations[m][1] = conversations[n][1] => m = n
  /\ \A n \in 1..Len(conversations) : \A j, k \in 2..Len(conversations[n]) :
       conversations[n][j] = conversations[n][k] => j = k

\* The walk has collected what was sent so far.
WalkInv ==
  /\ pc = "populate" =>
       /\ i - 1 <= Len(currentCapture)
       /\ \A k \in 1..(i - 1) : \A a, b \in Address : Sends(k, a, b) => Collected(a, b)
  /\ pc \in {"output", "shown"} =>
       \A k \in 1..atOpen : \A a, b \in Address : Sends(k, a, b) => Collected(a, b)
  /\ \A a, b \in Address :
       Collected(a, b) => \E k \in 1..Len(currentCapture) : Sends(k, a, b)

\* The lines are those of the conversations up to the i-th, each once.
LinesInv ==
  /\ pc = "populate" => consoleOutput = <<>>
  /\ pc \in {"output", "shown"} =>
       /\ i - 1 <= Len(conversations)
       /\ pc = "shown" => i - 1 = Len(conversations)
       /\ \A l \in 1..Len(consoleOutput) :
            \E n \in 1..(i - 1) : \E j \in 1..(Len(conversations[n]) - 1) :
              HasLine(n, j, consoleOutput[l][1], consoleOutput[l][2])
       /\ \A n \in 1..(i - 1) : \A j \in 1..(Len(conversations[n]) - 1) :
            \E l \in 1..Len(consoleOutput) :
              HasLine(n, j, consoleOutput[l][1], consoleOutput[l][2])
       /\ \A l, m \in 1..Len(consoleOutput) : consoleOutput[l] = consoleOutput[m] => l = m

ConversationsInv == TypeOK /\ DistinctInv /\ WalkInv /\ LinesInv
=============================================================================
