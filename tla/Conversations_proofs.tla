------------------------ MODULE Conversations_proofs ------------------------
(***************************************************************************)
(* Proofs about Conversations, for any addresses and any capture: what the *)
(* walk has collected and what has been printed of it, packet by packet    *)
(* and conversation by conversation.                                       *)
(***************************************************************************)
EXTENDS Conversations, SequenceTheorems, TLAPS

-----------------------------------------------------------------------------
(***************************************************************************)
(* What the type invariant says of one element                             *)
(***************************************************************************)
LEMMA PacketFields ==
  /\ Other \notin TCPorUDP
  /\ \A p \in TCPorUDP : /\ p.src_ip \in Address /\ p.dst_ip \in Address
                         /\ p = [src_ip |-> p.src_ip, dst_ip |-> p.dst_ip]
  /\ \A a, b \in Address : [src_ip |-> a, dst_ip |-> b] \in TCPorUDP
BY ConversationsAssumption DEF Other, TCPorUDP

LEMMA Element ==
  ASSUME NEW c \in Seq(Seq(Address)), NEW n \in 1..Len(c), Len(c[n]) >= 2
  PROVE  /\ c[n] \in Seq(Address) /\ Len(c[n]) \in Nat /\ c[n][1] \in Address
         /\ \A j \in 1..Len(c[n]) : c[n][j] \in Address
         /\ \A j \in 1..(Len(c[n]) - 1) : c[n][j + 1] \in Address
<1>1. c[n] \in Seq(Address)
  BY ElementOfSeq
<1>2. Len(c[n]) \in Nat
  BY <1>1, LenProperties
<1>3. \A j \in 1..Len(c[n]) : c[n][j] \in Address
  BY <1>1, ElementOfSeq
<1>4. 1 \in 1..Len(c[n]) /\ \A j \in 1..(Len(c[n]) - 1) : j + 1 \in 1..Len(c[n])
  BY <1>2
<1> QED
  BY <1>1, <1>2, <1>3, <1>4

-----------------------------------------------------------------------------
(***************************************************************************)
(* A round of the walk                                                     *)
(***************************************************************************)
\* What a round has to bring about: the conversations are still conversations,
\* and what they hold is what they held and the packet looked at.
RoundDone ==
  /\ conversations' \in Seq(Seq(Address))
  /\ \A n \in 1..Len(conversations') : Len(conversations'[n]) >= 2
  /\ DistinctInv'
  /\ \A a, b \in Address : Collected(a, b)' <=> Collected(a, b) \/ Sends(i, a, b)

\* The search finds the only conversation that the source heads, if any.
LEMMA SourceSearch ==
  ASSUME TypeOK, DistinctInv, NEW s \in Address,
         NEW p, p = checkIfConvoSourceExists(s)
  PROVE  \/ p = -1 /\ \A n \in 1..Len(conversations) : conversations[n][1] # s
         \/ p \in 1..Len(conversations) /\ conversations[p][1] = s
<1> DEFINE found == {n \in DOMAIN conversations : conversations[n][1] = s}
<1>1. DOMAIN conversations = 1..Len(conversations)
  BY LenProperties DEF TypeOK
<1>2. CASE found = {}
  BY <1>1, <1>2 DEF checkIfConvoSourceExists
<1>3. CASE found # {}
  <2>1. PICK n \in found : TRUE
    BY <1>3
  <2>2. \A m \in found : m = n
    BY <1>1, <2>1 DEF DistinctInv
  <2>3. n \in 1..Len(conversations) /\ n <= n
    BY <1>1, <2>1 DEF TypeOK
  <2>4. p = CHOOSE k \in found : \A m \in found : k <= m
    BY <1>3 DEF checkIfConvoSourceExists
  <2>5. \E k \in found : \A m \in found : k <= m
    BY <2>1, <2>2, <2>3
  <2>6. p \in found
    BY <2>4, <2>5
  <2> QED
    BY <1>1, <2>6
<1> QED
  BY <1>2, <1>3

\* A packet of a source that heads no conversation.
LEMMA NewConversation ==
  ASSUME TypeOK, DistinctInv, NEW s \in Address, NEW d \in Address,
         \A n \in 1..Len(conversations) : conversations[n][1] # s,
         conversations' = Append(conversations, <<s, d>>),
         \A a, b \in Address : Sends(i, a, b) <=> a = s /\ b = d
  PROVE  RoundDone
<1> DEFINE c == conversations
           z == Len(c) + 1
<1>1. c \in Seq(Seq(Address)) /\ Len(c) \in Nat /\ \A n \in 1..Len(c) : Len(c[n]) >= 2
  BY LenProperties DEF TypeOK
<1>2. <<s, d>> \in Seq(Address) /\ Len(<<s, d>>) = 2 /\ <<s, d>>[1] = s /\ <<s, d>>[2] = d
  OBVIOUS
<1>3. /\ c' \in Seq(Seq(Address)) /\ Len(c') = z
      /\ \A n \in 1..Len(c) : c'[n] = c[n]
      /\ c'[z] = <<s, d>>
  BY <1>1, <1>2, AppendProperties
<1>4. \A n \in 1..Len(c') : n \in 1..Len(c) \/ n = z
  BY <1>1, <1>3
<1>5. z \in 1..Len(c') /\ \A n \in 1..Len(c) : n \in 1..Len(c')
  BY <1>1, <1>3
<1>6. \A n \in 1..Len(c') : Len(c'[n]) >= 2
  BY <1>1, <1>2, <1>3, <1>4
<1>7. DistinctInv'
  <2>1. ASSUME NEW m \in 1..Len(c'), NEW n \in 1..Len(c'), c'[m][1] = c'[n][1]
        PROVE  m = n
    BY <1>2, <1>3, <1>4, <2>1 DEF DistinctInv
  <2>2. ASSUME NEW n \in 1..Len(c'), NEW j \in 2..Len(c'[n]), NEW k \in 2..Len(c'[n]),
               c'[n][j] = c'[n][k]
        PROVE  j = k
    <3>1. CASE n \in 1..Len(c)
      <4>1. c'[n] = c[n]
        BY <1>3, <3>1
      <4>2. j \in 2..Len(c[n]) /\ k \in 2..Len(c[n]) /\ c[n][j] = c[n][k]
        BY <2>2, <4>1
      <4> QED
        BY <3>1, <4>2 DEF DistinctInv
    <3>2. CASE n = z
      BY <1>2, <1>3, <3>2
    <3> QED
      BY <1>4, <3>1, <3>2
  <2> QED
    BY <2>1, <2>2 DEF DistinctInv
<1>8. ASSUME NEW a \in Address, NEW b \in Address
      PROVE  Collected(a, b)' <=> Collected(a, b) \/ Sends(i, a, b)
  <2>1. ASSUME Collected(a, b)' PROVE Collected(a, b) \/ Sends(i, a, b)
    <3>0. PICK n \in 1..Len(c') :
            \E j \in 1..(Len(c'[n]) - 1) : c'[n][1] = a /\ c'[n][j + 1] = b
      BY <2>1 DEF Collected, HasLine
    <3>1. PICK j \in 1..(Len(c'[n]) - 1) : c'[n][1] = a /\ c'[n][j + 1] = b
      BY <3>0
    <3>2. CASE n \in 1..Len(c)
      BY <1>3, <3>1, <3>2 DEF Collected, HasLine
    <3>3. CASE n = z
      BY <1>2, <1>3, <3>1, <3>3
    <3> QED
      BY <1>4, <3>2, <3>3
  <2>2. ASSUME Collected(a, b) PROVE Collected(a, b)'
    BY <1>3, <1>5, <2>2 DEF Collected, HasLine
  <2>3. ASSUME Sends(i, a, b) PROVE Collected(a, b)'
    <3>1. a = s /\ b = d
      BY <2>3
    <3>2. 1 \in 1..(Len(c'[z]) - 1) /\ c'[z][1] = a /\ c'[z][1 + 1] = b
      BY <1>2, <1>3, <3>1
    <3> QED
      BY <1>5, <3>2 DEF Collected, HasLine
  <2> QED
    BY <2>1, <2>2, <2>3
<1> QED
  BY <1>3, <1>6, <1>7, <1>8 DEF RoundDone

\* A packet of a source that heads the p-th, to an address it has not.
LEMMA NewDestination ==
  ASSUME TypeOK, DistinctInv, NEW s \in Address, NEW d \in Address,
         NEW p \in 1..Len(conversations), conversations[p][1] = s,
         \A j \in 2..Len(conversations[p]) : conversations[p][j] # d,
         conversations' = [conversations EXCEPT ![p] = Append(@, d)],
         \A a, b \in Address : Sends(i, a, b) <=> a = s /\ b = d
  PROVE  RoundDone
<1> DEFINE c == conversations
           z == Len(c[p]) + 1
<1>1. c \in Seq(Seq(Address)) /\ \A n \in 1..Len(c) : Len(c[n]) >= 2
  BY DEF TypeOK
<1>2. c[p] \in Seq(Address) /\ Len(c[p]) \in Nat /\ Len(c[p]) >= 2
  BY <1>1, Element
<1>3. /\ Append(c[p], d) \in Seq(Address) /\ Len(Append(c[p], d)) = z
      /\ \A j \in 1..Len(c[p]) : Append(c[p], d)[j] = c[p][j]
      /\ Append(c[p], d)[z] = d
  BY <1>2, AppendProperties
<1>4. c' = [c EXCEPT ![p] = Append(c[p], d)]
  BY <1>1
<1>5. /\ c' \in Seq(Seq(Address)) /\ Len(c') = Len(c)
      /\ \A n \in 1..Len(c) : c'[n] = IF n = p THEN Append(c[p], d) ELSE c[n]
  BY <1>1, <1>3, <1>4, ExceptSeq
<1>6. /\ \A n \in 1..Len(c) : n # p => c'[n] = c[n]
      /\ Len(c'[p]) = z /\ \A j \in 1..Len(c[p]) : c'[p][j] = c[p][j]
      /\ c'[p][z] = d
  BY <1>3, <1>5
<1>7. \A n \in 1..Len(c') : Len(c'[n]) >= 2 /\ c'[n][1] = c[n][1]
  BY <1>1, <1>2, <1>5, <1>6
<1>8. DistinctInv'
  <2>1. ASSUME NEW m \in 1..Len(c'), NEW n \in 1..Len(c'), c'[m][1] = c'[n][1]
        PROVE  m = n
    BY <1>5, <1>7, <2>1 DEF DistinctInv
  <2>2. ASSUME NEW n \in 1..Len(c'), NEW j \in 2..Len(c'[n]), NEW k \in 2..Len(c'[n]),
               c'[n][j] = c'[n][k]
        PROVE  j = k
    <3>1. CASE n # p
      BY <1>5, <1>6, <2>2, <3>1 DEF DistinctInv
    <3>2. CASE n = p
      <4>1. j \in 2..Len(c[p]) \/ j = z
        BY <1>2, <1>6, <3>2
      <4>2. k \in 2..Len(c[p]) \/ k = z
        BY <1>2, <1>6, <3>2
      <4>3. \A l \in 2..Len(c[p]) : c'[p][l] = c[p][l]
        BY <1>2, <1>6
      <4>4. c'[p][j] = c'[p][k]
        BY <2>2, <3>2
      <4> QED
        BY <1>6, <4>1, <4>2, <4>3, <4>4 DEF DistinctInv
    <3> QED
      BY <3>1, <3>2
  <2> QED
    BY <2>1, <2>2 DEF DistinctInv
<1>9. ASSUME NEW a \in Address, NEW b \in Address
      PROVE  Collected(a, b)' <=> Collected(a, b) \/ Sends(i, a, b)
  <2>1. ASSUME Collected(a, b)' PROVE Collected(a, b) \/ Sends(i, a, b)
    <3>0. PICK n \in 1..Len(c') :
            \E j \in 1..(Len(c'[n]) - 1) : c'[n][1] = a /\ c'[n][j + 1] = b
      BY <2>1 DEF Collected, HasLine
    <3>1. PICK j \in 1..(Len(c'[n]) - 1) : c'[n][1] = a /\ c'[n][j + 1] = b
      BY <3>0
    <3>2. CASE n # p
      BY <1>5, <1>6, <3>1, <3>2 DEF Collected, HasLine
    <3>3. CASE n = p
      <4>1. c[p][1] = a
        BY <1>5, <1>7, <3>1, <3>3
      <4>2. CASE j + 1 = z
        BY <1>6, <3>1, <3>3, <4>1, <4>2
      <4>3. CASE j + 1 # z
        <5>1. j \in 1..(Len(c[p]) - 1) /\ j + 1 \in 1..Len(c[p])
          BY <1>2, <1>6, <3>1, <3>3, <4>3
        <5>2. c[p][j + 1] = b
          BY <1>6, <3>1, <3>3, <5>1
        <5> QED
          BY <4>1, <5>1, <5>2 DEF Collected, HasLine
      <4> QED
        BY <4>2, <4>3
    <3> QED
      BY <3>2, <3>3
  <2>2. ASSUME Collected(a, b) PROVE Collected(a, b)'
    <3>0. PICK n \in 1..Len(c) :
            \E j \in 1..(Len(c[n]) - 1) : c[n][1] = a /\ c[n][j + 1] = b
      BY <2>2 DEF Collected, HasLine
    <3>1. PICK j \in 1..(Len(c[n]) - 1) : c[n][1] = a /\ c[n][j + 1] = b
      BY <3>0
    <3>2. j \in 1..(Len(c'[n]) - 1) /\ c'[n][j + 1] = c[n][j + 1]
      <4>1. CASE n # p
        BY <1>6, <4>1
      <4>2. CASE n = p
        <5>1. j \in 1..(Len(c'[p]) - 1) /\ j + 1 \in 1..Len(c[p])
          BY <1>2, <1>6, <4>2
        <5> QED
          BY <1>6, <4>2, <5>1
      <4> QED
        BY <4>1, <4>2
    <3>3. n \in 1..Len(c') /\ c'[n][1] = a /\ c'[n][j + 1] = b
      BY <1>5, <1>7, <3>1, <3>2
    <3> QED
      BY <3>2, <3>3 DEF Collected, HasLine
  <2>3. ASSUME Sends(i, a, b) PROVE Collected(a, b)'
    <3>1. a = s /\ b = d
      BY <2>3
    <3>2. Len(c[p]) \in 1..(Len(c'[p]) - 1) /\ c'[p][1] = a /\ c'[p][Len(c[p]) + 1] = b
      BY <1>2, <1>5, <1>6, <1>7, <3>1
    <3>3. p \in 1..Len(c')
      BY <1>5
    <3> QED
      BY <3>2, <3>3 DEF Collected, HasLine
  <2> QED
    BY <2>1, <2>2, <2>3
<1> QED
  BY <1>5, <1>7, <1>8, <1>9 DEF RoundDone

\* Where nothing is added the packet is of another protocol, or it is there.
LEMMA NothingNew ==
  ASSUME TypeOK, DistinctInv, conversations' = conversations,
         \A a, b \in Address : Sends(i, a, b) => Collected(a, b)
  PROVE  RoundDone
<1>1. \A a, b : Collected(a, b)' <=> Collected(a, b)
  BY DEF Collected, HasLine
<1>2. DistinctInv'
  BY DEF DistinctInv
<1> QED
  BY <1>1, <1>2 DEF RoundDone, TypeOK

LEMMA PopulateRound ==
  ASSUME TypeOK, DistinctInv, Populate
  PROVE  RoundDone
<1> DEFINE packet == currentCapture[i]
           s == packet.src_ip
           d == packet.dst_ip
           p == checkIfConvoSourceExists(s)
<1>1. i \in 1..Len(currentCapture) /\ packet \in TCPorUDP \cup {Other}
  <2>1. i \in 1..Len(currentCapture)
    BY LenProperties DEF TypeOK, Populate
  <2> QED
    BY <2>1, ElementOfSeq DEF TypeOK, Packet
<1>2. CASE packet = Other
  <2>1. \A a, b \in Address : ~Sends(i, a, b)
    BY <1>2, PacketFields DEF Sends
  <2>2. conversations' = conversations
    BY <1>2 DEF Populate
  <2> QED
    BY <2>1, <2>2, NothingNew
<1>3. CASE packet # Other
  <2>1. s \in Address /\ d \in Address /\ packet = [src_ip |-> s, dst_ip |-> d]
    BY <1>1, <1>3, PacketFields
  <2>2. \A a, b \in Address : Sends(i, a, b) <=> a = s /\ b = d
    BY <2>1 DEF Sends
  <2>3. \/ p = -1 /\ \A n \in 1..Len(conversations) : conversations[n][1] # s
        \/ p \in 1..Len(conversations) /\ conversations[p][1] = s
    BY <2>1, SourceSearch
  <2>4. conversations' =
          IF p = -1 THEN Append(conversations, <<s, d>>)
          ELSE IF checkIfConvoDestExists(p, d) = -1 THEN conversations
          ELSE [conversations EXCEPT ![p] = Append(@, d)]
    BY <1>3 DEF Populate
  <2> HIDE DEF packet, s, d, p
  <2>5. CASE p = -1
    <3>1. \A n \in 1..Len(conversations) : conversations[n][1] # s
      BY <2>3, <2>5
    <3>2. conversations' = Append(conversations, <<s, d>>)
      BY <2>4, <2>5
    <3> QED
      BY <2>1, <2>2, <3>1, <3>2, NewConversation
  <2>6. CASE p # -1
    <3>1. p \in 1..Len(conversations) /\ conversations[p][1] = s
      BY <2>3, <2>6
    <3>2. conversations[p] \in Seq(Address) /\ Len(conversations[p]) \in Nat
      BY <3>1, Element DEF TypeOK
    <3>3. CASE \E n \in 2..Len(conversations[p]) : conversations[p][n] = d
      <4>1. conversations' = conversations
        BY <2>4, <2>6, <3>3 DEF checkIfConvoDestExists
      <4>2. PICK n \in 2..Len(conversations[p]) : conversations[p][n] = d
        BY <3>3
      <4>3. n - 1 \in 1..(Len(conversations[p]) - 1) /\ (n - 1) + 1 = n
        BY <3>2, <4>2
      <4>4. Collected(s, d)
        BY <3>1, <4>2, <4>3 DEF Collected, HasLine
      <4> QED
        BY <2>2, <4>1, <4>4, NothingNew
    <3>4. CASE ~\E n \in 2..Len(conversations[p]) : conversations[p][n] = d
      <4>1. checkIfConvoDestExists(p, d) = Len(conversations[p])
        BY <3>4 DEF checkIfConvoDestExists
      <4>2. conversations' = [conversations EXCEPT ![p] = Append(@, d)]
        BY <2>4, <2>6, <3>2, <4>1
      <4> QED
        BY <2>1, <2>2, <3>1, <3>4, <4>2, NewDestination
    <3> QED
      BY <3>3, <3>4
  <2> QED
    BY <2>5, <2>6
<1> QED
  BY <1>2, <1>3

-----------------------------------------------------------------------------
(***************************************************************************)
(* The steps                                                               *)
(***************************************************************************)
\* Where the walk and the conversations stay, what a longer capture says of them
\* is what the shorter one said.
LEMMA AddPacketStep == ASSUME ConversationsInv, addPacket PROVE ConversationsInv'
<1>1. PICK q \in Packet : currentCapture' = Append(currentCapture, q)
  BY DEF addPacket
<1>2. currentCapture \in Seq(Packet) /\ Len(currentCapture) \in Nat
  BY LenProperties DEF ConversationsInv, TypeOK
<1>3. /\ currentCapture' \in Seq(Packet)
      /\ Len(currentCapture') = Len(currentCapture) + 1
      /\ \A k \in 1..Len(currentCapture) : currentCapture'[k] = currentCapture[k]
  BY <1>1, <1>2, AppendProperties
<1>4. UNCHANGED <<conversations, i, pc, consoleOutput, atOpen>>
  BY DEF addPacket
<1>5. \A k \in 1..Len(currentCapture) :
        k \in 1..Len(currentCapture') /\ \A a, b : Sends(k, a, b)' <=> Sends(k, a, b)
  BY <1>2, <1>3 DEF Sends
<1>6. \A a, b : Collected(a, b)' <=> Collected(a, b)
  BY <1>4 DEF Collected, HasLine
<1>7. TypeOK'
  BY <1>2, <1>3, <1>4 DEF ConversationsInv, TypeOK
<1>8. DistinctInv' /\ LinesInv'
  BY <1>4 DEF ConversationsInv, DistinctInv, LinesInv, HasLine
<1>9. WalkInv'
  <2>1. i \in Nat \ {0} /\ atOpen \in 0..Len(currentCapture)
    BY DEF ConversationsInv, TypeOK
  <2>2. ASSUME pc' = "populate"
        PROVE  /\ i' - 1 <= Len(currentCapture')
               /\ \A k \in 1..(i' - 1) : \A a, b \in Address : Sends(k, a, b)' => Collected(a, b)'
    <3>1. /\ i - 1 <= Len(currentCapture)
          /\ \A k \in 1..(i - 1) : \A a, b \in Address : Sends(k, a, b) => Collected(a, b)
      BY <1>4, <2>2 DEF ConversationsInv, WalkInv
    <3>2. \A k \in 1..(i - 1) : k \in 1..Len(currentCapture)
      BY <1>2, <2>1, <3>1
    <3>3. i' - 1 <= Len(currentCapture')
      BY <1>2, <1>3, <1>4, <2>1, <3>1
    <3> QED
      BY <1>4, <1>5, <1>6, <3>1, <3>2, <3>3
  <2>3. ASSUME pc' \in {"output", "shown"}
        PROVE  \A k \in 1..atOpen' : \A a, b \in Address : Sends(k, a, b)' => Collected(a, b)'
    <3>1. \A k \in 1..atOpen : \A a, b \in Address : Sends(k, a, b) => Collected(a, b)
      BY <1>4, <2>3 DEF ConversationsInv, WalkInv
    <3>2. \A k \in 1..atOpen : k \in 1..Len(currentCapture)
      BY <1>2, <2>1
    <3> QED
      BY <1>4, <1>5, <1>6, <3>1, <3>2
  <2>4. \A a, b \in Address :
          Collected(a, b) => \E k \in 1..Len(currentCapture) : Sends(k, a, b)
    BY DEF ConversationsInv, WalkInv
  <2>5. \A a, b \in Address :
          Collected(a, b)' => \E k \in 1..Len(currentCapture') : Sends(k, a, b)'
    BY <1>5, <1>6, <2>4
  <2> QED
    BY <2>2, <2>3, <2>5 DEF WalkInv
<1> QED
  BY <1>7, <1>8, <1>9 DEF ConversationsInv

LEMMA NothingCollected == ASSUME conversations = <<>> PROVE \A a, b : ~Collected(a, b)
BY DEF Collected

LEMMA ShowStep == ASSUME ConversationsInv, showConversations PROVE ConversationsInv'
<1>1. /\ conversations' = <<>> /\ i' = 1 /\ pc' = "populate" /\ consoleOutput' = <<>>
      /\ atOpen' = Len(currentCapture) /\ currentCapture' = currentCapture
  BY DEF showConversations
<1>2. currentCapture \in Seq(Packet) /\ Len(currentCapture) \in Nat
  BY LenProperties DEF ConversationsInv, TypeOK
<1>3. TypeOK'
  BY <1>1, <1>2 DEF TypeOK
<1>4. DistinctInv' /\ LinesInv'
  BY <1>1 DEF DistinctInv, LinesInv
<1>5. \A a, b : ~Collected(a, b)'
  BY <1>1 DEF Collected
<1>6. WalkInv'
  BY <1>1, <1>2, <1>5 DEF WalkInv
<1> QED
  BY <1>3, <1>4, <1>6 DEF ConversationsInv

LEMMA PopulateStep == ASSUME ConversationsInv, Populate PROVE ConversationsInv'
<1>1. RoundDone
  BY PopulateRound DEF ConversationsInv
<1>2. /\ pc = "populate" /\ i <= Len(currentCapture) /\ i' = i + 1
      /\ UNCHANGED <<currentCapture, pc, consoleOutput, atOpen>>
  BY DEF Populate
<1>3. i \in Nat \ {0} /\ Len(currentCapture) \in Nat /\ atOpen \in 0..Len(currentCapture)
  BY LenProperties DEF ConversationsInv, TypeOK
<1>4. TypeOK'
  BY <1>1, <1>2, <1>3 DEF ConversationsInv, TypeOK, RoundDone
<1>5. DistinctInv'
  BY <1>1 DEF RoundDone
<1>6. \A k, a, b : Sends(k, a, b)' <=> Sends(k, a, b)
  BY <1>2 DEF Sends
<1>7. \A a, b \in Address : Collected(a, b)' <=> Collected(a, b) \/ Sends(i, a, b)
  BY <1>1 DEF RoundDone
<1>8. WalkInv'
  <2>1. \A k \in 1..(i - 1) : \A a, b \in Address : Sends(k, a, b) => Collected(a, b)
    BY <1>2 DEF ConversationsInv, WalkInv
  <2>2. \A k \in 1..(i' - 1) : k \in 1..(i - 1) \/ k = i
    BY <1>2, <1>3
  <2>3. \A k \in 1..(i' - 1) : \A a, b \in Address : Sends(k, a, b)' => Collected(a, b)'
    BY <1>6, <1>7, <2>1, <2>2
  <2>4. i' - 1 <= Len(currentCapture')
    BY <1>2, <1>3
  <2>5. \A a, b \in Address :
          Collected(a, b) => \E k \in 1..Len(currentCapture) : Sends(k, a, b)
    BY DEF ConversationsInv, WalkInv
  <2>6. i \in 1..Len(currentCapture)
    BY <1>2, <1>3
  <2>7. \A a, b \in Address :
          Collected(a, b)' => \E k \in 1..Len(currentCapture') : Sends(k, a, b)'
    BY <1>2, <1>6, <1>7, <2>5, <2>6
  <2> QED
    BY <1>2, <2>3, <2>4, <2>7 DEF WalkInv
<1>9. LinesInv'
  BY <1>2 DEF ConversationsInv, LinesInv
<1> QED
  BY <1>4, <1>5, <1>8, <1>9 DEF ConversationsInv

LEMMA PopulatedStep == ASSUME ConversationsInv, Populated PROVE ConversationsInv'
<1>1. /\ pc = "populate" /\ i > Len(currentCapture) /\ pc' = "output" /\ i' = 1
      /\ UNCHANGED <<currentCapture, conversations, consoleOutput, atOpen>>
  BY DEF Populated
<1>2. i \in Nat \ {0} /\ Len(currentCapture) \in Nat /\ atOpen \in 0..Len(currentCapture)
  BY LenProperties DEF ConversationsInv, TypeOK
<1>3. TypeOK'
  BY <1>1 DEF ConversationsInv, TypeOK
<1>4. DistinctInv'
  BY <1>1 DEF ConversationsInv, DistinctInv
<1>5. \A k, a, b : Sends(k, a, b)' <=> Sends(k, a, b)
  BY <1>1 DEF Sends
<1>6. \A a, b : Collected(a, b)' <=> Collected(a, b)
  BY <1>1 DEF Collected, HasLine
<1>7. WalkInv'
  <2>1. \A k \in 1..(i - 1) : \A a, b \in Address : Sends(k, a, b) => Collected(a, b)
    BY <1>1 DEF ConversationsInv, WalkInv
  <2>2. \A k \in 1..atOpen : k \in 1..(i - 1)
    BY <1>1, <1>2
  <2>3. \A a, b \in Address :
          Collected(a, b) => \E k \in 1..Len(currentCapture) : Sends(k, a, b)
    BY DEF ConversationsInv, WalkInv
  <2> QED
    BY <1>1, <1>5, <1>6, <2>1, <2>2, <2>3 DEF WalkInv
<1>8. LinesInv'
  <2>1. consoleOutput' = <<>> /\ Len(conversations') \in Nat
    BY <1>1, LenProperties DEF ConversationsInv, TypeOK, LinesInv
  <2>2. ASSUME NEW x PROVE ~(x \in 1..(i' - 1)) /\ ~(x \in 1..Len(consoleOutput'))
    BY <1>1, <2>1
  <2> QED
    BY <1>1, <2>1, <2>2 DEF LinesInv
<1> QED
  BY <1>3, <1>4, <1>7, <1>8 DEF ConversationsInv

LEMMA OpenedStep == ASSUME ConversationsInv, Opened PROVE ConversationsInv'
<1>1. /\ pc = "output" /\ i > Len(conversations) /\ pc' = "shown"
      /\ UNCHANGED <<currentCapture, conversations, i, consoleOutput, atOpen>>
  BY DEF Opened
<1>2. TypeOK' /\ DistinctInv'
  BY <1>1 DEF ConversationsInv, TypeOK, DistinctInv
<1>3. WalkInv'
  BY <1>1 DEF ConversationsInv, WalkInv, Collected, HasLine, Sends
<1>4. LinesInv'
  <2>1. i \in Nat /\ Len(conversations) \in Nat
    BY LenProperties DEF ConversationsInv, TypeOK
  <2>2. i - 1 <= Len(conversations)
    BY <1>1 DEF ConversationsInv, LinesInv
  <2>3. i - 1 = Len(conversations)
    BY <1>1, <2>1, <2>2
  <2> QED
    BY <1>1, <2>3 DEF ConversationsInv, LinesInv, HasLine
<1> QED
  BY <1>2, <1>3, <1>4 DEF ConversationsInv

\* A conversation is printed after the others: its lines are new, because no other
\* has its source and it has no destination twice.
LEMMA OutputStep == ASSUME ConversationsInv, Output PROVE ConversationsInv'
<1> DEFINE c == conversations
           o == consoleOutput
           z == Len(c[i]) - 1
           new == [j \in 1..z |-> <<c[i][1], c[i][j + 1]>>]
<1>1. /\ pc = "output" /\ i <= Len(c) /\ i' = i + 1 /\ o' = o \o new
      /\ UNCHANGED <<currentCapture, conversations, pc, atOpen>>
  BY DEF Output
<1>2. /\ i \in Nat \ {0} /\ c \in Seq(Seq(Address)) /\ Len(c) \in Nat
      /\ o \in Seq(Address \X Address) /\ Len(o) \in Nat
  BY LenProperties DEF ConversationsInv, TypeOK
<1>3. i \in 1..Len(c)
  BY <1>1, <1>2
<1>4. /\ z \in Nat /\ c[i][1] \in Address
      /\ \A j \in 1..z : c[i][j + 1] \in Address
  BY <1>2, <1>3, Element DEF ConversationsInv, TypeOK
<1>5. /\ new \in Seq(Address \X Address) /\ Len(new) = z
      /\ \A j \in 1..z : new[j] = <<c[i][1], c[i][j + 1]>>
  BY <1>4
<1> HIDE DEF new
<1>6. /\ o' \in Seq(Address \X Address) /\ Len(o') = Len(o) + z
      /\ \A l \in 1..(Len(o) + z) : o'[l] = IF l <= Len(o) THEN o[l] ELSE new[l - Len(o)]
  <2>1. /\ o \o new \in Seq(Address \X Address) /\ Len(o \o new) = Len(o) + Len(new)
        /\ \A l \in 1..(Len(o) + Len(new)) :
             (o \o new)[l] = IF l <= Len(o) THEN o[l] ELSE new[l - Len(o)]
    BY <1>2, <1>5, ConcatProperties
  <2> QED
    BY <1>1, <1>5, <2>1
<1>7. \A l \in 1..Len(o) : l \in 1..Len(o') /\ o'[l] = o[l]
  BY <1>2, <1>4, <1>6
<1>8. \A j \in 1..z : /\ Len(o) + j \in 1..Len(o')
                     /\ o'[Len(o) + j] = <<c[i][1], c[i][j + 1]>>
  <2>1. ASSUME NEW j \in 1..z
        PROVE  Len(o) + j \in 1..Len(o') /\ o'[Len(o) + j] = new[j]
    <3>1. j \in Nat /\ Len(o) + j \in 1..(Len(o) + z) /\ ~(Len(o) + j <= Len(o))
          /\ (Len(o) + j) - Len(o) = j
      BY <1>2, <1>4
    <3> QED
      BY <1>6, <3>1
  <2> QED
    BY <1>5, <2>1
<1>9. \A l \in 1..Len(o') : l \in 1..Len(o) \/ \E j \in 1..z : l = Len(o) + j
  <2>1. ASSUME NEW l \in 1..Len(o'), l \notin 1..Len(o)
        PROVE  l - Len(o) \in 1..z /\ l = Len(o) + (l - Len(o))
    BY <1>2, <1>4, <1>6, <2>1
  <2> QED
    BY <2>1
<1>10. TypeOK'
  BY <1>1, <1>2, <1>6 DEF ConversationsInv, TypeOK
<1>11. DistinctInv'
  BY <1>1 DEF ConversationsInv, DistinctInv
<1>12. WalkInv'
  BY <1>1 DEF ConversationsInv, WalkInv, Collected, HasLine, Sends
<1>13. LinesInv'
  <2>1. /\ i - 1 <= Len(c)
        /\ \A l \in 1..Len(o) : \E n \in 1..(i - 1) : \E j \in 1..(Len(c[n]) - 1) :
              HasLine(n, j, o[l][1], o[l][2])
        /\ \A n \in 1..(i - 1) : \A j \in 1..(Len(c[n]) - 1) : \E l \in 1..Len(o) :
              HasLine(n, j, o[l][1], o[l][2])
        /\ \A l, m \in 1..Len(o) : o[l] = o[m] => l = m
    BY <1>1 DEF ConversationsInv, LinesInv
  <2>2. /\ \A n \in 1..(i - 1) : n \in 1..(i' - 1) /\ n \in 1..Len(c) /\ n # i
        /\ i \in 1..(i' - 1) /\ i' - 1 <= Len(c)
        /\ \A n \in 1..(i' - 1) : n \in 1..(i - 1) \/ n = i
    BY <1>1, <1>2
  <2>3. \A n, j, a, b : HasLine(n, j, a, b)' <=> HasLine(n, j, a, b)
    BY <1>1 DEF HasLine
  <2>4. \A j \in 1..z : /\ o'[Len(o) + j][1] = c[i][1] /\ o'[Len(o) + j][2] = c[i][j + 1]
                       /\ HasLine(i, j, o'[Len(o) + j][1], o'[Len(o) + j][2])
    BY <1>8 DEF HasLine
  <2>5. ASSUME NEW l \in 1..Len(o')
        PROVE  \E n \in 1..(i' - 1) : \E j \in 1..(Len(c[n]) - 1) :
                 HasLine(n, j, o'[l][1], o'[l][2])
    <3>1. CASE l \in 1..Len(o)
      BY <1>7, <2>1, <2>2, <3>1
    <3>2. CASE \E j \in 1..z : l = Len(o) + j
      BY <2>2, <2>4, <3>2
    <3> QED
      BY <1>9, <3>1, <3>2
  <2>6. ASSUME NEW n \in 1..(i' - 1), NEW j \in 1..(Len(c[n]) - 1)
        PROVE  \E l \in 1..Len(o') : HasLine(n, j, o'[l][1], o'[l][2])
    <3>1. CASE n \in 1..(i - 1)
      BY <1>7, <2>1, <3>1
    <3>2. CASE n = i
      BY <1>8, <2>4, <3>2
    <3> QED
      BY <2>2, <3>1, <3>2
  <2>7. \A l \in 1..Len(o) : \A j \in 1..z : o'[l] # o'[Len(o) + j]
    <3>1. SUFFICES ASSUME NEW l \in 1..Len(o), NEW j \in 1..z, o'[l] = o'[Len(o) + j]
                   PROVE  FALSE
      OBVIOUS
    <3>2. PICK n \in 1..(i - 1) : \E k \in 1..(Len(c[n]) - 1) : HasLine(n, k, o[l][1], o[l][2])
      BY <2>1
    <3>3. c[n][1] = o[l][1]
      BY <3>2 DEF HasLine
    <3>4. c[n][1] = c[i][1]
      BY <1>7, <2>4, <3>1, <3>3
    <3>5. n \in 1..Len(c) /\ n # i
      BY <2>2
    <3> QED
      BY <1>3, <3>4, <3>5 DEF ConversationsInv, DistinctInv
  <2>8. \A j, k \in 1..z : o'[Len(o) + j] = o'[Len(o) + k] => j = k
    <3>1. SUFFICES ASSUME NEW j \in 1..z, NEW k \in 1..z, o'[Len(o) + j] = o'[Len(o) + k]
                   PROVE  j = k
      OBVIOUS
    <3>2. c[i][j + 1] = c[i][k + 1]
      <4>1. o'[Len(o) + j][2] = c[i][j + 1] /\ o'[Len(o) + k][2] = c[i][k + 1]
        BY <2>4
      <4>2. o'[Len(o) + j][2] = o'[Len(o) + k][2]
        BY <3>1, Zenon
      <4> QED
        BY <4>1, <4>2
    <3>3. Len(c[i]) \in Nat
      BY <1>2, <1>3, Element DEF ConversationsInv, TypeOK
    <3>4. j + 1 \in 2..Len(c[i]) /\ k + 1 \in 2..Len(c[i])
      BY <3>3
    <3>5. j + 1 = k + 1
      BY <1>3, <3>2, <3>4 DEF ConversationsInv, DistinctInv
    <3> QED
      BY <3>5
  <2>9. ASSUME NEW l \in 1..Len(o'), NEW m \in 1..Len(o'), o'[l] = o'[m]
        PROVE  l = m
    <3>1. CASE l \in 1..Len(o) /\ m \in 1..Len(o)
      BY <1>7, <2>1, <2>9, <3>1
    <3>2. CASE l \in 1..Len(o) /\ m \notin 1..Len(o)
      BY <1>9, <2>7, <2>9, <3>2
    <3>3. CASE l \notin 1..Len(o) /\ m \in 1..Len(o)
      BY <1>9, <2>7, <2>9, <3>3
    <3>4. CASE l \notin 1..Len(o) /\ m \notin 1..Len(o)
      BY <1>9, <2>8, <2>9, <3>4
    <3> QED
      BY <3>1, <3>2, <3>3, <3>4
  <2> QED
    BY <1>1, <2>2, <2>3, <2>5, <2>6, <2>9 DEF LinesInv
<1> QED
  BY <1>10, <1>11, <1>12, <1>13 DEF ConversationsInv

LEMMA StutterStep == ASSUME ConversationsInv, UNCHANGED vars PROVE ConversationsInv'
<1>1. UNCHANGED <<currentCapture, conversations, i, pc, consoleOutput, atOpen>>
  BY DEF vars
<1>2. TypeOK' /\ DistinctInv'
  BY <1>1 DEF ConversationsInv, TypeOK, DistinctInv
<1>3. WalkInv'
  BY <1>1 DEF ConversationsInv, WalkInv, Collected, HasLine, Sends
<1>4. LinesInv'
  <2>1. \A n, j, a, b : HasLine(n, j, a, b)' <=> HasLine(n, j, a, b)
    BY <1>1 DEF HasLine
  <2>2. LinesInv
    BY DEF ConversationsInv
  <2>3. CASE pc = "populate"
    BY <1>1, <2>2, <2>3 DEF LinesInv
  <2>4. CASE pc \in {"output", "shown"}
    BY <1>1, <2>1, <2>2, <2>4, SMTT(40) DEF LinesInv
  <2>5. CASE pc \notin {"populate", "output", "shown"}
    BY <1>1, <2>5 DEF LinesInv
  <2> QED
    BY <2>3, <2>4, <2>5
<1> QED
  BY <1>2, <1>3, <1>4 DEF ConversationsInv

LEMMA InitConversations == Init => ConversationsInv
<1> SUFFICES ASSUME Init PROVE ConversationsInv
  OBVIOUS
<1>1. TypeOK /\ DistinctInv /\ LinesInv
  BY DEF Init, TypeOK, DistinctInv, LinesInv
<1>2. \A a, b : ~Collected(a, b)
  BY NothingCollected DEF Init
<1>3. WalkInv
  BY <1>2 DEF Init, WalkInv
<1> QED
  BY <1>1, <1>3 DEF ConversationsInv

-----------------------------------------------------------------------------
(***************************************************************************)
(* What is shown                                                           *)
(***************************************************************************)
\* Each address has one conversation and each destination one place in it, the
\* walk has collected what was sent so far, and the lines are those of the
\* conversations printed so far.
THEOREM ConversationsInvariant == Spec => []ConversationsInv
<1>1. ConversationsInv /\ [Next]_vars => ConversationsInv'
  BY AddPacketStep, ShowStep, PopulateStep, PopulatedStep, OutputStep, OpenedStep, StutterStep
  DEF Next
<1> QED
  BY <1>1, InitConversations, PTL DEF Spec

LEMMA ShownOnceMeans == ConversationsInv => ShownOnce
<1> SUFFICES ASSUME ConversationsInv PROVE ShownOnce
  OBVIOUS
<1>1. DOMAIN consoleOutput = 1..Len(consoleOutput) /\ DOMAIN conversations = 1..Len(conversations)
  BY LenProperties DEF ConversationsInv, TypeOK
<1> QED
  BY <1>1 DEF ConversationsInv, DistinctInv, LinesInv, ShownOnce, Shown

LEMMA LineOf ==
  ASSUME ConversationsInv
  PROVE  \A x : x \in Lines <=> \E l \in 1..Len(consoleOutput) : x = consoleOutput[l]
BY LenProperties DEF ConversationsInv, TypeOK, Lines, ToSet

LEMMA PairOf ==
  ASSUME NEW s \in Seq(Packet)
  PROVE  \A x : x \in Pairs(s) <=>
                \E a, b \in Address : /\ x = <<a, b>>
                                     /\ \E k \in 1..Len(s) : s[k] = [src_ip |-> a, dst_ip |-> b]
<1>1. DOMAIN s = 1..Len(s) /\ \A k \in 1..Len(s) : s[k] \in Packet
  BY LenProperties, ElementOfSeq
<1> SUFFICES ASSUME NEW x
             PROVE  x \in Pairs(s) <=>
                      \E a, b \in Address : /\ x = <<a, b>>
                                           /\ \E k \in 1..Len(s) : s[k] = [src_ip |-> a, dst_ip |-> b]
  OBVIOUS
<1>2. ASSUME x \in Pairs(s)
      PROVE  \E a, b \in Address : /\ x = <<a, b>>
                                  /\ \E k \in 1..Len(s) : s[k] = [src_ip |-> a, dst_ip |-> b]
  <2>1. PICK k \in 1..Len(s) : s[k] # Other /\ x = <<s[k].src_ip, s[k].dst_ip>>
    BY <1>1, <1>2 DEF Pairs, ToSet
  <2>2. s[k] \in TCPorUDP
    BY <1>1, <2>1 DEF Packet
  <2> QED
    BY <2>1, <2>2, PacketFields
<1>3. ASSUME NEW a \in Address, NEW b \in Address, NEW k \in 1..Len(s),
             x = <<a, b>>, s[k] = [src_ip |-> a, dst_ip |-> b]
      PROVE  x \in Pairs(s)
  <2>1. s[k] # Other /\ s[k].src_ip = a /\ s[k].dst_ip = b
    BY <1>3, PacketFields
  <2>2. s[k] \in ToSet(s) \ {Other}
    BY <1>1, <2>1 DEF ToSet
  <2> QED
    BY <1>3, <2>1, <2>2 DEF Pairs
<1> QED
  BY <1>2, <1>3

\* When the window is open every conversation has been printed.
LEMMA LineOfCollected ==
  ASSUME ConversationsInv, Shown, NEW a \in Address, NEW b \in Address
  PROVE  <<a, b>> \in Lines <=> Collected(a, b)
<1>1. /\ i - 1 = Len(conversations)
      /\ \A l \in 1..Len(consoleOutput) : \E n \in 1..(i - 1) :
           \E j \in 1..(Len(conversations[n]) - 1) :
             HasLine(n, j, consoleOutput[l][1], consoleOutput[l][2])
      /\ \A n \in 1..(i - 1) : \A j \in 1..(Len(conversations[n]) - 1) :
           \E l \in 1..Len(consoleOutput) : HasLine(n, j, consoleOutput[l][1], consoleOutput[l][2])
  BY DEF ConversationsInv, LinesInv, Shown
<1>2. \A l \in 1..Len(consoleOutput) : consoleOutput[l] = <<consoleOutput[l][1], consoleOutput[l][2]>>
  <2>1. \A l \in 1..Len(consoleOutput) : consoleOutput[l] \in Address \X Address
    BY ElementOfSeq DEF ConversationsInv, TypeOK
  <2> QED
    BY <2>1
<1>3. ASSUME <<a, b>> \in Lines PROVE Collected(a, b)
  <2>1. PICK l \in 1..Len(consoleOutput) : <<a, b>> = consoleOutput[l]
    BY <1>3, LineOf
  <2>2. consoleOutput[l][1] = a /\ consoleOutput[l][2] = b
    BY <2>1
  <2>3. PICK n \in 1..(i - 1) : \E j \in 1..(Len(conversations[n]) - 1) :
          HasLine(n, j, consoleOutput[l][1], consoleOutput[l][2])
    BY <1>1
  <2> QED
    BY <1>1, <2>2, <2>3 DEF Collected
<1>4. ASSUME Collected(a, b) PROVE <<a, b>> \in Lines
  <2>1. PICK n \in 1..Len(conversations) : \E j \in 1..(Len(conversations[n]) - 1) : HasLine(n, j, a, b)
    BY <1>4 DEF Collected
  <2>2. PICK j \in 1..(Len(conversations[n]) - 1) : HasLine(n, j, a, b)
    BY <2>1
  <2>3. PICK l \in 1..Len(consoleOutput) : HasLine(n, j, consoleOutput[l][1], consoleOutput[l][2])
    BY <1>1, <2>1
  <2>4. consoleOutput[l] = <<a, b>>
    BY <1>2, <2>2, <2>3 DEF HasLine
  <2> QED
    BY <2>4, LineOf
<1> QED
  BY <1>3, <1>4

LEMMA AllConversationsMeans == ConversationsInv => AllConversations
<1> SUFFICES ASSUME ConversationsInv, Shown
             PROVE  /\ Pairs(SubSeq(currentCapture, 1, atOpen)) \subseteq Lines
                    /\ Lines \subseteq Pairs(currentCapture)
  BY DEF AllConversations
<1> DEFINE c == currentCapture
           s == SubSeq(c, 1, atOpen)
<1>1. c \in Seq(Packet) /\ Len(c) \in Nat /\ atOpen \in 0..Len(c)
  BY LenProperties DEF ConversationsInv, TypeOK
<1>2. \A k \in 1..Len(c) : c[k] \in Packet
  BY <1>1, ElementOfSeq
<1>3. atOpen \in Int /\ 1 \in Int /\ \A k \in 1..atOpen : k \in 1..Len(c)
  BY <1>1
<1>4. \A k \in 1..atOpen : c[k] \in Packet
  BY <1>2, <1>3
<1>5. /\ s \in Seq(Packet) /\ Len(s) = (IF 1 <= atOpen THEN atOpen - 1 + 1 ELSE 0)
      /\ \A k \in 1..(atOpen - 1 + 1) : s[k] = c[1 + k - 1]
  BY <1>3, <1>4, SubSeqProperties
<1>6. Len(s) = atOpen /\ \A k \in 1..atOpen : s[k] = c[k]
  BY <1>1, <1>5
<1> HIDE DEF s
<1>7. ASSUME NEW x \in Pairs(s) PROVE x \in Lines
  <2>0. \E a, b \in Address :
          x = <<a, b>> /\ \E k \in 1..Len(s) : s[k] = [src_ip |-> a, dst_ip |-> b]
    <3>1. s \in Seq(Packet)
      BY <1>5
    <3>2. \A y : y \in Pairs(s) <=>
                 \E a, b \in Address :
                   y = <<a, b>> /\ \E k \in 1..Len(s) : s[k] = [src_ip |-> a, dst_ip |-> b]
      BY <3>1, PairOf
    <3> QED
      BY <1>7, <3>2
  <2>1. PICK a \in Address, b \in Address :
          x = <<a, b>> /\ \E k \in 1..Len(s) : s[k] = [src_ip |-> a, dst_ip |-> b]
    BY <2>0
  <2>2. PICK k \in 1..atOpen : Sends(k, a, b)
    BY <1>6, <2>1 DEF Sends
  <2>3. Collected(a, b)
    BY <2>2 DEF ConversationsInv, WalkInv, Shown
  <2> QED
    BY <2>1, <2>3, LineOfCollected
<1>8. ASSUME NEW x \in Lines PROVE x \in Pairs(c)
  <2>1. PICK l \in 1..Len(consoleOutput) : x = consoleOutput[l]
    BY LineOf
  <2>2. x \in Address \X Address
    BY <2>1, ElementOfSeq DEF ConversationsInv, TypeOK
  <2>3. PICK a \in Address, b \in Address : x = <<a, b>>
    BY <2>2
  <2>4. Collected(a, b)
    BY <1>8, <2>3, LineOfCollected
  <2>5. PICK k \in 1..Len(c) : Sends(k, a, b)
    BY <2>4 DEF ConversationsInv, WalkInv
  <2> QED
    BY <1>1, <2>3, <2>5, PairOf DEF Sends
<1> QED
  BY <1>7, <1>8 DEF s

\* The window shows no conversation twice, and no source heads two of them.
THEOREM ShownOnceHolds == Spec => []ShownOnce
BY ConversationsInvariant, ShownOnceMeans, PTL

\* The window shows every conversation that was in the capture when it was opened,
\* and nothing that is not in the capture.
THEOREM AllConversationsHolds == Spec => []AllConversations
BY ConversationsInvariant, AllConversationsMeans, PTL
=============================================================================
