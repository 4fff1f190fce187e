---------------------------- MODULE PacketViewer ----------------------------
(***************************************************************************)
(* The window that shows one packet at a time (PacketViewerController), on *)
(* top of the form that decides which list it shows: the filtered packets  *)
(* while a filter is applied, the whole capture otherwise.  The window     *)
(* keeps a number and a packet; the list changes behind its back.          *)
(* A handler that throws has done what it did until then.                  *)
(***************************************************************************)
EXTENDS FilterPanel

CONSTANTS
  Number,        \* the packet numbers that are typed
  Nothing,       \* no packet, no text
  Data           \* the payload of each packet, as Java bytes

ASSUME ViewerAssumption ==
  /\ Number \subseteq Int /\ Nothing \notin Packet
  /\ Data \in [Packet -> Seq(-128..127)]

VARIABLES
  packetNum, currentPacket,
  shown,         \* number and packet in packetInfo, packet in the payload fields
  buttons,       \* Next, Previous and Follow Stream, when enabled
  stream,        \* the text in followStreamText: of each character the packet and the
                 \* place in its payload
  (* history, read by properties alone *)
  steady         \* since a packet was viewed its list has only grown, and no
                 \* number was typed that is not in it

viewerVars == <<packetNum, currentPacket, shown, buttons, stream, steady>>
allVars == <<panelVars, viewerVars>>

-----------------------------------------------------------------------------
Buttons == {"next", "previous", "follow"}

\* The list in view; NoList when Apply failed before it made one.
List == IF filterApplied THEN filtered ELSE capture

InList(n) == n >= 0 /\ n < Len(List)

ViewerInit ==
  /\ packetNum = 0 /\ currentPacket = Nothing
  /\ shown = [num |-> Nothing, info |-> Nothing, payload |-> Nothing]
  /\ buttons = {} /\ stream = <<>> /\ steady = FALSE

\* disableIfARP.
FollowWhen(others) ==
  IF currentPacket' # Nothing /\ HasPorts(currentPacket')
  THEN others \cup {"follow"} ELSE others \ {"follow"}

\* Mutation: Follow Stream is left as it is.
ShowWithoutCheck(others) ==
  IF Formattable(currentPacket')
  THEN /\ shown' = [num |-> packetNum', info |-> currentPacket', payload |-> currentPacket']
       /\ buttons' = others
  ELSE /\ shown' = [shown EXCEPT !.num = packetNum', !.info = Nothing]
       /\ UNCHANGED buttons

\* populatePacketInfo and the payload.  When the packet cannot be formatted its
\* number is all that is written.
ShowCurrent(others) ==
  IF Formattable(currentPacket')
  THEN /\ shown' = [num |-> packetNum', info |-> currentPacket', payload |-> currentPacket']
       /\ buttons' = FollowWhen(others)
  ELSE /\ shown' = [shown EXCEPT !.num = packetNum', !.info = Nothing]
       /\ UNCHANGED buttons

ViewPacket(n) ==
  /\ Click
  /\ packetNum' = n
  /\ IF List # NoList /\ InList(n)
     THEN /\ currentPacket' = List[n + 1]
          /\ ShowCurrent(Buttons)
          /\ steady' = TRUE
     ELSE /\ UNCHANGED <<currentPacket, shown>>
          /\ buttons' = IF List = NoList THEN buttons ELSE FollowWhen(buttons)
          /\ steady' = FALSE
  /\ UNCHANGED stream

\* An empty number: Follow Stream is looked at again.
ViewNothing ==
  /\ Click
  /\ UNCHANGED <<packetNum, currentPacket, shown, stream, steady>>
  /\ buttons' = FollowWhen(buttons)

\* Mutation: one packet too far.
NextOrBeyond == IF packetNum < Len(List) THEN packetNum + 1 ELSE packetNum

NextNumber == IF packetNum + 1 < Len(List) THEN packetNum + 1 ELSE packetNum

NextPacket ==
  /\ "next" \in buttons /\ Click
  /\ stream' = <<>>
  /\ IF List = NoList
     THEN UNCHANGED <<packetNum, currentPacket, shown, buttons>>
     ELSE /\ packetNum' = NextNumber
          /\ IF InList(packetNum')
             THEN currentPacket' = List[packetNum' + 1] /\ ShowCurrent(buttons)
             ELSE UNCHANGED <<currentPacket, shown, buttons>>
  /\ UNCHANGED steady

\* The result of setCurrentPacket is ignored: when the number is not in the list
\* the packet shown is the old one.
PreviousPacket ==
  /\ "previous" \in buttons /\ Click
  /\ stream' = <<>>
  /\ IF packetNum - 1 >= 0
     THEN /\ packetNum' = packetNum - 1
          /\ currentPacket' = IF List # NoList /\ InList(packetNum')
                              THEN List[packetNum' + 1] ELSE currentPacket
          /\ IF List = NoList THEN UNCHANGED <<shown, buttons>> ELSE ShowCurrent(buttons)
     ELSE UNCHANGED <<packetNum, currentPacket>> /\ ShowCurrent(buttons)
  /\ UNCHANGED steady

\* Mutation: the ports are compared crosswise.
SamePortCrossed(c, p) ==
  HasPorts(c) /\ (SrcPort[c] = DstPort[p] \/ DstPort[c] = SrcPort[p])

\* The ports of a packet without any are 0.
SamePort(c, p) ==
  IF HasPorts(c)
  THEN SrcPort[c] = SrcPort[p] \/ DstPort[c] = DstPort[p]
  ELSE SrcPort[p] = 0 \/ DstPort[p] = 0

InStream(c, p) ==
  /\ HasPorts(p) /\ Protocol[p] = Protocol[c]
  /\ SamePort(c, p)
  /\ SrcIP[c] = SrcIP[p] \/ DstIP[c] = DstIP[p]

\* A printable character of ASCII, or a line feed.
IsText(octet) == octet \in 32..126 \/ octet = 10

\* What is appended for one packet: the loop stops before the last octet.
Appended(p) ==
  Kept([j \in DOMAIN Data[p] |-> <<p, j>>],
       {<<p, j>> : j \in {k \in 1..(Len(Data[p]) - 1) : IsText(Data[p][k])}})

\* What is appended for the packets of the list s, one after another.
Text(s) ==
  LET upTo[n \in 0..Len(s)] == IF n = 0 THEN <<>> ELSE upTo[n - 1] \o Appended(s[n])
  IN  upTo[Len(s)]

FollowStream ==
  /\ "follow" \in buttons /\ Click
  /\ stream' = IF List = NoList THEN <<>>
               ELSE Text(Kept(List, {p \in Packet : InStream(currentPacket, p)}))
  /\ UNCHANGED <<packetNum, currentPacket, shown, buttons, steady>>

ListGrows ==
  List # NoList /\ List' # NoList /\ Len(List) <= Len(List')
    /\ SubSeq(List', 1, Len(List)) = List

Next ==
  \/ /\ PanelNext
     /\ steady' = (steady /\ ListGrows)
     /\ UNCHANGED <<packetNum, currentPacket, shown, buttons, stream>>
  \/ /\ \/ \E n \in Number : ViewPacket(n)
        \/ ViewNothing \/ NextPacket \/ PreviousPacket \/ FollowStream
     /\ UNCHANGED <<formVars, disabled, filterVars, capture, reader>>

Init == PanelInit /\ ViewerInit

Spec == Init /\ [][Next]_allVars

-----------------------------------------------------------------------------
(* Properties *)

TypeOK ==
  /\ PanelTypeOK
  /\ packetNum \in Int /\ currentPacket \in Packet \cup {Nothing}
  /\ shown \in [num : Int \cup {Nothing}, info : Packet \cup {Nothing},
                payload : Packet \cup {Nothing}]
  /\ buttons \subseteq Buttons /\ stream \in Seq(Packet \X Nat) /\ steady \in BOOLEAN

\* As long as the list it looks at only grows, the window is where it says it is:
\* Next and Previous stay in the list, the number and the text shown are those of
\* one packet, and that packet is the one with the number (handleViewPacket,
\* handleNextPacket, handlePreviousPacket).
SteadyView ==
  steady =>
    /\ InList(packetNum) /\ currentPacket = List[packetNum + 1]
    /\ shown.num = packetNum
    /\ shown.info \in {currentPacket, Nothing}
    /\ Formattable(currentPacket) => shown.payload = currentPacket

\* Follow Stream is never enabled on a packet that it would fail to cast, whatever
\* was typed, shown, skipped and filtered before (disableIfARP).
FollowIsIP ==
  "follow" \in buttons => currentPacket # Nothing /\ Class[currentPacket] # "ARP"

SameDirection(c, p) ==
  /\ HasPorts(c) /\ Class[p] = Class[c]
  /\ SrcIP[p] = SrcIP[c] /\ DstIP[p] = DstIP[c]
  /\ SrcPort[p] = SrcPort[c] /\ DstPort[p] = DstPort[c]

SameConversation(c, p) ==
  \/ SameDirection(c, p)
  \/ /\ HasPorts(c) /\ Class[p] = Class[c]
     /\ SrcIP[p] = DstIP[c] /\ DstIP[p] = SrcIP[c]
     /\ SrcPort[p] = DstPort[c] /\ DstPort[p] = SrcPort[c]

Occurrences(s, e) == Cardinality({k \in DOMAIN s : s[k] = e})

\* Of the packets that the sender of the one in view sent in that conversation, the
\* stream has each character of text that is not the last octet of its packet, as
\* often as the list has the packet.  Octets that are no text, and the last one of
\* every packet, are left out: WholePayloads (handleFollowStream).
StreamKeepsDirection ==
  [][FollowStream /\ List # NoList =>
       \A p \in Packet : SameDirection(currentPacket, p) =>
         \A j \in 1..(Len(Data[p]) - 1) : IsText(Data[p][j]) =>
           Occurrences(stream', <<p, j>>) = Occurrences(List, p)]_allVars

\* "displays the payload information": the stream has no packet without
\* all the text of its payload.
WholePayloads ==
  \A i \in DOMAIN stream : LET p == stream[i][1] IN
    \A j \in DOMAIN Data[p] : IsText(Data[p][j]) => \E k \in DOMAIN stream : stream[k] = <<p, j>>

\* "Concatenates all packets from the selected packet's converation": the packets
\* of the list that are of that conversation, and no others.
FollowsConversation ==
  [][FollowStream /\ steady =>
       stream' = Text(Kept(List, {p \in Packet : SameConversation(currentPacket, p)}))]_allVars
=============================================================================
