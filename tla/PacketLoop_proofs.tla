------------------------- MODULE PacketLoop_proofs --------------------------
(***************************************************************************)
(* Proofs about PacketLoop, for any captors, threads and depth of calls,   *)
(* whichever calls use one captor at a time: what calls that overlap can   *)
(* do to each other, and that it ends there.                               *)
(***************************************************************************)
EXTENDS PacketLoop, SequenceTheorems, TLAPS

\* What a call can rely on: the entry of its captor is that of a call on it that is
\* not earlier, and it is its own entry as long as no other call overlaps with it.
OwnEntries(t, i) ==
  LET call == calls[t][i]
      entry == jpcap_handlers[call.captor]
      alone == call.own \notin overlapped
  IN /\ call.own.captor = call.captor /\ call.own.number <= made
     /\ entry.captor = call.captor /\ entry.number >= call.own.number
     /\ alone => entry = call.own /\ call.own \in refs
     /\ alone /\ call.own \notin visited => jni_envs[call.captor] = t
     /\ call.at = "receivePacket" =>
          /\ call.called.captor = call.captor /\ call.called.number >= call.own.number
          /\ alone => call.called = call.own
          /\ alone /\ call.own \notin visited => call.env = t

EntriesInv == \A t \in Threads : \A i \in 1..Len(calls[t]) : OwnEntries(t, i)

\* Two calls on one captor have overlapped.
OverlapInv ==
  \A t, u \in Threads : \A i \in 1..Len(calls[t]) : \A j \in 1..Len(calls[u]) :
    calls[t][i].captor = calls[u][j].captor /\ ~(t = u /\ i = j) => calls[t][i].own \in overlapped

\* A reference is that of a call that goes on, or of one that overlapped.
LeftInv ==
  \A r \in refs \ overlapped : \E t \in Threads : \E i \in 1..Len(calls[t]) : calls[t][i].own = r

\* References have the numbers of the calls that were made.
NumbersInv ==
  /\ \A r \in overlapped \cup visited : r.number <= made
  /\ \A c \in Captors : jpcap_handlers[c].number <= made

LoopInv == TypeOK /\ EntriesInv /\ OverlapInv /\ LeftInv /\ NumbersInv

LEMMA CallsType ==
  ASSUME TypeOK, NEW t \in Threads
  PROVE  calls[t] \in Seq(CallType) /\ Len(calls[t]) \in Nat
BY LenProperties DEF TypeOK

LEMMA CallOf ==
  ASSUME TypeOK, NEW t \in Threads, NEW i \in 1..Len(calls[t])
  PROVE  calls[t][i] \in CallType
BY CallsType, ElementOfSeq

LEMMA TopOf ==
  ASSUME TypeOK, NEW t \in Threads, calls[t] # <<>>
  PROVE  /\ Len(calls[t]) \in 1..Len(calls[t])
         /\ Top(t) = calls[t][Len(calls[t])] /\ Top(t) \in CallType
<1>1. Len(calls[t]) \in Nat \ {0}
  BY CallsType, EmptySeq
<1>2. Len(calls[t]) \in 1..Len(calls[t])
  BY <1>1
<1> QED
  BY <1>2, CallOf DEF Top

LEMMA InitLoop == Init => LoopInv
<1> SUFFICES ASSUME Init PROVE LoopInv
  OBVIOUS
<1>1. \A t \in Threads : calls[t] = <<>> /\ Len(calls[t]) = 0 /\ 1..Len(calls[t]) = {}
  BY EmptySeq DEF Init
<1>2. <<>> \in Seq(CallType)
  BY EmptySeq
<1>3. TypeOK
  BY <1>2 DEF Init, TypeOK
<1>4. EntriesInv /\ OverlapInv
  BY <1>1 DEF EntriesInv, OverlapInv
<1>5. LeftInv /\ NumbersInv
  BY DEF Init, LeftInv, NumbersInv, NoRef
<1> QED
  BY <1>3, <1>4, <1>5 DEF LoopInv

-----------------------------------------------------------------------------
(***************************************************************************)
(* A call takes the entries of its captor.  Those it takes them from have  *)
(* overlapped with it from then on.                                        *)
(***************************************************************************)
LEMMA InUseOf ==
  ASSUME NEW c \in Captors, NEW S, S \subseteq Threads
  PROVE  /\ \A u \in S : \A i \in 1..Len(calls[u]) :
              calls[u][i].captor = c => calls[u][i].own \in InUse(c, S)
         /\ \A r \in InUse(c, S) : \E u \in S : \E i \in 1..Len(calls[u]) :
              calls[u][i].captor = c /\ r = calls[u][i].own
BY DEF InUse, CallsOf

LEMMA InUseType ==
  ASSUME LoopInv, NEW c \in Captors, NEW S, S \subseteq Threads, NEW r \in InUse(c, S)
  PROVE  r \in Refs /\ r.number <= made
<1>1. PICK u \in S : \E i \in 1..Len(calls[u]) : calls[u][i].captor = c /\ r = calls[u][i].own
  BY InUseOf
<1>2. PICK i \in 1..Len(calls[u]) : calls[u][i].captor = c /\ r = calls[u][i].own
  BY <1>1
<1>3. u \in Threads /\ calls[u][i] \in CallType
  BY CallOf DEF LoopInv
<1>4. OwnEntries(u, i)
  BY <1>3 DEF LoopInv, EntriesInv
<1> QED
  BY <1>2, <1>3, <1>4 DEF CallType, OwnEntries

LEMMA CallStep ==
  ASSUME LoopInv, NEW t \in Threads, NEW c \in Captors,
         NEW by \in {"processPacket", "loopPacket"},
         NEW count \in Counts, Call(t, c, by, count)
  PROVE  LoopInv'
<1> DEFINE n   == Len(calls[t])
           ref == [captor |-> c, number |-> made + 1]
           new == [captor |-> c, by |-> by, own |-> ref, count |-> count,
                   taken |-> 0, at |-> "pcap", env |-> NoThread, called |-> NoRef]
           others == InUse(c, Threads)
<1>1. TypeOK /\ EntriesInv /\ OverlapInv /\ LeftInv /\ NumbersInv
  BY DEF LoopInv
<1>2. n \in Nat /\ calls[t] \in Seq(CallType)
  BY <1>1, CallsType
<1>3. ref \in Refs /\ ref.captor = c /\ ref.number = made + 1 /\ made \in Nat
  BY <1>1 DEF Refs, TypeOK
<1>4. new \in CallType
  BY <1>3 DEF CallType
<1>5. /\ refs' = refs \cup {ref}
      /\ jpcap_handlers' = [jpcap_handlers EXCEPT ![c] = ref]
      /\ calls' = [calls EXCEPT ![t] = Append(@, new)]
      /\ jni_envs' = [jni_envs EXCEPT ![c] = t]
      /\ overlapped' = IF others = {} THEN overlapped ELSE overlapped \cup others \cup {ref}
      /\ made' = made + 1
      /\ UNCHANGED <<breaking, result, visited>>
  BY Zenon DEF Call, Slot
<1>6. new.captor = c /\ new.own = ref /\ new.at = "pcap"
  OBVIOUS
<1>7. \A r \in others : r \in Refs /\ r.number <= made
  BY InUseType
<1>8. \A u \in Threads : \A i \in 1..Len(calls[u]) : calls[u][i].captor = c => calls[u][i].own \in others
  BY InUseOf
<1> HIDE DEF ref, new, others
<1>9. calls' \in [Threads -> Seq(CallType)] /\ calls'[t] = Append(calls[t], new)
  BY <1>1, <1>2, <1>4, <1>5, AppendProperties DEF TypeOK
<1>10. \A u \in Threads \ {t} : calls'[u] = calls[u]
  BY <1>1, <1>5 DEF TypeOK
<1>11. /\ Len(calls'[t]) = n + 1
       /\ \A i \in 1..n : calls'[t][i] = calls[t][i]
       /\ calls'[t][n + 1] = new
  BY <1>2, <1>4, <1>9, AppendProperties
<1>12. TypeOK'
  <2>1. overlapped' \subseteq Refs
    BY <1>1, <1>3, <1>5, <1>7 DEF TypeOK
  <2> QED
    BY <1>1, <1>3, <1>5, <1>9, <2>1 DEF TypeOK
<1>13. /\ jni_envs'[c] = t /\ jpcap_handlers'[c] = ref
       /\ \A d \in Captors \ {c} : jni_envs'[d] = jni_envs[d] /\ jpcap_handlers'[d] = jpcap_handlers[d]
  BY <1>1, <1>5 DEF TypeOK
<1>14. overlapped \subseteq overlapped' /\ (others # {} => others \subseteq overlapped' /\ ref \in overlapped')
  BY <1>5
\* A call that was there before.
<1>15. ASSUME NEW u \in Threads, NEW i \in 1..Len(calls'[u]), ~(u = t /\ i = n + 1)
       PROVE  i \in 1..Len(calls[u]) /\ calls'[u][i] = calls[u][i]
  BY <1>2, <1>10, <1>11, <1>15
<1>16. EntriesInv'
  <2> SUFFICES ASSUME NEW u \in Threads, NEW i \in 1..Len(calls'[u]) PROVE OwnEntries(u, i)'
    BY DEF EntriesInv
  <2>1. CASE u = t /\ i = n + 1
    <3>1. calls'[u][i] = new
      BY <1>11, <2>1
    <3> QED
      BY <1>3, <1>5, <1>6, <1>13, <2>1, <3>1 DEF OwnEntries
  <2>2. CASE ~(u = t /\ i = n + 1)
    <3>1. i \in 1..Len(calls[u]) /\ calls'[u][i] = calls[u][i]
      BY <1>15, <2>2
    <3>2. OwnEntries(u, i)
      BY <1>1, <3>1 DEF EntriesInv
    <3>3. calls[u][i] \in CallType /\ calls[u][i].captor \in Captors /\ calls[u][i].own \in Refs
      BY <1>1, <3>1, CallOf, SMTT(40) DEF CallType
    <3>4. CASE calls[u][i].captor = c
      <4>1. calls[u][i].own \in overlapped'
        BY <1>8, <1>14, <3>1, <3>4
      <4>2. calls[u][i].own.number <= made + 1
        BY <1>3, <3>2, <3>3, SMTT(40) DEF OwnEntries, Refs
      <4> QED
        BY <1>3, <1>5, <1>13, <3>1, <3>2, <3>4, <4>1, <4>2 DEF OwnEntries
    <3>5. CASE calls[u][i].captor # c
      <4>1. /\ jni_envs'[calls[u][i].captor] = jni_envs[calls[u][i].captor]
            /\ jpcap_handlers'[calls[u][i].captor] = jpcap_handlers[calls[u][i].captor]
        BY <1>13, <3>3, <3>5
      <4>2. calls[u][i].own.number <= made + 1
        BY <1>3, <3>2, <3>3 DEF OwnEntries, Refs
      <4>3. calls[u][i].own \notin overlapped' => calls[u][i].own \notin overlapped
        BY <1>14
      <4>4. calls[u][i].own \in refs => calls[u][i].own \in refs'
        BY <1>5
      <4> QED
        BY <1>5, <3>1, <3>2, <4>1, <4>2, <4>3, <4>4 DEF OwnEntries
    <3> QED
      BY <3>4, <3>5
  <2> QED
    BY <2>1, <2>2
<1>17. OverlapInv'
  <2> SUFFICES ASSUME NEW u \in Threads, NEW v \in Threads,
                      NEW i \in 1..Len(calls'[u]), NEW j \in 1..Len(calls'[v]),
                      calls'[u][i].captor = calls'[v][j].captor, ~(u = v /\ i = j)
               PROVE  calls'[u][i].own \in overlapped'
    BY DEF OverlapInv
  <2>1. CASE u = t /\ i = n + 1
    <3>1. j \in 1..Len(calls[v]) /\ calls'[v][j] = calls[v][j]
      BY <1>15, <2>1
    <3>2. calls'[u][i] = new
      BY <1>11, <2>1
    <3>3. calls[v][j].own \in others
      BY <1>6, <1>8, <3>1, <3>2
    <3> QED
      BY <1>6, <1>14, <3>2, <3>3
  <2>2. CASE ~(u = t /\ i = n + 1) /\ v = t /\ j = n + 1
    <3>1. i \in 1..Len(calls[u]) /\ calls'[u][i] = calls[u][i]
      BY <1>15, <2>2
    <3>2. calls'[v][j] = new
      BY <1>11, <2>2
    <3> QED
      BY <1>6, <1>8, <1>14, <3>1, <3>2
  <2>3. CASE ~(u = t /\ i = n + 1) /\ ~(v = t /\ j = n + 1)
    <3>1. /\ i \in 1..Len(calls[u]) /\ calls'[u][i] = calls[u][i]
          /\ j \in 1..Len(calls[v]) /\ calls'[v][j] = calls[v][j]
      BY <1>15, <2>3
    <3> QED
      BY <1>1, <1>14, <3>1 DEF OverlapInv
  <2> QED
    BY <2>1, <2>2, <2>3
<1>18. LeftInv'
  <2> SUFFICES ASSUME NEW r \in refs', r \notin overlapped'
               PROVE  \E u \in Threads : \E i \in 1..Len(calls'[u]) : calls'[u][i].own = r
    BY DEF LeftInv
  <2>1. CASE r = ref
    <3>1. n + 1 \in 1..Len(calls'[t]) /\ calls'[t][n + 1].own = r
      BY <1>2, <1>6, <1>11, <2>1
    <3> QED
      BY <3>1
  <2>2. CASE r # ref
    <3>1. r \in refs \ overlapped
      BY <1>5, <1>14, <2>2
    <3>2. PICK u \in Threads : \E i \in 1..Len(calls[u]) : calls[u][i].own = r
      BY <1>1, <3>1 DEF LeftInv
    <3>3. PICK i \in 1..Len(calls[u]) : calls[u][i].own = r
      BY <3>2
    <3>4. i \in 1..Len(calls'[u]) /\ calls'[u][i] = calls[u][i]
      BY <1>2, <1>10, <1>11
    <3> QED
      BY <3>3, <3>4
  <2> QED
    BY <2>1, <2>2
<1>19. NumbersInv'
  <2>1. ASSUME NEW r \in overlapped' \cup visited' PROVE r.number <= made'
    <3>1. r = ref \/ (r \in Refs /\ r.number <= made)
      BY <1>1, <1>5, <1>7 DEF NumbersInv, TypeOK
    <3> QED
      BY <1>3, <1>5, <3>1 DEF Refs
  <2>2. ASSUME NEW d \in Captors PROVE jpcap_handlers'[d].number <= made'
    <3>1. CASE d = c
      BY <1>3, <1>5, <1>13, <3>1
    <3>2. CASE d # c
      <4>1. jpcap_handlers'[d] = jpcap_handlers[d] /\ jpcap_handlers[d].number <= made
        BY <1>1, <1>13, <3>2 DEF NumbersInv
      <4>2. jpcap_handlers[d].number \in Nat
        BY <1>1 DEF TypeOK, Refs, NoRef
      <4> QED
        BY <1>3, <1>5, <4>1, <4>2
    <3> QED
      BY <3>1, <3>2
  <2> QED
    BY <2>1, <2>2 DEF NumbersInv
<1> QED
  BY <1>12, <1>16, <1>17, <1>18, <1>19 DEF LoopInv

-----------------------------------------------------------------------------
(***************************************************************************)
(* A step of pcap or of the receiver changes the top call of its thread,   *)
(* and neither its captor nor its reference.                               *)
(***************************************************************************)
LEMMA TopChanges ==
  ASSUME LoopInv, NEW t \in Threads, calls[t] # <<>>, NEW call \in CallType,
         call.captor = Top(t).captor, call.own = Top(t).own,
         call.at = "receivePacket" =>
           call.called = jpcap_handlers[call.captor] /\ call.env = jni_envs[call.captor],
         calls' = [calls EXCEPT ![t][Len(calls[t])] = call],
         UNCHANGED <<tableVars, historyVars, breaking, result>>
  PROVE  LoopInv'
<1> DEFINE n == Len(calls[t])
<1>1. TypeOK /\ EntriesInv /\ OverlapInv /\ LeftInv /\ NumbersInv
  BY DEF LoopInv
<1>2. n \in 1..n /\ Top(t) = calls[t][n] /\ n \in Nat /\ calls[t] \in Seq(CallType)
  BY <1>1, TopOf, CallsType
<1>3. calls' = [calls EXCEPT ![t] = [calls[t] EXCEPT ![n] = call]]
  BY Zenon
<1>4. [calls[t] EXCEPT ![n] = call] \in Seq(CallType)
  BY <1>2, ExceptSeq
<1>5. calls' \in [Threads -> Seq(CallType)] /\ calls'[t] = [calls[t] EXCEPT ![n] = call]
  BY <1>1, <1>3, <1>4 DEF TypeOK
<1>6. \A u \in Threads \ {t} : calls'[u] = calls[u]
  BY <1>1, <1>3 DEF TypeOK
<1>7. /\ Len(calls'[t]) = n /\ calls'[t][n] = call
      /\ \A i \in 1..n : i # n => calls'[t][i] = calls[t][i]
  BY <1>2, <1>5, ExceptSeq
<1>8. ASSUME NEW u \in Threads
      PROVE  /\ Len(calls'[u]) = Len(calls[u])
             /\ \A i \in 1..Len(calls[u]) :
                  calls'[u][i].own = calls[u][i].own /\ calls'[u][i].captor = calls[u][i].captor
  BY <1>2, <1>6, <1>7
<1>9. TypeOK'
  BY <1>1, <1>5 DEF TypeOK, tableVars, historyVars
<1>10. EntriesInv'
  <2> SUFFICES ASSUME NEW u \in Threads, NEW i \in 1..Len(calls'[u]) PROVE OwnEntries(u, i)'
    BY DEF EntriesInv
  <2>1. i \in 1..Len(calls[u])
    BY <1>8
  <2>2. OwnEntries(u, i)
    BY <1>1, <2>1 DEF EntriesInv
  <2>3. CASE u = t /\ i = n
    <3>1. calls'[u][i] = call
      BY <1>7, <2>3
    <3> QED
      BY <1>2, <2>2, <2>3, <3>1 DEF OwnEntries, tableVars, historyVars
  <2>4. CASE ~(u = t /\ i = n)
    <3>1. calls'[u][i] = calls[u][i]
      BY <1>6, <1>7, <2>1, <2>4
    <3> QED
      BY <2>2, <3>1 DEF OwnEntries, tableVars, historyVars
  <2> QED
    BY <2>3, <2>4
<1>11. OverlapInv' /\ LeftInv' /\ NumbersInv'
  BY <1>1, <1>8, SMTT(40) DEF OverlapInv, LeftInv, NumbersInv, tableVars, historyVars
<1> QED
  BY <1>9, <1>10, <1>11 DEF LoopInv

LEMMA DispatchStep ==
  ASSUME LoopInv, NEW t \in Threads, Dispatch(t) PROVE LoopInv'
<1> DEFINE old == Top(t)
           c == old.captor
           call == [old EXCEPT !.taken = IF old.count = -1 THEN 1 ELSE @ + 1,
                               !.at = "receivePacket",
                               !.env = jni_envs[c], !.called = jpcap_handlers[c]]
<1>1. TypeOK
  BY DEF LoopInv
<1>2. calls[t] # <<>>
  BY DEF Dispatch, InPcap
<1>3. old \in CallType
  BY <1>1, <1>2, TopOf
<1>4. /\ calls' = [calls EXCEPT ![t][Len(calls[t])] = call]
      /\ UNCHANGED <<tableVars, historyVars, breaking, result>>
  BY Zenon DEF Dispatch, Slot
<1>5. old.taken \in Nat /\ c \in Captors
  BY <1>3 DEF CallType
<1>6. jni_envs[c] \in Threads \cup {NoThread} /\ jpcap_handlers[c] \in Refs \cup {NoRef}
  BY <1>1, <1>5 DEF TypeOK
<1>7. /\ call \in CallType /\ call.captor = c /\ call.own = old.own
      /\ call.called = jpcap_handlers[c] /\ call.env = jni_envs[c]
  <2>1. (IF old.count = -1 THEN 1 ELSE old.taken + 1) \in Nat
    BY <1>5
  <2> QED
    BY <1>3, <1>6, <2>1 DEF CallType
<1> HIDE DEF call
<1> QED
  BY <1>2, <1>4, <1>7, TopChanges

LEMMA ReceivedStep ==
  ASSUME LoopInv, NEW t \in Threads, Received(t) PROVE LoopInv'
<1> DEFINE old == Top(t)
           call == [old EXCEPT !.at = "pcap", !.env = NoThread, !.called = NoRef]
<1>1. TypeOK
  BY DEF LoopInv
<1>2. calls[t] # <<>>
  BY DEF Received, InReceiver
<1>3. old \in CallType
  BY <1>1, <1>2, TopOf
<1>4. /\ calls' = [calls EXCEPT ![t][Len(calls[t])] = call]
      /\ UNCHANGED <<tableVars, historyVars, breaking, result>>
  BY Zenon DEF Received
<1>5. call \in CallType /\ call.captor = old.captor /\ call.own = old.own /\ call.at = "pcap"
  BY <1>3 DEF CallType
<1> HIDE DEF call
<1> QED
  BY <1>2, <1>4, <1>5, TopChanges

-----------------------------------------------------------------------------
(***************************************************************************)
(* A call that ends deletes the reference of its captor's entry, which     *)
(* only calls that overlapped with it can still need.                      *)
(***************************************************************************)
LEMMA LeaveStep ==
  ASSUME LoopInv, NEW t \in Threads, calls[t] # <<>>, NEW value \in Int, Leave(t, value),
         breaking' \subseteq Captors
  PROVE  LoopInv'
<1> DEFINE n == Len(calls[t])
           top == Top(t)
           entry == jpcap_handlers[top.captor]
<1>1. TypeOK /\ EntriesInv /\ OverlapInv /\ LeftInv /\ NumbersInv
  BY DEF LoopInv
<1>2. n \in 1..n /\ top = calls[t][n] /\ top \in CallType /\ n \in Nat /\ calls[t] \in Seq(CallType)
  BY <1>1, TopOf, CallsType
<1>3. /\ entry.captor = top.captor
      /\ top.own \notin overlapped => entry = top.own
  BY <1>1, <1>2 DEF EntriesInv, OwnEntries
<1>4. /\ refs' = refs \ {entry}
      /\ calls' = [calls EXCEPT ![t] = SubSeq(@, 1, n - 1)]
      /\ visited' = visited \ {top.own}
      /\ UNCHANGED <<jni_envs, jpcap_handlers, made, overlapped>>
  BY Zenon DEF Leave, Slot
<1>5. result' \in [taken : Nat, value : Int]
  <2>1. result' = [taken |-> top.taken, value |-> value]
    BY Zenon DEF Leave
  <2> QED
    BY <1>2, <2>1 DEF CallType
<1> DEFINE rest == SubSeq(calls[t], 1, n - 1)
<1>6. /\ rest \in Seq(CallType) /\ Len(rest) = n - 1
      /\ \A i \in 1..(n - 1) : rest[i] = calls[t][i]
  <2>1. \A i \in 1..(n - 1) : calls[t][i] \in CallType
    BY <1>1, <1>2, CallOf
  <2>2. n - 1 \in Int /\ 1 \in Int /\ (n - 1) - 1 + 1 = n - 1
    BY <1>2
  <2>3. /\ rest \in Seq(CallType) /\ Len(rest) = IF 1 <= n - 1 THEN (n - 1) - 1 + 1 ELSE 0
        /\ \A i \in 1..((n - 1) - 1 + 1) : rest[i] = calls[t][1 + i - 1]
    BY <2>1, <2>2, SubSeqProperties
  <2> QED
    BY <1>2, <2>3
<1> HIDE DEF rest
<1>7. calls' \in [Threads -> Seq(CallType)] /\ calls'[t] = rest
  BY <1>1, <1>4, <1>6 DEF TypeOK, rest
<1>8. \A u \in Threads \ {t} : calls'[u] = calls[u]
  BY <1>1, <1>4 DEF TypeOK
<1>9. TypeOK'
  BY <1>1, <1>4, <1>5, <1>7 DEF TypeOK
<1>10. ASSUME NEW u \in Threads, NEW i \in 1..Len(calls'[u])
       PROVE  i \in 1..Len(calls[u]) /\ calls'[u][i] = calls[u][i] /\ ~(u = t /\ i = n)
  BY <1>2, <1>6, <1>7, <1>8
\* A call that has not overlapped is on another captor, and has another reference.
<1>11. ASSUME NEW u \in Threads, NEW i \in 1..Len(calls'[u]), calls[u][i].own \notin overlapped
       PROVE  calls[u][i].own # entry /\ calls[u][i].own # top.own
  <2>1. i \in 1..Len(calls[u]) /\ ~(u = t /\ i = n)
    BY <1>10
  <2>2. calls[u][i].captor # top.captor
    BY <1>1, <1>2, <1>11, <2>1 DEF OverlapInv
  <2>3. calls[u][i].own.captor = calls[u][i].captor /\ top.own.captor = top.captor
    BY <1>1, <1>2, <2>1 DEF EntriesInv, OwnEntries
  <2> QED
    BY <1>3, <2>2, <2>3
<1>12. EntriesInv'
  <2> SUFFICES ASSUME NEW u \in Threads, NEW i \in 1..Len(calls'[u]) PROVE OwnEntries(u, i)'
    BY DEF EntriesInv
  <2>1. OwnEntries(u, i)
    BY <1>1, <1>10 DEF EntriesInv
  <2>2. calls'[u][i] = calls[u][i]
    BY <1>10
  <2>3. CASE calls[u][i].own \in overlapped
    BY <1>4, <2>1, <2>2, <2>3 DEF OwnEntries
  <2>4. CASE calls[u][i].own \notin overlapped
    <3>1. /\ calls[u][i].own \in refs => calls[u][i].own \in refs'
          /\ calls[u][i].own \notin visited' => calls[u][i].own \notin visited
      BY <1>4, <1>11, <2>4
    <3> QED
      BY <1>4, <2>1, <2>2, <3>1 DEF OwnEntries
  <2> QED
    BY <2>3, <2>4
<1>13. OverlapInv'
  <2> SUFFICES ASSUME NEW u \in Threads, NEW v \in Threads,
                      NEW i \in 1..Len(calls'[u]), NEW j \in 1..Len(calls'[v]),
                      calls'[u][i].captor = calls'[v][j].captor, ~(u = v /\ i = j)
               PROVE  calls'[u][i].own \in overlapped'
    BY DEF OverlapInv
  <2>1. i \in 1..Len(calls[u]) /\ calls'[u][i] = calls[u][i]
    BY <1>10
  <2>2. j \in 1..Len(calls[v]) /\ calls'[v][j] = calls[v][j]
    BY <1>10
  <2> QED
    BY <1>1, <1>4, <2>1, <2>2 DEF OverlapInv
<1>14. LeftInv'
  <2> SUFFICES ASSUME NEW r \in refs', r \notin overlapped'
               PROVE  \E u \in Threads : \E i \in 1..Len(calls'[u]) : calls'[u][i].own = r
    BY DEF LeftInv
  <2>1. r \in refs /\ r \notin overlapped /\ r # entry
    BY <1>4
  <2>2. PICK u \in Threads : \E i \in 1..Len(calls[u]) : calls[u][i].own = r
    BY <1>1, <2>1 DEF LeftInv
  <2>3. PICK i \in 1..Len(calls[u]) : calls[u][i].own = r
    BY <2>2
  <2>4. ~(u = t /\ i = n)
    BY <1>2, <1>3, <2>1, <2>3
  <2>5. i \in 1..Len(calls'[u]) /\ calls'[u][i] = calls[u][i]
    BY <1>2, <1>6, <1>7, <1>8, <2>4
  <2> QED
    BY <2>3, <2>5
<1>15. NumbersInv'
  BY <1>1, <1>4 DEF NumbersInv
<1> QED
  BY <1>9, <1>12, <1>13, <1>14, <1>15 DEF LoopInv

LEMMA EndStep ==
  ASSUME LoopInv, NEW t \in Threads, CountReached(t) \/ TimedOut(t) \/ Broken(t) PROVE LoopInv'
<1>1. TypeOK /\ breaking \subseteq Captors
  BY DEF LoopInv, TypeOK
<1>2. calls[t] # <<>>
  BY DEF CountReached, TimedOut, Broken, InPcap
<1>3. Top(t).taken \in Int
  BY <1>1, <1>2, TopOf DEF CallType
<1>4. CASE CountReached(t)
  BY <1>1, <1>2, <1>3, <1>4, LeaveStep DEF CountReached
<1>5. CASE TimedOut(t)
  BY <1>1, <1>2, <1>3, <1>5, LeaveStep DEF TimedOut
<1>6. CASE Broken(t)
  <2>1. -2 \in Int
    OBVIOUS
  <2> QED
    BY <1>1, <1>2, <1>3, <1>6, <2>1, LeaveStep DEF Broken
<1> QED
  BY <1>4, <1>5, <1>6

LEMMA OtherStep ==
  ASSUME LoopInv,
         \/ \E c \in Captors : breakLoop(c)
         \/ \E t \in Threads, c \in Captors : getPacket(t, c)
         \/ UNCHANGED vars
  PROVE  LoopInv'
<1>1. TypeOK /\ EntriesInv /\ OverlapInv /\ LeftInv /\ NumbersInv
  BY DEF LoopInv
<1>2. ASSUME NEW c \in Captors, breakLoop(c) PROVE LoopInv'
  <2>1. TypeOK'
    BY <1>1, <1>2 DEF breakLoop, TypeOK, tableVars, historyVars
  <2>2. EntriesInv' /\ OverlapInv' /\ LeftInv' /\ NumbersInv'
    BY <1>1, <1>2 DEF breakLoop, EntriesInv, OwnEntries, OverlapInv, LeftInv, NumbersInv, tableVars, historyVars
  <2> QED
    BY <2>1, <2>2 DEF LoopInv
<1>3. ASSUME NEW t \in Threads, NEW c \in Captors, getPacket(t, c) PROVE LoopInv'
  <2> DEFINE others == InUse(c, Threads \ {t})
  <2>1. /\ jni_envs' = [jni_envs EXCEPT ![c] = t]
        /\ visited' = visited \cup others
        /\ UNCHANGED <<jpcap_handlers, refs, made, breaking, calls, result, overlapped>>
    BY <1>3, Zenon DEF getPacket, Slot
  <2>2. \A r \in others : r \in Refs /\ r.number <= made
    BY InUseType
  <2>3. \A u \in Threads \ {t} : \A i \in 1..Len(calls[u]) : calls[u][i].captor = c => calls[u][i].own \in others
    BY InUseOf
  <2> HIDE DEF others
  <2>4. TypeOK'
    BY <1>1, <2>1, <2>2 DEF TypeOK
  <2>5. EntriesInv'
    <3> SUFFICES ASSUME NEW u \in Threads, NEW i \in 1..Len(calls[u]) PROVE OwnEntries(u, i)'
      BY <2>1 DEF EntriesInv
    <3>1. OwnEntries(u, i)
      BY <1>1 DEF EntriesInv
    <3>2. calls[u][i].captor \in Captors
      BY <1>1, CallOf DEF CallType
    <3>3. calls[u][i].own \notin visited' /\ jni_envs[calls[u][i].captor] = u
            => jni_envs'[calls[u][i].captor] = u
      BY <1>1, <2>1, <2>3, <3>2 DEF TypeOK
    <3>4. calls[u][i].own \notin visited' => calls[u][i].own \notin visited
      BY <2>1
    <3> QED
      BY <2>1, <3>1, <3>3, <3>4 DEF OwnEntries
  <2>6. OverlapInv' /\ LeftInv'
    BY <1>1, <2>1 DEF OverlapInv, LeftInv
  <2>7. NumbersInv'
    BY <1>1, <2>1, <2>2 DEF NumbersInv
  <2> QED
    BY <2>4, <2>5, <2>6, <2>7 DEF LoopInv
<1>4. CASE UNCHANGED vars
  <2>1. TypeOK'
    BY <1>1, <1>4 DEF vars, TypeOK, tableVars, historyVars
  <2>2. EntriesInv' /\ OverlapInv' /\ LeftInv' /\ NumbersInv'
    BY <1>1, <1>4 DEF vars, EntriesInv, OwnEntries, OverlapInv, LeftInv, NumbersInv, tableVars, historyVars
  <2> QED
    BY <2>1, <2>2 DEF LoopInv
<1> QED
  BY <1>2, <1>3, <1>4

LEMMA NextLoop == ASSUME LoopInv, [Next]_vars PROVE LoopInv'
BY CallStep, DispatchStep, ReceivedStep, EndStep, OtherStep DEF Next

LEMMA LoopInvImplies == LoopInv => OwnReceiver /\ RefsInUse
<1> SUFFICES ASSUME LoopInv PROVE OwnReceiver /\ RefsInUse
  OBVIOUS
<1>1. EntriesInv /\ LeftInv
  BY DEF LoopInv
<1>2. OwnReceiver
  BY <1>1 DEF EntriesInv, OwnEntries, OwnReceiver, CallsOf
<1> DEFINE inUse == {call.own : call \in UNION {CallsOf(t) : t \in Threads}}
<1>3. ASSUME NEW t \in Threads, NEW i \in 1..Len(calls[t])
      PROVE  calls[t][i].own \in inUse
  BY DEF CallsOf
<1>4. ASSUME NEW r \in inUse \ overlapped PROVE r \in refs
  <2>1. PICK t \in Threads : \E i \in 1..Len(calls[t]) : r = calls[t][i].own
    BY <1>4 DEF CallsOf
  <2> QED
    BY <1>1, <1>4, <2>1 DEF EntriesInv, OwnEntries
<1>5. ASSUME NEW r \in refs PROVE r \in inUse \cup overlapped
  BY <1>1, <1>3, <1>5 DEF LeftInv
<1>6. RefsInUse
  BY <1>4, <1>5 DEF RefsInUse
<1> QED
  BY <1>2, <1>6

-----------------------------------------------------------------------------
\* However many threads capture with a captor at a time, and however deep receivers
\* capture themselves, a call that had its captor to itself finds its own entries,
\* and no entry is that of an earlier call or of another captor.
THEOREM LoopInvariant == Spec => []LoopInv
<1>1. Init => LoopInv
  BY InitLoop
<1>2. LoopInv /\ [Next]_vars => LoopInv'
  BY NextLoop
<1> QED
  BY <1>1, <1>2, PTL DEF Spec

\* A packet goes to the receiver of a call on its captor that is not earlier than the
\* one that captured it, and to its own unless calls overlapped.
THEOREM OwnReceiverHolds == Spec => []OwnReceiver
<1>1. LoopInv => OwnReceiver
  BY LoopInvImplies
<1> QED
  BY <1>1, LoopInvariant, PTL

\* Only calls that overlapped lose their reference while they run, or leave it behind.
THEOREM RefsInUseHolds == Spec => []RefsInUse
<1>1. LoopInv => RefsInUse
  BY LoopInvImplies
<1> QED
  BY <1>1, LoopInvariant, PTL
=============================================================================
