------------------------ MODULE CaptureQueue_proofs -------------------------
(***************************************************************************)
(* Proofs about CaptureQueue, for a queue of any capacity, any handlers    *)
(* and any number of packets, workers and changes of the handlers.  A      *)
(* packet that was polled is older than every packet that waits, so that   *)
(* none is polled twice; and a worker calls each handler once.             *)
(***************************************************************************)
EXTENDS CaptureQueue, SequenceTheorems, TLAPS

Distinct(s) == \A i, j \in 1..Len(s) : i # j => s[i] # s[j]

\* Older than everything that waits.
Polled(p) == p <= arrived /\ \A k \in 1..Len(queue) : p < queue[k]

QueueTypeOK ==
  /\ queue \in Seq(Nat) /\ arrived \in Nat
  /\ handlers \in Seq(Handlers) /\ workers \in Nat
  /\ packet \in [Workers -> Nat] /\ todo \in [Workers -> Seq(Handlers)]
  /\ handled \in [Handlers -> Seq(Nat)]

\* What waits was numbered in its order, and what is not waiting is older.
QueueInv ==
  /\ Increasing(queue)
  /\ \A k \in 1..Len(queue) : queue[k] \in 1..arrived
  /\ \A w \in Workers : Polled(packet[w])
  /\ \A h \in Handlers : \A i \in 1..Len(handled[h]) : Polled(handled[h][i])

\* Workers have packets of their own, which the handlers on their lists have not
\* had; with one worker, they have had older ones only.
WorkerInv ==
  /\ \A w \in Workers : Distinct(todo[w])
  /\ \A w \in Workers : todo[w] # <<>> => w <= workers
  /\ \A v, w \in Workers : v # w /\ packet[v] # null => packet[v] # packet[w]
  /\ \A w \in Workers : packet[w] # null =>
       \A k \in 1..Len(todo[w]) : \A i \in 1..Len(handled[todo[w][k]]) :
         /\ handled[todo[w][k]][i] # packet[w]
         /\ workers <= 1 => handled[todo[w][k]][i] < packet[w]

CaptureInv ==
  QueueTypeOK /\ Distinct(handlers) /\ QueueInv /\ WorkerInv /\ HandledOnce /\ HandledInOrder

-----------------------------------------------------------------------------
(* Sequences *)

LEMMA TailDistinct ==
  ASSUME NEW S, NEW s \in Seq(S), s # <<>>, Distinct(s)
  PROVE  /\ Head(s) \in S /\ Tail(s) \in Seq(S) /\ Distinct(Tail(s))
         /\ Len(s) \in Nat \ {0} /\ Head(s) = s[1]
         /\ Len(Tail(s)) = Len(s) - 1
         /\ \A k \in 1..Len(Tail(s)) : Tail(s)[k] = s[k + 1] /\ Tail(s)[k] # Head(s)
<1>1. /\ Head(s) \in S /\ Tail(s) \in Seq(S)
      /\ Len(Tail(s)) = Len(s) - 1
      /\ \A k \in 1..Len(Tail(s)) : Tail(s)[k] = s[k + 1]
  BY HeadTailProperties
<1>2. Len(s) \in Nat \ {0} /\ Head(s) = s[1]
  BY EmptySeq
<1>3. \A k \in 1..Len(Tail(s)) : k + 1 \in 1..Len(s) /\ k + 1 # 1 /\ 1 \in 1..Len(s)
  BY <1>1, <1>2
<1> QED
  BY <1>1, <1>2, <1>3 DEF Distinct

LEMMA RemoveDistinct ==
  ASSUME NEW S, NEW s \in Seq(S), NEW i \in 1..Len(s), Distinct(s)
  PROVE  RemoveAt(s, i) \in Seq(S) /\ Distinct(RemoveAt(s, i))
<1> DEFINE n == Len(s)
           f == SubSeq(s, 1, i - 1)
           b == SubSeq(s, i + 1, n)
<1>1. n \in Nat /\ i \in Nat
  BY LenProperties
<1>2. /\ \A k \in 1..(i - 1) : s[k] \in S
      /\ \A k \in (i + 1)..n : s[k] \in S
  BY <1>1, ElementOfSeq
<1>3. /\ f \in Seq(S) /\ Len(f) = i - 1
      /\ \A k \in 1..(i - 1) : f[k] = s[k]
  <2>1. /\ f \in Seq(S) /\ Len(f) = IF 1 <= i - 1 THEN (i - 1) - 1 + 1 ELSE 0
        /\ \A k \in 1..((i - 1) - 1 + 1) : f[k] = s[1 + k - 1]
    BY <1>1, <1>2, SubSeqProperties
  <2> QED
    BY <1>1, <2>1
<1>4. /\ b \in Seq(S) /\ Len(b) = n - i
      /\ \A k \in 1..(n - i) : b[k] = s[i + k]
  <2>1. /\ b \in Seq(S) /\ Len(b) = IF i + 1 <= n THEN n - (i + 1) + 1 ELSE 0
        /\ \A k \in 1..(n - (i + 1) + 1) : b[k] = s[(i + 1) + k - 1]
    BY <1>1, <1>2, SubSeqProperties
  <2> QED
    BY <1>1, <2>1
<1> HIDE DEF f, b
<1>5. /\ f \o b \in Seq(S) /\ Len(f \o b) = n - 1
      /\ \A k \in 1..(n - 1) : (f \o b)[k] = s[IF k < i THEN k ELSE k + 1]
  <2>1. /\ f \o b \in Seq(S) /\ Len(f \o b) = Len(f) + Len(b)
        /\ \A k \in 1..(Len(f) + Len(b)) : (f \o b)[k] = IF k <= Len(f) THEN f[k] ELSE b[k - Len(f)]
    BY <1>3, <1>4, ConcatProperties
  <2> QED
    BY <1>1, <1>3, <1>4, <2>1
<1>6. Distinct(f \o b)
  <2> SUFFICES ASSUME NEW j \in 1..(n - 1), NEW k \in 1..(n - 1), j # k
               PROVE  (f \o b)[j] # (f \o b)[k]
    BY <1>5 DEF Distinct
  <2> DEFINE p == IF j < i THEN j ELSE j + 1
             q == IF k < i THEN k ELSE k + 1
  <2>1. p \in 1..n /\ q \in 1..n /\ p # q
    BY <1>1
  <2>2. (f \o b)[j] = s[p] /\ (f \o b)[k] = s[q]
    BY <1>5
  <2> QED
    BY <2>1, <2>2 DEF Distinct
<1> QED
  BY <1>5, <1>6 DEF RemoveAt, f, b

-----------------------------------------------------------------------------
LEMMA InitQueue == Init => CaptureInv
<1> SUFFICES ASSUME Init PROVE CaptureInv
  OBVIOUS
<1>1. /\ Len(queue) = 0 /\ Len(handlers) = 0
      /\ \A w \in Workers : todo[w] = <<>> /\ Len(todo[w]) = 0 /\ packet[w] = 0
      /\ \A h \in Handlers : Len(handled[h]) = 0
  BY EmptySeq DEF Init, null
<1>2. QueueTypeOK
  BY EmptySeq DEF Init, QueueTypeOK, null
<1>3. Distinct(handlers) /\ Increasing(queue) /\ HandledOnce /\ HandledInOrder
  BY <1>1 DEF Distinct, Increasing, HandledOnce, HandledInOrder
<1>4. QueueInv
  BY <1>1, <1>3 DEF QueueInv, Polled, Init
<1>5. WorkerInv
  BY <1>1 DEF WorkerInv, Distinct, null
<1> QED
  BY <1>2, <1>3, <1>4, <1>5 DEF CaptureInv

\* A packet that arrives is younger than all before it.
LEMMA ReceiveStep == ASSUME CaptureInv, receivePacket PROVE CaptureInv'
<1>1. QueueTypeOK /\ QueueInv
  BY DEF CaptureInv
<1>2. /\ arrived' = arrived + 1
      /\ queue' = queue \/ queue' = Append(queue, arrived + 1)
      /\ UNCHANGED <<handlers, looping, workers, packet, todo, handled, changes>>
  BY DEF receivePacket, Offered
<1>3. arrived \in Nat /\ queue \in Seq(Nat) /\ Len(queue) \in Nat /\ arrived + 1 \in Nat
  BY <1>1, LenProperties DEF QueueTypeOK
<1>4. /\ queue' \in Seq(Nat) /\ Len(queue') \in Nat
      /\ \A k \in 1..Len(queue') :
           \/ k \in 1..Len(queue) /\ queue'[k] = queue[k]
           \/ queue'[k] = arrived + 1 /\ k = Len(queue) + 1
  <2>1. CASE queue' = queue
    BY <1>3, <2>1
  <2>2. CASE queue' = Append(queue, arrived + 1)
    <3>1. /\ queue' \in Seq(Nat) /\ Len(queue') = Len(queue) + 1
          /\ \A k \in 1..Len(queue) : queue'[k] = queue[k]
          /\ queue'[Len(queue) + 1] = arrived + 1
      BY <1>3, <2>2, AppendProperties
    <3> QED
      BY <1>3, <3>1
  <2> QED
    BY <1>2, <2>1, <2>2
<1>5. \A k \in 1..Len(queue') : queue'[k] \in 1..arrived'
  BY <1>1, <1>2, <1>3, <1>4, SMTT(40) DEF QueueInv
<1>5a. Increasing(queue')
  <2> SUFFICES ASSUME NEW j \in 1..Len(queue'), NEW k \in 1..Len(queue'), j < k
               PROVE  queue'[j] < queue'[k]
    BY DEF Increasing
  <2>1. CASE k \in 1..Len(queue) /\ queue'[k] = queue[k]
    <3>1. j \in 1..Len(queue) /\ queue'[j] = queue[j]
      BY <1>3, <1>4, <2>1
    <3> QED
      BY <1>1, <2>1, <3>1 DEF QueueInv, Increasing
  <2>2. CASE queue'[k] = arrived + 1 /\ k = Len(queue) + 1
    <3>1. j \in 1..Len(queue) /\ queue'[j] = queue[j]
      BY <1>3, <1>4, <2>2
    <3> QED
      BY <1>1, <1>3, <2>2, <3>1 DEF QueueInv
  <2> QED
    BY <1>4, <2>1, <2>2
<1>6. ASSUME NEW p \in Nat, Polled(p) PROVE Polled(p)'
  BY <1>2, <1>3, <1>4, <1>6 DEF Polled
<1>7. \A w \in Workers : packet[w] \in Nat
  BY <1>1 DEF QueueTypeOK
<1>8. \A h \in Handlers : \A i \in 1..Len(handled[h]) : handled[h][i] \in Nat
  BY <1>1, ElementOfSeq DEF QueueTypeOK
<1>9. QueueInv'
  BY <1>1, <1>2, <1>5, <1>5a, <1>6, <1>7, <1>8 DEF QueueInv
<1>10. QueueTypeOK'
  BY <1>1, <1>2, <1>3, <1>4 DEF QueueTypeOK
<1> QED
  BY <1>2, <1>9, <1>10 DEF CaptureInv, WorkerInv, HandledOnce, HandledInOrder

\* A worker that polls gets a packet that nobody had, or null.
LEMMA PollStep == ASSUME CaptureInv, NEW w \in Workers, Poll(w) PROVE CaptureInv'
<1>1. QueueTypeOK /\ QueueInv /\ WorkerInv /\ Distinct(handlers)
  BY DEF CaptureInv
<1>2. /\ w <= workers /\ todo' = [todo EXCEPT ![w] = handlers]
      /\ UNCHANGED <<arrived, handlers, looping, workers, handled, changes>>
  BY DEF Poll
<1>3. /\ \A v \in Workers \ {w} : todo'[v] = todo[v]
      /\ todo'[w] = handlers /\ todo' \in [Workers -> Seq(Handlers)]
  BY <1>1, <1>2 DEF QueueTypeOK
<1>4. queue \in Seq(Nat) /\ Len(queue) \in Nat /\ arrived \in Nat
  BY <1>1, LenProperties DEF QueueTypeOK
<1>5. \A h \in Handlers : \A i \in 1..Len(handled[h]) : handled[h][i] \in Nat
  BY <1>1, ElementOfSeq DEF QueueTypeOK
<1>6. \A v \in Workers : packet[v] \in Nat
  BY <1>1 DEF QueueTypeOK
<1>7. ASSUME NEW k \in 1..Len(handlers) PROVE handlers[k] \in Handlers
  BY <1>1, ElementOfSeq DEF QueueTypeOK
<1>8. CASE queue = <<>>
  <2>1. packet' = [packet EXCEPT ![w] = 0] /\ queue' = queue
    BY <1>8 DEF Poll, null
  <2>2. packet' \in [Workers -> Nat] /\ packet'[w] = 0 /\ \A v \in Workers \ {w} : packet'[v] = packet[v]
    BY <1>1, <2>1 DEF QueueTypeOK
  <2>3. Len(queue) = 0
    BY <1>8, EmptySeq
  <2>4. QueueInv'
    <3>1. \A v \in Workers : Polled(packet[v])
      BY <1>1 DEF QueueInv
    <3>2. \A v \in Workers : packet'[v] <= arrived
      BY <1>4, <2>2, <3>1 DEF Polled
    <3>3. 1..Len(queue) = {}
      BY <2>3
    <3>4. \A v \in Workers : Polled(packet[v])'
      BY <1>2, <2>1, <3>2, <3>3 DEF Polled
    <3>5. \A h \in Handlers : \A i \in 1..Len(handled[h]) : Polled(handled[h][i])
      BY <1>1 DEF QueueInv
    <3>6. (\A h \in Handlers : \A i \in 1..Len(handled[h]) : Polled(handled[h][i]))'
      BY <1>2, <2>1, <3>5 DEF Polled
    <3>7. Increasing(queue)'
      BY <1>1, <2>1 DEF QueueInv, Increasing
    <3>8. (\A k \in 1..Len(queue) : queue[k] \in 1..arrived)'
      BY <1>1, <1>2, <2>1 DEF QueueInv
    <3> QED
      BY <3>4, <3>6, <3>7, <3>8 DEF QueueInv
  <2>5. WorkerInv'
    <3>1. \A u, v \in Workers : u # v /\ packet'[u] # null => packet'[u] # packet'[v]
      BY <1>1, <2>2 DEF WorkerInv, null
    <3>2. ASSUME NEW v \in Workers, packet'[v] # null, NEW k \in 1..Len(todo'[v]),
                 NEW i \in 1..Len(handled'[todo'[v][k]])
          PROVE  /\ handled'[todo'[v][k]][i] # packet'[v]
                 /\ workers' <= 1 => handled'[todo'[v][k]][i] < packet'[v]
      <4>1. v # w
        BY <2>2, <3>2 DEF null
      <4>2. packet'[v] = packet[v] /\ todo'[v] = todo[v] /\ handled' = handled /\ workers' = workers
        BY <1>2, <1>3, <2>2, <4>1
      <4> QED
        BY <1>1, <3>2, <4>2 DEF WorkerInv
    <3>3. \A v \in Workers : Distinct(todo'[v])
      BY <1>1, <1>3 DEF WorkerInv
    <3>4. \A v \in Workers : todo'[v] # <<>> => v <= workers'
      BY <1>1, <1>2, <1>3 DEF WorkerInv
    <3> QED
      BY <3>1, <3>2, <3>3, <3>4 DEF WorkerInv, Distinct, null
  <2> QED
    BY <1>1, <1>2, <1>3, <2>1, <2>2, <2>4, <2>5 DEF CaptureInv, QueueTypeOK, HandledOnce, HandledInOrder
<1>9. CASE queue # <<>>
  <2>1. packet' = [packet EXCEPT ![w] = Head(queue)] /\ queue' = Tail(queue)
    BY <1>9 DEF Poll
  <2>2. /\ Head(queue) \in Nat /\ Head(queue) = queue[1] /\ Len(queue) \in Nat \ {0}
        /\ queue' \in Seq(Nat) /\ Len(queue') = Len(queue) - 1
        /\ \A k \in 1..Len(queue') : queue'[k] = queue[k + 1]
    BY <1>4, <1>9, <2>1, HeadTailProperties, EmptySeq
  <2>3. \A k \in 1..Len(queue') : k + 1 \in 1..Len(queue) /\ k + 1 > 1 /\ 1 \in 1..Len(queue)
    BY <2>2
  <2>4. packet' \in [Workers -> Nat] /\ packet'[w] = Head(queue)
        /\ \A v \in Workers \ {w} : packet'[v] = packet[v]
    BY <1>1, <2>1, <2>2 DEF QueueTypeOK
  <2> DEFINE Older(p) == p <= arrived /\ \A k \in 1..Len(queue') : p < queue'[k]
  <2>5. Older(Head(queue))
    <3>1. queue[1] \in 1..arrived
      BY <1>1, <2>2 DEF QueueInv
    <3>2. ASSUME NEW k \in 1..Len(queue') PROVE queue[1] < queue[k + 1]
      BY <1>1, <2>3 DEF QueueInv, Increasing
    <3> QED
      BY <1>4, <2>2, <3>1, <3>2
  <2>6. \A p \in Nat : Polled(p) => p < Head(queue) /\ Older(p)
    BY <2>2, <2>3 DEF Polled
  <2>7. QueueInv'
    <3>1. Increasing(queue') /\ \A k \in 1..Len(queue') : queue'[k] \in 1..arrived'
      <4>1. \A j, k \in 1..Len(queue') : j < k => j + 1 < k + 1
        BY <2>2
      <4> QED
        BY <1>1, <1>2, <2>2, <2>3, <4>1 DEF QueueInv, Increasing
    <3> HIDE DEF Older
    <3>2. \A v \in Workers : Older(packet'[v])
      BY <1>1, <1>6, <2>4, <2>5, <2>6 DEF QueueInv
    <3>3. \A h \in Handlers : \A i \in 1..Len(handled[h]) : Older(handled[h][i])
      BY <1>1, <1>5, <2>6 DEF QueueInv
    <3> QED
      BY <1>2, <3>1, <3>2, <3>3 DEF QueueInv, Polled, Older
  <2>8. WorkerInv'
    <3>1. \A v \in Workers : packet[v] < Head(queue)
      BY <1>1, <1>6, <2>6 DEF QueueInv
    <3>2. \A u, v \in Workers : u # v /\ packet'[u] # null => packet'[u] # packet'[v]
      BY <1>1, <1>6, <2>2, <2>4, <3>1 DEF WorkerInv
    <3>3. ASSUME NEW v \in Workers, packet'[v] # null, NEW k \in 1..Len(todo'[v]),
                 NEW i \in 1..Len(handled'[todo'[v][k]])
          PROVE  /\ handled'[todo'[v][k]][i] # packet'[v]
                 /\ workers' <= 1 => handled'[todo'[v][k]][i] < packet'[v]
      <4>1. CASE v = w
        <5>1. todo'[v][k] \in Handlers
          BY <1>3, <1>7, <3>3, <4>1
        <5>2. handled'[todo'[v][k]][i] \in Nat /\ handled'[todo'[v][k]][i] < Head(queue)
          BY <1>1, <1>2, <1>5, <2>6, <3>3, <5>1 DEF QueueInv
        <5> QED
          BY <2>2, <2>4, <4>1, <5>2
      <4>2. CASE v # w
        <5>1. packet'[v] = packet[v] /\ todo'[v] = todo[v] /\ handled' = handled /\ workers' = workers
          BY <1>2, <1>3, <2>4, <4>2
        <5> QED
          BY <1>1, <3>3, <5>1 DEF WorkerInv
      <4> QED
        BY <4>1, <4>2
    <3>4. \A v \in Workers : Distinct(todo'[v])
      BY <1>1, <1>3 DEF WorkerInv
    <3>5. \A v \in Workers : todo'[v] # <<>> => v <= workers'
      BY <1>1, <1>2, <1>3 DEF WorkerInv
    <3> QED
      BY <3>2, <3>3, <3>4, <3>5 DEF WorkerInv, Distinct, null
  <2> QED
    BY <1>1, <1>2, <1>3, <2>2, <2>4, <2>7, <2>8 DEF CaptureInv, QueueTypeOK, HandledOnce, HandledInOrder
<1> QED
  BY <1>8, <1>9

\* A handler that is called has had other packets than this one.
LEMMA HandleStep == ASSUME CaptureInv, NEW w \in Workers, Handle(w) PROVE CaptureInv'
<1> DEFINE h == Head(todo[w])
<1>1. QueueTypeOK /\ QueueInv /\ WorkerInv /\ Distinct(handlers) /\ HandledOnce /\ HandledInOrder
  BY DEF CaptureInv
<1>2. /\ todo[w] # <<>> /\ todo' = [todo EXCEPT ![w] = Tail(@)]
      /\ handled' = [handled EXCEPT ![h] = IF packet[w] = 0 THEN @ ELSE Append(@, packet[w])]
      /\ UNCHANGED <<queue, arrived, handlers, looping, workers, packet, changes>>
  BY DEF Handle, null
<1>3. todo[w] \in Seq(Handlers) /\ Distinct(todo[w]) /\ packet[w] \in Nat /\ w <= workers
  BY <1>1, <1>2 DEF QueueTypeOK, WorkerInv
<1>4. /\ h \in Handlers /\ Tail(todo[w]) \in Seq(Handlers) /\ Distinct(Tail(todo[w]))
      /\ Len(todo[w]) \in Nat \ {0} /\ h = todo[w][1]
      /\ Len(Tail(todo[w])) = Len(todo[w]) - 1
      /\ \A k \in 1..Len(Tail(todo[w])) : Tail(todo[w])[k] = todo[w][k + 1] /\ Tail(todo[w])[k] # h
  BY <1>2, <1>3, TailDistinct
<1> HIDE DEF h
<1>5. /\ todo'[w] = Tail(todo[w]) /\ todo' \in [Workers -> Seq(Handlers)]
      /\ \A v \in Workers \ {w} : todo'[v] = todo[v]
  BY <1>1, <1>2, <1>4 DEF QueueTypeOK
<1>6. /\ handled[h] \in Seq(Nat) /\ Len(handled[h]) \in Nat
  BY <1>1, <1>4, LenProperties DEF QueueTypeOK
<1>7. /\ handled' \in [Handlers -> Seq(Nat)]
      /\ \A g \in Handlers \ {h} : handled'[g] = handled[g]
      /\ packet[w] = 0 => handled'[h] = handled[h]
      /\ packet[w] # 0 => handled'[h] = Append(handled[h], packet[w])
  <2>1. (IF packet[w] = 0 THEN handled[h] ELSE Append(handled[h], packet[w])) \in Seq(Nat)
    BY <1>3, <1>6, AppendProperties
  <2> QED
    BY <1>1, <1>2, <1>4, <2>1 DEF QueueTypeOK
<1>8. \A i \in 1..Len(handled'[h]) :
        \/ i \in 1..Len(handled[h]) /\ handled'[h][i] = handled[h][i]
        \/ packet[w] # 0 /\ handled'[h][i] = packet[w] /\ i = Len(handled[h]) + 1
  <2>1. CASE packet[w] = 0
    BY <1>7, <2>1
  <2>2. CASE packet[w] # 0
    <3>1. /\ Len(handled'[h]) = Len(handled[h]) + 1
          /\ \A i \in 1..Len(handled[h]) : handled'[h][i] = handled[h][i]
          /\ handled'[h][Len(handled[h]) + 1] = packet[w]
      BY <1>3, <1>6, <1>7, <2>2, AppendProperties, SMTT(40)
    <3> QED
      BY <1>6, <2>2, <3>1
  <2> QED
    BY <2>1, <2>2
<1>9. 1 \in 1..Len(todo[w])
  BY <1>4
<1>10. packet[w] # 0 =>
         \A i \in 1..Len(handled[h]) :
           handled[h][i] # packet[w] /\ (workers <= 1 => handled[h][i] < packet[w])
  BY <1>1, <1>3, <1>4, <1>9 DEF WorkerInv, null
<1>11. QueueTypeOK'
  BY <1>1, <1>2, <1>5, <1>7 DEF QueueTypeOK
<1>12. QueueInv'
  <2>1. Polled(packet[w])
    BY <1>1 DEF QueueInv
  <2>2. ASSUME NEW g \in Handlers, NEW i \in 1..Len(handled'[g]) PROVE Polled(handled'[g][i])
    <3>1. CASE g = h
      BY <1>1, <1>4, <1>8, <2>1, <2>2, <3>1 DEF QueueInv
    <3>2. CASE g # h
      BY <1>1, <1>7, <2>2, <3>2 DEF QueueInv
    <3> QED
      BY <3>1, <3>2
  <2> QED
    BY <1>1, <1>2, <2>2 DEF QueueInv, Polled
<1>13. HandledOnce'
  <2> SUFFICES ASSUME NEW g \in Handlers, NEW i \in 1..Len(handled'[g]), NEW j \in 1..Len(handled'[g]), i # j
               PROVE  handled'[g][i] # handled'[g][j]
    BY DEF HandledOnce
  <2>1. CASE g = h
    BY <1>1, <1>4, <1>8, <1>10, <2>1, SMTT(40) DEF HandledOnce
  <2>2. CASE g # h
    BY <1>1, <1>7, <2>2, ZenonT(40) DEF HandledOnce
  <2> QED
    BY <2>1, <2>2
<1>14. HandledInOrder'
  <2> SUFFICES ASSUME workers <= 1, NEW g \in Handlers,
                      NEW i \in 1..Len(handled'[g]), NEW j \in 1..Len(handled'[g]), i < j
               PROVE  handled'[g][i] < handled'[g][j]
    BY <1>2 DEF HandledInOrder, Increasing
  <2>1. Increasing(handled[g])
    BY <1>1 DEF HandledInOrder
  <2>2. CASE g = h
    <3>1. i \in 1..Len(handled[h]) /\ handled'[h][i] = handled[h][i]
      <4>1. i # Len(handled[h]) + 1
        <5>1. j \in 1..Len(handled[h]) \/ j = Len(handled[h]) + 1
          BY <1>8, <2>2
        <5> QED
          BY <1>6, <5>1
      <4> QED
        BY <1>8, <2>2, <4>1
    <3> QED
      BY <1>8, <1>10, <2>1, <2>2, <3>1 DEF Increasing
  <2>3. CASE g # h
    BY <1>7, <2>1, <2>3 DEF Increasing
  <2> QED
    BY <2>2, <2>3
<1>15. WorkerInv'
  <2>1. \A v \in Workers : Distinct(todo'[v]) /\ (todo'[v] # <<>> => v <= workers)
    BY <1>1, <1>3, <1>4, <1>5 DEF WorkerInv
  <2>2. ASSUME NEW v \in Workers, packet[v] # 0, NEW k \in 1..Len(todo'[v]),
               NEW i \in 1..Len(handled'[todo'[v][k]])
        PROVE  /\ handled'[todo'[v][k]][i] # packet[v]
               /\ workers <= 1 => handled'[todo'[v][k]][i] < packet[v]
    <3> DEFINE g == todo'[v][k]
    <3>1. g \in Handlers
      <4>1. todo'[v] \in Seq(Handlers)
        BY <1>5
      <4>2. \A s \in Seq(Handlers) : \A n \in 1..Len(s) : s[n] \in Handlers
        BY ElementOfSeq
      <4>3. \A n \in 1..Len(todo'[v]) : todo'[v][n] \in Handlers
        BY <4>1, <4>2, Zenon
      <4> QED
        BY <2>2, <4>3
    <3>2. CASE v = w
      <4>1. todo'[v] = Tail(todo[w]) /\ k \in 1..Len(Tail(todo[w]))
        BY <1>5, <2>2, <3>2
      <4>2. g = todo[w][k + 1] /\ g # h
        BY <1>4, <4>1
      <4>3. k + 1 \in 1..Len(todo[w])
        BY <1>4, <4>1
      <4>4. handled'[g] = handled[g]
        BY <1>7, <3>1, <4>2
      <4> QED
        BY <1>1, <2>2, <3>2, <4>2, <4>3, <4>4 DEF WorkerInv, null
    <3>3. CASE v # w
      <4>1. k \in 1..Len(todo[v]) /\ g = todo[v][k] /\ todo[v] # <<>>
        <5>1. todo'[v] = todo[v]
          BY <1>5, <3>3
        <5> QED
          BY <2>2, <5>1, EmptySeq
      <4>2. v <= workers
        BY <1>1, <4>1 DEF WorkerInv
      <4>3. ~(workers <= 1)
        BY <1>1, <1>3, <3>3, <4>2, QueueAssumption DEF Workers, QueueTypeOK
      <4>4. packet[v] # packet[w]
        BY <1>1, <2>2, <3>3 DEF WorkerInv, null
      <4>5. \/ i \in 1..Len(handled[g]) /\ handled'[g][i] = handled[g][i]
            \/ handled'[g][i] = packet[w]
        BY <1>7, <1>8, <2>2, <3>1
      <4> QED
        BY <1>1, <2>2, <4>1, <4>3, <4>4, <4>5 DEF WorkerInv, null
    <3> QED
      BY <3>2, <3>3
  <2>3. packet' = packet /\ workers' = workers
    BY <1>2
  <2> QED
    BY <1>1, <2>1, <2>2, <2>3 DEF WorkerInv, Distinct, null
<1> QED
  BY <1>1, <1>2, <1>11, <1>12, <1>13, <1>14, <1>15 DEF CaptureInv

LEMMA StartStep == ASSUME CaptureInv, start PROVE CaptureInv'
<1>1. /\ workers' = workers + 1
      /\ UNCHANGED <<queue, arrived, handlers, packet, todo, handled, changes>>
  BY DEF start
<1>2. workers \in Nat /\ workers + 1 \in Nat
  BY DEF CaptureInv, QueueTypeOK
<1>3. \A w \in Workers : w <= workers => w <= workers + 1
  BY <1>2, QueueAssumption DEF Workers
<1>4. workers + 1 <= 1 => workers <= 1
  BY <1>2
<1>5. WorkerInv'
  <2>1. WorkerInv
    BY DEF CaptureInv
  <2> QED
    BY <1>1, <1>3, <1>4, <2>1, ZenonT(40) DEF WorkerInv, Distinct
<1> QED
  BY <1>1, <1>2, <1>4, <1>5
  DEF CaptureInv, QueueTypeOK, Distinct, QueueInv, Polled, HandledOnce, HandledInOrder

\* A step that changes the list of handlers changes nothing else here.
LEMMA HandlersStep ==
  ASSUME CaptureInv, handlers' \in Seq(Handlers), Distinct(handlers'),
         UNCHANGED <<queue, arrived, workers, packet, todo, handled>>
  PROVE  CaptureInv'
BY DEF CaptureInv, QueueTypeOK, QueueInv, Polled, WorkerInv, HandledOnce, HandledInOrder, Distinct

LEMMA ChangeStep ==
  ASSUME CaptureInv, NEW h \in Handlers, addHandler(h) \/ removeHandler(h)
  PROVE  CaptureInv'
<1>1. handlers \in Seq(Handlers) /\ Distinct(handlers) /\ Len(handlers) \in Nat
  BY LenProperties DEF CaptureInv, QueueTypeOK
<1>2. UNCHANGED <<queue, arrived, workers, packet, todo, handled>>
  BY DEF addHandler, removeHandler
<1>3. CASE addHandler(h)
  <2>1. handlers' = Append(handlers, h) /\ \A i \in 1..Len(handlers) : handlers[i] # h
    BY <1>3 DEF addHandler, Contains
  <2>2. /\ handlers' \in Seq(Handlers) /\ Len(handlers') = Len(handlers) + 1
        /\ \A i \in 1..Len(handlers) : handlers'[i] = handlers[i]
        /\ handlers'[Len(handlers) + 1] = h
    BY <1>1, <2>1, AppendProperties
  <2>3. Distinct(handlers')
    BY <1>1, <2>1, <2>2 DEF Distinct
  <2> QED
    BY <1>2, <2>2, <2>3, HandlersStep
<1>4. CASE removeHandler(h)
  <2>1. PICK i \in 1..Len(handlers) : handlers' = RemoveAt(handlers, i)
    BY <1>4 DEF removeHandler
  <2> QED
    BY <1>1, <1>2, <2>1, RemoveDistinct, HandlersStep
<1> QED
  BY <1>3, <1>4

LEMMA NextQueue == ASSUME CaptureInv, [Next]_vars PROVE CaptureInv'
<1>1. CASE LoopEnds
  BY <1>1 DEF LoopEnds, CaptureInv, QueueTypeOK, QueueInv, Polled, WorkerInv, HandledOnce,
              HandledInOrder, Distinct
<1>2. CASE UNCHANGED vars
  BY <1>2 DEF vars, CaptureInv, QueueTypeOK, QueueInv, Polled, WorkerInv, HandledOnce,
              HandledInOrder, Distinct
<1> QED
  BY <1>1, <1>2, StartStep, ReceiveStep, PollStep, HandleStep, ChangeStep DEF Next

\* However many workers poll, and however handlers come and go, no handler gets a
\* packet twice.
THEOREM HandledOnceHolds == Spec => []HandledOnce
<1>1. Init => CaptureInv
  BY InitQueue
<1>2. CaptureInv /\ [Next]_vars => CaptureInv'
  BY NextQueue
<1>3. CaptureInv => HandledOnce
  BY DEF CaptureInv
<1> QED
  BY <1>1, <1>2, <1>3, PTL DEF Spec

\* With one worker, handlers get packets in the order they arrived.
THEOREM HandledInOrderHolds == Spec => []HandledInOrder
<1>1. Init => CaptureInv
  BY InitQueue
<1>2. CaptureInv /\ [Next]_vars => CaptureInv'
  BY NextQueue
<1>3. CaptureInv => HandledInOrder
  BY DEF CaptureInv
<1> QED
  BY <1>1, <1>2, <1>3, PTL DEF Spec
=============================================================================
