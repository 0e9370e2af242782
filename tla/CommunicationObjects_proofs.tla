---------------------- MODULE CommunicationObjects_proofs --------------------
(***************************************************************************)
(* What the proofs about communication objects have in common: the queues  *)
(* of waiting processes, whatever the objects do, and the rings of         *)
(* messages. C stands for the calls that the processes of a model make.    *)
(***************************************************************************)
EXTENDS CommunicationObjects, Rings, SequenceTheorems, TLAPS

-----------------------------------------------------------------------------
(* Queues of processes.                                                    *)

Injective(q) == \A i, j \in DOMAIN q : q[i] = q[j] => i = j

\* Inserting a process into a queue adds it and nothing else.
LEMMA WithProperties ==
  ASSUME NEW S, NEW q \in Seq(S), NEW p \in S, NEW k \in 1..(Len(q) + 1)
  PROVE  /\ With(q, k, p) \in Seq(S)
         /\ \A i \in DOMAIN With(q, k, p) :
              With(q, k, p)[i] = p \/ \E j \in DOMAIN q : With(q, k, p)[i] = q[j]
         /\ Injective(q) /\ (\A j \in DOMAIN q : q[j] # p) => Injective(With(q, k, p))
<1> DEFINE w == With(q, k, p)
<1>1. /\ \A i \in 1..(Len(q) + 1) : w[i] = IF i < k THEN q[i] ELSE IF i = k THEN p ELSE q[i - 1]
      /\ DOMAIN w = 1..(Len(q) + 1)
  BY DEF With
<1>2. \A i \in 1..(Len(q) + 1) : w[i] \in S
  BY <1>1
<1>3. w \in Seq(S)
  <2>1. w = [i \in 1..(Len(q) + 1) |-> w[i]]
    BY <1>1 DEF With
  <2>2. Len(q) + 1 \in Nat
    OBVIOUS
  <2> QED  BY <2>1, <2>2, <1>2
<1>4. \A i \in DOMAIN w : w[i] = p \/ \E j \in DOMAIN q : w[i] = q[j]
  BY <1>1
<1>5. Injective(q) /\ (\A j \in DOMAIN q : q[j] # p) => Injective(w)
  BY <1>1 DEF Injective
<1> QED  BY <1>3, <1>4, <1>5

\* Removing a process from a queue without duplicates leaves the others.
LEMMA WithoutProperties ==
  ASSUME NEW S, NEW q \in Seq(S), NEW p, Injective(q)
  PROVE  /\ Without(q, p) \in Seq(S)
         /\ \A i \in DOMAIN Without(q, p) :
              /\ Without(q, p)[i] # p
              /\ \E j \in DOMAIN q : Without(q, p)[i] = q[j]
         /\ Injective(Without(q, p))
<1> DEFINE w == Without(q, p)
<1>1. CASE ~ \E i \in DOMAIN q : q[i] = p
  BY <1>1 DEF Without
<1>2. CASE \E i \in DOMAIN q : q[i] = p
  <2> DEFINE k == CHOOSE i \in DOMAIN q : q[i] = p
  <2>1. k \in DOMAIN q /\ q[k] = p
    BY <1>2
  <2>2. w = [i \in 1..(Len(q) - 1) |-> IF i < k THEN q[i] ELSE q[i + 1]]
    BY <1>2 DEF Without
  <2> HIDE DEF k, w
  <2>3. Len(q) - 1 \in Nat /\ DOMAIN w = 1..(Len(q) - 1)
    BY <2>1, <2>2
  <2>4. \A i \in 1..(Len(q) - 1) : w[i] \in S
    BY <2>1, <2>2
  <2>5. w \in Seq(S)
    BY <2>2, <2>3, <2>4
  <2>6. \A i \in DOMAIN w : w[i] # p /\ \E j \in DOMAIN q : w[i] = q[j]
    BY <2>1, <2>2, <2>3 DEF Injective
  <2>7. Injective(w)
    BY <2>1, <2>2, <2>3 DEF Injective
  <2> QED  BY <2>5, <2>6, <2>7 DEF w
<1> QED  BY <1>1, <1>2

\* Taking the head away.
LEMMA TailProperties ==
  ASSUME NEW S, NEW q \in Seq(S), q # <<>>, Injective(q)
  PROVE  /\ Tail(q) \in Seq(S) /\ Injective(Tail(q))
         /\ Head(q) = q[1] /\ 1 \in DOMAIN q
         /\ \A i \in DOMAIN Tail(q) :
              Tail(q)[i] # Head(q) /\ \E j \in DOMAIN q : Tail(q)[i] = q[j]
BY DEF Injective
-----------------------------------------------------------------------------
(* What holds of queues, waits and calls whatever the objects do.          *)

Typed(C) ==
  /\ queue \in [Resource -> Seq(Proc)]
  /\ wait \in [Proc -> {"none"} \cup Waits \cup Answers]
  /\ call \in [Proc -> C]

Distinct == \A r \in Resource : Injective(queue[r])

\* Who is queued waits, in a service of that object, so that nobody is queued twice.
QueuedWaits ==
  \A r \in Resource : \A i \in DOMAIN queue[r] :
    LET p == queue[r][i]
    IN  /\ wait[p] \in Waits /\ call[p].service # "none" /\ call[p].object = r
        /\ Home[p] = Home[r]

QueueInv(C) == Typed(C) /\ Distinct /\ QueuedWaits

\* A step that lets no new process wait in r.
Kept(r) ==
  \A i \in DOMAIN queue'[r] : \E j \in DOMAIN queue[r] :
    queue'[r][i] = queue[r][j] /\ call'[queue'[r][i]] = call[queue[r][j]]

LEMMA Stutter ==
  ASSUME NEW C, QueueInv(C), UNCHANGED <<queue, wait, call>>
  PROVE  QueueInv(C)' /\ \A r \in Resource : Kept(r)
BY DEF QueueInv, Typed, Distinct, QueuedWaits, Kept

\* Block: the process comes to the queue, the others stay.
LEMMA BlockQueues ==
  ASSUME NEW C, QueueInv(C), NEW p \in Proc, NEW r \in Resource,
         NEW kind \in Waits, NEW c \in C, c.service # "none", c.object = r, Home[p] = Home[r], Block(p, r, kind, c)
  PROVE  /\ QueueInv(C)'
         /\ \A x \in Resource \ {r} : Kept(x)
         /\ \A i \in DOMAIN queue'[r] :
              \/ queue'[r][i] = p /\ call'[p] = c
              \/ \E j \in DOMAIN queue[r] :
                   queue'[r][i] = queue[r][j] /\ call'[queue'[r][i]] = call[queue[r][j]]
<1>0. Places(r, queue[r]) \subseteq 1..(Len(queue[r]) + 1)
  BY DEF Places, QueueInv, Typed
<1>1. PICK k \in 1..(Len(queue[r]) + 1) : queue' = [queue EXCEPT ![r] = With(@, k, p)]
  <2>1. PICK k \in Places(r, queue[r]) : queue' = [queue EXCEPT ![r] = With(@, k, p)]
    BY DEF Block, Wait
  <2> QED  BY <1>0, <2>1
<1>2. /\ wait[p] = "none" /\ wait' = [wait EXCEPT ![p] = kind]
      /\ call' = [call EXCEPT ![p] = c]
  BY DEF Block, Wait
<1>3. \A x \in Resource : \A i \in DOMAIN queue[x] : queue[x][i] # p /\ queue[x][i] \in Proc
  BY <1>2 DEF QueueInv, QueuedWaits, Waits, Typed
<1>4. queue[r] \in Seq(Proc) /\ Injective(queue[r])
  BY DEF QueueInv, Typed, Distinct
<1>5. /\ With(queue[r], k, p) \in Seq(Proc)
      /\ \A i \in DOMAIN With(queue[r], k, p) :
           With(queue[r], k, p)[i] = p
             \/ \E j \in DOMAIN queue[r] : With(queue[r], k, p)[i] = queue[r][j]
      /\ Injective(With(queue[r], k, p))
  BY <1>3, <1>4, WithProperties
<1>6. queue'[r] = With(queue[r], k, p) /\ \A x \in Resource \ {r} : queue'[x] = queue[x]
  BY <1>1 DEF QueueInv, Typed
<1>7. /\ wait'[p] = kind /\ call'[p] = c
      /\ \A q \in Proc \ {p} : wait'[q] = wait[q] /\ call'[q] = call[q]
  BY <1>2 DEF QueueInv, Typed
<1>8. \A i \in DOMAIN queue'[r] :
        \/ queue'[r][i] = p /\ call'[p] = c
        \/ \E j \in DOMAIN queue[r] :
             queue'[r][i] = queue[r][j] /\ call'[queue'[r][i]] = call[queue[r][j]]
  BY <1>3, <1>5, <1>6, <1>7
<1>9. \A x \in Resource \ {r} : Kept(x)
  BY <1>3, <1>6, <1>7 DEF Kept
<1>10. Typed(C)'
  BY <1>1, <1>2, <1>5 DEF QueueInv, Typed
<1>11. Distinct'
  BY <1>5, <1>6 DEF QueueInv, Distinct
<1>12. QueuedWaits'
  BY <1>3, <1>5, <1>6, <1>7 DEF QueueInv, QueuedWaits
<1> QED  BY <1>8, <1>9, <1>10, <1>11, <1>12 DEF QueueInv

\* Comeback: a process that is answered is in no queue.
LEMMA ComebackQueues ==
  ASSUME NEW C, NoCall \in C, QueueInv(C), NEW p \in Proc, Comeback(p)
  PROVE  QueueInv(C)' /\ \A r \in Resource : Kept(r)
<1>1. /\ wait[p] \in Answers /\ wait' = [wait EXCEPT ![p] = "none"]
      /\ queue' = queue /\ call' = [call EXCEPT ![p] = NoCall]
  BY DEF Comeback, Return
<1>2. \A r \in Resource : \A i \in DOMAIN queue[r] : queue[r][i] # p /\ queue[r][i] \in Proc
  BY <1>1 DEF QueueInv, QueuedWaits, Typed, Waits, Answers
<1> QED  BY <1>1, <1>2 DEF QueueInv, Typed, Distinct, QueuedWaits, Kept

\* Signal: the head leaves; the service that signals may write into its call.
LEMMA SignalQueues ==
  ASSUME NEW C, QueueInv(C), NEW r \in Resource, Signal(r), call' \in [Proc -> C],
         \A p \in Proc : p # Head(queue[r]) => call'[p] = call[p]
  PROVE  QueueInv(C)' /\ \A x \in Resource : Kept(x)
<1> DEFINE h == Head(queue[r])
<1>1. /\ queue[r] # <<>> /\ wait' = [wait EXCEPT ![h] = "granted"]
      /\ queue' = [queue EXCEPT ![r] = Tail(@)]
  BY DEF Signal
<1>2. queue[r] \in Seq(Proc) /\ Injective(queue[r])
  BY DEF QueueInv, Typed, Distinct
<1>3. /\ Tail(queue[r]) \in Seq(Proc) /\ Injective(Tail(queue[r]))
      /\ h = queue[r][1] /\ 1 \in DOMAIN queue[r]
      /\ \A i \in DOMAIN Tail(queue[r]) :
           Tail(queue[r])[i] # h /\ \E j \in DOMAIN queue[r] : Tail(queue[r])[i] = queue[r][j]
  BY <1>1, <1>2, TailProperties
<1>4. call[h].object = r /\ h \in Proc
  BY <1>2, <1>3 DEF QueueInv, QueuedWaits
<1>5. queue'[r] = Tail(queue[r]) /\ \A x \in Resource \ {r} : queue'[x] = queue[x]
  BY <1>1 DEF QueueInv, Typed
<1>6. \A x \in Resource : \A i \in DOMAIN queue'[x] :
        /\ queue'[x][i] # h /\ queue'[x][i] \in Proc
        /\ \E j \in DOMAIN queue[x] : queue'[x][i] = queue[x][j]
  <2>1. ASSUME NEW x \in Resource \ {r}, NEW i \in DOMAIN queue[x]
        PROVE  queue[x][i] # h /\ queue[x][i] \in Proc
    BY <1>4 DEF QueueInv, QueuedWaits, Typed
  <2>2. \A i \in DOMAIN Tail(queue[r]) : Tail(queue[r])[i] \in Proc
    BY <1>3
  <2> HIDE DEF h
  <2>3. \A i \in DOMAIN queue'[r] :
          /\ queue'[r][i] # h /\ queue'[r][i] \in Proc
          /\ \E j \in DOMAIN queue[r] : queue'[r][i] = queue[r][j]
    BY <1>3, <1>5, <2>2
  <2>4. \A x \in Resource \ {r} : \A i \in DOMAIN queue'[x] :
          /\ queue'[x][i] # h /\ queue'[x][i] \in Proc
          /\ \E j \in DOMAIN queue[x] : queue'[x][i] = queue[x][j]
    BY <1>5, <2>1
  <2> QED  BY <2>3, <2>4
<1> HIDE DEF h
<1>7. \A q \in Proc \ {h} : wait'[q] = wait[q] /\ call'[q] = call[q]
  BY <1>1 DEF QueueInv, Typed, h
<1>8. \A x \in Resource : Kept(x)
  BY <1>6, <1>7 DEF Kept
<1>9. Typed(C)'
  BY <1>1, <1>3, <1>4 DEF QueueInv, Typed, Answers
<1>10. Distinct'
  BY <1>3, <1>5 DEF QueueInv, Distinct
<1>11. QueuedWaits'
  BY <1>6, <1>7 DEF QueueInv, QueuedWaits
<1> QED  BY <1>8, <1>9, <1>10, <1>11 DEF QueueInv

\* SignalAll: everyone leaves.
LEMMA SignalAllQueues ==
  ASSUME NEW C, QueueInv(C), NEW r \in Resource, SignalAll(r), call' \in [Proc -> C],
         \A x \in Resource \ {r} : \A i \in DOMAIN queue[x] : call'[queue[x][i]] = call[queue[x][i]]
  PROVE  QueueInv(C)' /\ queue'[r] = <<>> /\ \A x \in Resource : Kept(x)
<1>1. /\ wait' = [p \in Proc |-> IF InQueue(p, r) THEN "granted" ELSE wait[p]]
      /\ queue' = [queue EXCEPT ![r] = <<>>]
  BY DEF SignalAll
<1>2. queue'[r] = <<>> /\ \A x \in Resource \ {r} : queue'[x] = queue[x]
  BY <1>1 DEF QueueInv, Typed
<1>3. \A x \in Resource \ {r} : \A i \in DOMAIN queue[x] :
        ~ InQueue(queue[x][i], r) /\ queue[x][i] \in Proc
  BY DEF QueueInv, QueuedWaits, Typed, InQueue
<1>4. Typed(C)'
  BY <1>1 DEF QueueInv, Typed, Answers
<1>5. Distinct'
  BY <1>2 DEF QueueInv, Distinct, Injective
<1>6. QueuedWaits'
  BY <1>1, <1>2, <1>3 DEF QueueInv, QueuedWaits
<1>7. \A x \in Resource : Kept(x)
  BY <1>2, <1>3 DEF Kept
<1> QED  BY <1>2, <1>4, <1>5, <1>6, <1>7 DEF QueueInv

\* The place of p in its queue is given up, if it has one.
LEMMA LeaveQueues ==
  ASSUME NEW C, QueueInv(C), NEW p \in Proc, queue' = [r \in Resource |-> Without(queue[r], p)],
         NEW w \in {"none"} \cup Answers, wait' = [wait EXCEPT ![p] = w],
         NEW c \in C, call' = [call EXCEPT ![p] = c]
  PROVE  QueueInv(C)' /\ \A r \in Resource : Kept(r)
<1>1. \A r \in Resource : queue[r] \in Seq(Proc) /\ Injective(queue[r])
  BY DEF QueueInv, Typed, Distinct
<1>2. \A r \in Resource :
        /\ Without(queue[r], p) \in Seq(Proc) /\ Injective(Without(queue[r], p))
        /\ \A i \in DOMAIN Without(queue[r], p) :
             Without(queue[r], p)[i] # p /\ \E j \in DOMAIN queue[r] : Without(queue[r], p)[i] = queue[r][j]
  BY <1>1, WithoutProperties
<1>3. \A q \in Proc \ {p} : wait'[q] = wait[q] /\ call'[q] = call[q]
  BY DEF QueueInv, Typed
<1>4. ASSUME NEW r \in Resource, NEW i \in DOMAIN queue'[r]
      PROVE  /\ queue'[r][i] # p /\ queue'[r][i] \in Proc
             /\ \E j \in DOMAIN queue[r] : queue'[r][i] = queue[r][j]
  <2>1. queue'[r] = Without(queue[r], p)
    OBVIOUS
  <2>2. i \in DOMAIN Without(queue[r], p)
    BY <2>1
  <2>3. queue'[r][i] # p /\ \E j \in DOMAIN queue[r] : queue'[r][i] = queue[r][j]
    BY <1>2, <2>1, <2>2
  <2>4. \A j \in DOMAIN queue[r] : queue[r][j] \in Proc
    BY <1>1
  <2> QED  BY <2>3, <2>4
<1>5. Typed(C)'
  BY <1>2 DEF QueueInv, Typed
<1>6. Distinct'
  BY <1>2 DEF Distinct
<1>7. QueuedWaits'
  BY <1>3, <1>4 DEF QueueInv, QueuedWaits
<1>8. \A r \in Resource : Kept(r)
  BY <1>3, <1>4 DEF Kept
<1> QED  BY <1>5, <1>6, <1>7, <1>8 DEF QueueInv

LEMMA HaltQueues ==
  ASSUME NEW C, NoCall \in C, QueueInv(C), NEW p \in Proc, Halt(p)
  PROVE  QueueInv(C)' /\ \A r \in Resource : Kept(r)
BY LeaveQueues DEF Halt, Stop

LEMMA TimeOutQueues ==
  ASSUME NEW C, QueueInv(C), NEW p \in Proc, TimeOut(p)
  PROVE  QueueInv(C)' /\ \A r \in Resource : Kept(r)
<1>1. call[p] \in C /\ call' = [call EXCEPT ![p] = call[p]]
  BY DEF QueueInv, Typed, TimeOut
<1> QED  BY <1>1, LeaveQueues DEF TimeOut, Expire, Answers

\* SET_PRIORITY of a waiting process: taken out and put in again.
LEMMA SetPriorityQueues ==
  ASSUME NEW C, QueueInv(C), NEW p \in Proc, NEW r \in Resource, SetPriority(p, r)
  PROVE  QueueInv(C)' /\ \A x \in Resource : Kept(x)
<1> DEFINE q == queue[r]
           u == Without(q, p)
<1>1. PICK k \in 1..Len(q) : queue' = [queue EXCEPT ![r] = With(Without(@, p), k, p)]
  BY DEF SetPriority, Move
<1>2. InQueue(p, r) /\ wait' = wait /\ call' = call
  BY DEF SetPriority, Move
<1>3. q \in Seq(Proc) /\ Injective(q)
  BY DEF QueueInv, Typed, Distinct
<1>4. /\ u \in Seq(Proc) /\ Injective(u)
      /\ \A i \in DOMAIN u : u[i] # p /\ \E j \in DOMAIN q : u[i] = q[j]
  BY <1>3, WithoutProperties
<1>5. k \in 1..(Len(u) + 1)
  <2>1. PICK i \in DOMAIN q : q[i] = p
    BY <1>2 DEF InQueue
  <2>2. Len(u) = Len(q) - 1
    BY <1>3, <2>1 DEF Without
  <2> QED  BY <1>3, <2>2
<1> DEFINE w == With(u, k, p)
<1>6. /\ w \in Seq(Proc) /\ Injective(w)
      /\ \A i \in DOMAIN w : w[i] = p \/ \E j \in DOMAIN u : w[i] = u[j]
  BY <1>4, <1>5, WithProperties
<1>7. \A i \in DOMAIN w : \E j \in DOMAIN q : w[i] = q[j]
  BY <1>2, <1>4, <1>6 DEF InQueue
<1>8. queue'[r] = w /\ \A x \in Resource \ {r} : queue'[x] = queue[x]
  BY <1>1 DEF QueueInv, Typed
<1>9. queue' \in [Resource -> Seq(Proc)]
  BY <1>1, <1>6 DEF QueueInv, Typed
<1> HIDE DEF w, u
<1>10. \A x \in Resource : \A i \in DOMAIN queue'[x] : \E j \in DOMAIN queue[x] : queue'[x][i] = queue[x][j]
  BY <1>7, <1>8
<1>11. \A x \in Resource : Kept(x)
  BY <1>2, <1>10 DEF Kept
<1>12. Typed(C)'
  BY <1>2, <1>9 DEF QueueInv, Typed
<1>13. Distinct'
  BY <1>6, <1>8 DEF QueueInv, Distinct
<1>14. QueuedWaits'
  BY <1>2, <1>10 DEF QueueInv, QueuedWaits
<1> QED  BY <1>11, <1>12, <1>13, <1>14 DEF QueueInv

\* A restart empties the queues of the partition, and no process of it waits elsewhere.
LEMMA RestartQueues ==
  ASSUME NEW C, NoCall \in C, QueueInv(C), NEW P \in Partition, Restart(P)
  PROVE  QueueInv(C)' /\ \A r \in Resource : Kept(r)
<1>1. /\ wait' = [p \in Proc |-> IF p \in ProcessesOf(P) THEN "none" ELSE wait[p]]
      /\ queue' = [r \in Resource |-> IF r \in ObjectsOf(P) THEN <<>> ELSE queue[r]]
      /\ call' = [p \in Proc |-> IF Home[p] = P THEN NoCall ELSE call[p]]
  BY DEF Restart, StopAll
<1>2. \A r \in Resource : \A i \in DOMAIN queue'[r] :
        /\ queue'[r] = queue[r] /\ queue[r][i] \in Proc /\ Home[queue[r][i]] # P
  BY <1>1 DEF ObjectsOf, QueueInv, Typed, QueuedWaits
<1>3. Typed(C)'
  BY <1>1 DEF QueueInv, Typed
<1>4. Distinct'
  BY <1>1 DEF QueueInv, Distinct, Injective
<1>5. QueuedWaits'
  BY <1>1, <1>2 DEF QueueInv, QueuedWaits, ProcessesOf
<1>6. \A r \in Resource : Kept(r)
  BY <1>1, <1>2 DEF Kept
<1> QED  BY <1>3, <1>4, <1>5, <1>6 DEF QueueInv

\* Where nobody comes to wait nobody waits afterwards who did not before.
LEMMA KeptEmpty ==
  ASSUME NEW C, Typed(C), Typed(C)', NEW r \in Resource, Kept(r), queue'[r] # <<>>
  PROVE  queue[r] # <<>>
<1>1. queue[r] \in Seq(Proc) /\ queue'[r] \in Seq(Proc)
  BY DEF Typed
<1>2. 1 \in DOMAIN queue'[r]
  BY <1>1
<1> QED  BY <1>1, <1>2 DEF Kept

-----------------------------------------------------------------------------
(* The rings of the buffers.                                               *)

\* Append and Tail as functions.
LEMMA AppendIs ==
  ASSUME NEW S, NEW s \in Seq(S), NEW m \in S
  PROVE  Append(s, m) = [i \in 1..(Len(s) + 1) |-> IF i = Len(s) + 1 THEN m ELSE s[i]]
<1> DEFINE t == [i \in 1..(Len(s) + 1) |-> IF i = Len(s) + 1 THEN m ELSE s[i]]
<1>1. t \in Seq(S) /\ Len(t) = Len(s) + 1
  OBVIOUS
<1>2. /\ Append(s, m) \in Seq(S) /\ Len(Append(s, m)) = Len(s) + 1
      /\ \A i \in 1..(Len(s) + 1) : Append(s, m)[i] = IF i = Len(s) + 1 THEN m ELSE s[i]
  BY AppendProperties
<1>3. \A i \in 1..(Len(s) + 1) : Append(s, m)[i] = t[i]
  BY <1>2
<1> HIDE DEF t
<1> QED  BY <1>1, <1>2, <1>3, SeqEqual DEF t

LEMMA TailIs ==
  ASSUME NEW S, NEW s \in Seq(S), s # <<>>
  PROVE  Tail(s) = [i \in 1..(Len(s) - 1) |-> s[i + 1]]
<1> DEFINE t == [i \in 1..(Len(s) - 1) |-> s[i + 1]]
<1>1. Len(s) - 1 \in Nat /\ \A i \in 1..(Len(s) - 1) : s[i + 1] \in S
  OBVIOUS
<1>2. t \in Seq(S) /\ Len(t) = Len(s) - 1
  BY <1>1
<1>3. \A i \in 1..(Len(s) - 1) : Tail(s)[i] = t[i]
  BY HeadTailProperties
<1> HIDE DEF t
<1>4. Tail(s) \in Seq(S) /\ Len(Tail(s)) = Len(s) - 1
  BY HeadTailProperties
<1> QED  BY <1>2, <1>3, <1>4, SeqEqual DEF t

\* The contents of a ring are as many messages as MESSAGE_COUNT says.
LEMMA RingContents ==
  ASSUME NEW max \in Nat \ {0}, NEW S, NEW g \in Ring(max, S)
  PROVE  /\ g.slot \in [0..(max - 1) -> S] /\ g.next \in 0..(max - 1) /\ g.count \in 0..max
         /\ Contents(g, max) \in Seq(S) /\ Len(Contents(g, max)) = g.count
         /\ \A i \in 1..g.count : Contents(g, max)[i] = g.slot[Wrap(max, g.next + i - 1)]
<1>1. g.slot \in [0..(max - 1) -> S] /\ g.next \in 0..(max - 1) /\ g.count \in 0..max
  BY DEF Ring
<1>2. \A i \in 1..g.count : Wrap(max, g.next + i - 1) \in 0..(max - 1)
  BY <1>1 DEF Wrap
<1>3. \A i \in 1..g.count : g.slot[Wrap(max, g.next + i - 1)] \in S
  BY <1>1, <1>2
<1>4. g.count \in Nat
  BY <1>1
<1>5. Contents(g, max) \in Seq(S) /\ Len(Contents(g, max)) = g.count
  BY <1>3, <1>4 DEF Contents
<1>6. \A i \in 1..g.count : Contents(g, max)[i] = g.slot[Wrap(max, g.next + i - 1)]
  BY DEF Contents
<1> QED  BY <1>1, <1>5, <1>6

\* A message stored comes last, into a place of its own.
LEMMA StoreProperties ==
  ASSUME NEW max \in Nat \ {0}, NEW S, NEW g \in Ring(max, S), g.count < max, NEW m \in S
  PROVE  /\ Store(g, max, m) \in Ring(max, S)
         /\ Store(g, max, m).count = g.count + 1
         /\ Contents(Store(g, max, m), max) = Append(Contents(g, max), m)
<1> DEFINE k == Wrap(max, g.next + g.count)
           h == Store(g, max, m)
           s == Contents(g, max)
<1>1. /\ g.slot \in [0..(max - 1) -> S] /\ g.next \in 0..(max - 1) /\ g.count \in 0..max
      /\ s \in Seq(S) /\ Len(s) = g.count
      /\ \A i \in 1..g.count : s[i] = g.slot[Wrap(max, g.next + i - 1)]
  BY RingContents
<1>2. /\ k \in 0..(max - 1) /\ Wrap(max, g.next + (g.count + 1) - 1) = k
      /\ \A i \in 1..g.count :
           /\ Wrap(max, g.next + i - 1) # k /\ Wrap(max, g.next + i - 1) \in 0..(max - 1)
  <2> DEFINE a == g.next
             c == g.count
  <2>1. a \in 0..(max - 1) /\ c \in 0..max /\ c < max
    BY <1>1
  <2> HIDE DEF a, c
  <2>2. /\ Wrap(max, a + c) \in 0..(max - 1) /\ Wrap(max, a + (c + 1) - 1) = Wrap(max, a + c)
        /\ \A i \in 1..c :
             /\ Wrap(max, a + i - 1) # Wrap(max, a + c) /\ Wrap(max, a + i - 1) \in 0..(max - 1)
    BY <2>1 DEF Wrap
  <2> QED  BY <2>2 DEF a, c
<1>3. /\ h.slot = [g.slot EXCEPT ![k] = m] /\ h.next = g.next /\ h.count = g.count + 1
      /\ h \in Ring(max, S)
  <2>1. h = [g EXCEPT !.slot[k] = m, !.count = @ + 1]
    BY DEF Store
  <2>2. [g.slot EXCEPT ![k] = m] \in [0..(max - 1) -> S]
    BY <1>1, <1>2
  <2>3. g.count + 1 \in 0..max
    BY <1>1
  <2> HIDE DEF h, k
  <2> QED  BY <2>1, <2>2, <2>3 DEF Ring
<1> HIDE DEF h, k, s
<1>4. \A i \in 1..g.count : h.slot[Wrap(max, g.next + i - 1)] = s[i]
  BY <1>1, <1>2, <1>3
<1>5. h.slot[Wrap(max, g.next + (g.count + 1) - 1)] = m
  BY <1>1, <1>2, <1>3
<1>6. \A i \in 1..(g.count + 1) :
        h.slot[Wrap(max, g.next + i - 1)] = IF i = g.count + 1 THEN m ELSE s[i]
  BY <1>1, <1>4, <1>5
<1>7. Contents(h, max) = [i \in 1..(g.count + 1) |-> h.slot[Wrap(max, g.next + i - 1)]]
  BY <1>3 DEF Contents
<1>8. Append(s, m) = [i \in 1..(Len(s) + 1) |-> IF i = Len(s) + 1 THEN m ELSE s[i]]
  BY <1>1, AppendIs
<1>9. Contents(h, max) = Append(s, m)
  BY <1>1, <1>6, <1>7, <1>8
<1> QED  BY <1>3, <1>9 DEF h, s

\* What is taken is the first, and the others stay in order.
LEMMA DropProperties ==
  ASSUME NEW max \in Nat \ {0}, NEW S, NEW g \in Ring(max, S), g.count > 0
  PROVE  /\ Drop(g, max) \in Ring(max, S)
         /\ Drop(g, max).count = g.count - 1
         /\ Contents(g, max) # <<>> /\ Head(Contents(g, max)) = Oldest(g)
         /\ Contents(Drop(g, max), max) = Tail(Contents(g, max))
<1> DEFINE n == Wrap(max, g.next + 1)
           h == Drop(g, max)
           s == Contents(g, max)
<1>1. /\ g.slot \in [0..(max - 1) -> S] /\ g.next \in 0..(max - 1) /\ g.count \in 0..max
      /\ s \in Seq(S) /\ Len(s) = g.count
      /\ \A i \in 1..g.count : s[i] = g.slot[Wrap(max, g.next + i - 1)]
  BY RingContents
<1>2. /\ n \in 0..(max - 1) /\ Wrap(max, g.next + 1 - 1) = g.next
      /\ \A i \in 1..(g.count - 1) :
           /\ Wrap(max, n + i - 1) = Wrap(max, g.next + (i + 1) - 1)
           /\ i + 1 \in 1..g.count
  <2> DEFINE a == g.next
             c == g.count
  <2>1. a \in 0..(max - 1) /\ c \in 0..max
    BY <1>1
  <2> HIDE DEF a, c
  <2>2. /\ Wrap(max, a + 1) \in 0..(max - 1) /\ Wrap(max, a + 1 - 1) = a
        /\ \A i \in 1..(c - 1) :
             Wrap(max, Wrap(max, a + 1) + i - 1) = Wrap(max, a + (i + 1) - 1)
    BY <2>1 DEF Wrap
  <2>3. \A i \in 1..(c - 1) : i + 1 \in 1..c
    BY <2>1
  <2> QED  BY <2>2, <2>3 DEF a, c
<1>3. h.slot = g.slot /\ h.next = n /\ h.count = g.count - 1 /\ h \in Ring(max, S)
  <2>1. h = [g EXCEPT !.count = @ - 1, !.next = n]
    BY DEF Drop, Ring
  <2>2. g.count - 1 \in 0..max
    BY <1>1
  <2> HIDE DEF h, n
  <2> QED  BY <1>2, <2>1, <2>2 DEF Ring
<1> HIDE DEF h, n, s
<1>4. s # <<>> /\ Head(s) = s[1] /\ s[1] = Oldest(g)
  BY <1>1, <1>2 DEF Oldest
<1>5. Contents(h, max) = [i \in 1..(g.count - 1) |-> g.slot[Wrap(max, n + i - 1)]]
  BY <1>3 DEF Contents
<1>6. \A i \in 1..(g.count - 1) : g.slot[Wrap(max, n + i - 1)] = s[i + 1]
  BY <1>1, <1>2
<1>7. Tail(s) = [i \in 1..(g.count - 1) |-> s[i + 1]]
  <2>1. Tail(s) = [i \in 1..(Len(s) - 1) |-> s[i + 1]]
    BY <1>1, <1>4, TailIs
  <2> QED  BY <1>1, <2>1
<1> QED  BY <1>3, <1>4, <1>5, <1>6, <1>7 DEF h, s
=============================================================================
