------------------------- MODULE StreamBrokerProofs -------------------------
(* Proofs about StreamBroker, for any consumers, batch size and bounds.     *)
EXTENDS StreamBroker, TLAPS

\* Only a consumer inside its for loop has a batch, only a suspended one has a
\* current entry.
LoopOwnsBatch ==
    \A c \in Consumer :
        /\ pc[c] \in {"down", "connected", "reading"} => batch[c] = {}
        /\ pc[c] # "handling" <=> current[c] = 0

\* What was yielded was delivered before, and comes before what is left.
YieldedIsPast ==
    \A c \in Consumer :
        /\ yielded[c] \subseteq 1..delivered
        /\ \A e \in yielded[c], f \in batch[c] : e < f
        /\ \A d \in Consumer : batch[c] \cap yielded[d] = {}
        /\ current[c] # 0 => current[c] \in yielded[c]

\* DeliveredHasOneOwner, entry by entry.
OneOwner ==
    /\ \A e \in 1..delivered : e \in acked \/ \E c \in Consumer : e \in pel[c]
    /\ acked \subseteq 1..delivered
    /\ \A c \in Consumer : pel[c] \subseteq 1..delivered
    /\ \A c \in Consumer : pel[c] \cap acked = {}
    /\ \A c, d \in Consumer : c # d => pel[c] \cap pel[d] = {}

\* The group exists before anything is read through it.
GroupComesFirst ==
    /\ ~created => delivered = 0
    /\ \A c \in Consumer : pc[c] \in {"reading", "yielding", "handling"} => created

\* The inductive invariant.
IInv == /\ TypeOK
        /\ LoopOwnsBatch
        /\ InHandIsPending
        /\ YieldedIsPast
        /\ OneOwner
        /\ GroupComesFirst

----------------------------------------------------------------------------
LEMMA InitIInv == Init => IInv
  <1> SUFFICES ASSUME Init PROVE IInv
    OBVIOUS
  <1> USE DEF Init
  <1>1. TypeOK
    <2>1. {} \in SUBSET (1..last) /\ 0 \in 0..last
      OBVIOUS
    <2> QED BY <2>1 DEF TypeOK, PC
  <1>2. LoopOwnsBatch /\ InHandIsPending /\ GroupComesFirst
    BY DEF LoopOwnsBatch, InHandIsPending, GroupComesFirst
  <1>3. YieldedIsPast
    BY DEF YieldedIsPast
  <1>4. OneOwner
    BY DEF OneOwner
  <1> QED BY <1>1, <1>2, <1>3, <1>4 DEF IInv

LEMMA PublishKeepsIInv == IInv /\ Publish => IInv'
  BY DEF Publish, IInv, TypeOK, LoopOwnsBatch, InHandIsPending, YieldedIsPast,
         OneOwner, GroupComesFirst, redis, local, counts

\* Connecting, or finding or creating the group, leaves the entries alone.
LEMMA StartKeepsIInv ==
  ASSUME IInv, NEW c \in Consumer, Connect(c) \/ CreateGroup(c)
  PROVE  IInv'
  <1> USE DEF IInv, TypeOK, LoopOwnsBatch, InHandIsPending, YieldedIsPast,
          OneOwner, GroupComesFirst, PC, redis, local, counts
  <1>1. CASE Connect(c)
    BY <1>1 DEF Connect
  <1>2. CASE CreateGroup(c)
    <2>1. delivered' = delivered
      BY <1>2 DEF CreateGroup, StartPosition
    <2> QED BY <1>2, <2>1 DEF CreateGroup
  <1> QED BY <1>1, <1>2

\* A response of XREADGROUP, whether it arrives or not, only brings entries
\* nobody was given before.
LEMMA DeliverKeepsOwners ==
  ASSUME IInv, NEW c \in Consumer, NEW k, Deliver(c, k), acked' = acked
  PROVE  /\ k \in delivered+1..last
         /\ delivered' = k
         /\ pel' \in [Consumer -> SUBSET (1..last)]
         /\ \A d \in Consumer \ {c} : pel'[d] = pel[d]
         /\ pel'[c] = pel[c] \cup (delivered+1..k)
         /\ OneOwner'
  <1> USE DEF IInv, TypeOK
  <1>1. k \in delivered+1..last /\ delivered' = k /\ k \in Nat
    BY DEF Deliver
  <1>2. /\ pel' \in [Consumer -> SUBSET (1..last)]
        /\ \A d \in Consumer \ {c} : pel'[d] = pel[d]
        /\ pel'[c] = pel[c] \cup (delivered+1..k)
    BY <1>1 DEF Deliver
  <1>3. OneOwner'
    BY <1>1, <1>2 DEF OneOwner
  <1> QED BY <1>1, <1>2, <1>3

LEMMA ReadKeepsIInv ==
  ASSUME IInv, NEW c \in Consumer, Read(c) \/ ReadFails(c)
  PROVE  IInv'
  <1> USE DEF IInv, TypeOK
  <1>1. ASSUME NEW k \in 1..last, Deliver(c, k), pc[c] = "reading",
               UNCHANGED <<last, created, yielded, acked>>,
               current' = [current EXCEPT ![c] = 0],
               stops' \in Nat, errors' \in Nat,
               \/ batch' = [batch EXCEPT ![c] = delivered+1..k]
                  /\ pc' = [pc EXCEPT ![c] = "yielding"]
               \/ batch' = [batch EXCEPT ![c] = {}]
                  /\ pc' = [pc EXCEPT ![c] = "connected"]
        PROVE  IInv'
    <2>1. /\ k \in delivered+1..last
          /\ delivered' = k
          /\ pel' \in [Consumer -> SUBSET (1..last)]
          /\ \A d \in Consumer \ {c} : pel'[d] = pel[d]
          /\ pel'[c] = pel[c] \cup (delivered+1..k)
          /\ OneOwner'
      BY <1>1, DeliverKeepsOwners
    <2>0. delivered+1..k \subseteq 1..last /\ k \in 0..last
      BY <2>1
    <2>2. TypeOK'
      <3>1. batch' \in [Consumer -> SUBSET (1..last)]
        BY <1>1, <2>0
      <3>2. current' \in [Consumer -> 0..last] /\ pc' \in [Consumer -> PC]
        BY <1>1 DEF PC
      <3> QED BY <1>1, <2>0, <2>1, <3>1, <3>2
    <2>3. LoopOwnsBatch'
      BY <1>1 DEF LoopOwnsBatch
    <2>4. InHandIsPending'
      <3>1. batch'[c] \subseteq pel'[c] /\ current'[c] = 0
        BY <1>1, <2>1
      <3>2. ASSUME NEW d \in Consumer \ {c}
            PROVE  /\ batch'[d] = batch[d] /\ current'[d] = current[d]
                   /\ pel'[d] = pel[d]
        BY <1>1, <2>1
      <3> QED BY <3>1, <3>2 DEF InHandIsPending
    <2>5. YieldedIsPast'
      BY <1>1, <2>1, <2>2 DEF YieldedIsPast
    <2>6. GroupComesFirst'
      BY <1>1 DEF GroupComesFirst
    <2> QED BY <2>1, <2>2, <2>3, <2>4, <2>5, <2>6
  <1>2. CASE Read(c)
    <2>1. current[c] = 0 /\ pc[c] = "reading"
      BY <1>2 DEF Read, LoopOwnsBatch
    <2>2. current' = [current EXCEPT ![c] = 0]
      BY <1>2, <2>1 DEF Read
    <2>3. PICK k \in 1..last : Deliver(c, k)
      BY <1>2 DEF Read
    <2>4. delivered' = k
      BY <2>3 DEF Deliver
    <2> QED BY <1>1, <1>2, <2>1, <2>2, <2>3, <2>4 DEF Read, counts
  <1>3. CASE ReadFails(c)
    <2>1. pc[c] = "reading" /\ stops' \in Nat /\ errors' \in Nat
      BY <1>3 DEF ReadFails, Error
    <2>2. CASE \E k \in 1..last : Deliver(c, k)
      BY <1>1, <1>3, <2>1, <2>2 DEF ReadFails, LeaveLoop
    <2>3. CASE UNCHANGED <<delivered, pel>>
      BY <1>3, <2>1, <2>3 DEF ReadFails, LeaveLoop, LoopOwnsBatch,
         InHandIsPending, YieldedIsPast, OneOwner,
         GroupComesFirst, PC
    <2> QED BY <1>3, <2>2, <2>3 DEF ReadFails
  <1> QED BY <1>2, <1>3

LEMMA YieldKeepsIInv ==
  ASSUME IInv, NEW c \in Consumer, Yield(c)
  PROVE  IInv'
  <1> USE DEF IInv, TypeOK
  <1>1. PICK e \in batch[c] :
          /\ \A f \in batch[c] : e <= f
          /\ batch' = [batch EXCEPT ![c] = @ \ {e}]
          /\ current' = [current EXCEPT ![c] = e]
          /\ yielded' = [yielded EXCEPT ![c] = @ \cup {e}]
    BY DEF Yield, IsNext
  <1>2. /\ pc[c] = "yielding" /\ pc' = [pc EXCEPT ![c] = "handling"]
        /\ UNCHANGED <<last, created, delivered, pel, acked, stops, errors>>
    BY DEF Yield, redis, counts
  <1>3. e \in 1..last /\ e \in pel[c] /\ e \in 1..delivered
    BY DEF InHandIsPending, OneOwner
  <1>4. TypeOK' /\ LoopOwnsBatch'
    BY <1>1, <1>2, <1>3 DEF LoopOwnsBatch, PC
  <1>5. InHandIsPending'
    BY <1>1, <1>2, <1>3 DEF InHandIsPending
  <1>6. YieldedIsPast'
    <2>1. \A d \in Consumer : d # c => e \notin batch[d]
      BY <1>3 DEF InHandIsPending, OneOwner
    <2>2. \A d \in Consumer \ {c} : /\ batch'[d] = batch[d]
                                    /\ yielded'[d] = yielded[d]
                                    /\ current'[d] = current[d]
      BY <1>1
    <2>3. \A f \in batch[c] \ {e} : e < f
      BY <1>1, <1>3
    <2> QED BY <1>1, <1>2, <1>3, <2>1, <2>2, <2>3 DEF YieldedIsPast
  <1>7. OneOwner' /\ GroupComesFirst'
    BY <1>1, <1>2 DEF OneOwner, GroupComesFirst
  <1> QED BY <1>4, <1>5, <1>6, <1>7

\* The caller is done with its entry, with or without an XACK, and goes on
\* with its loop or leaves it.
LEMMA HandleKeepsIInv ==
  ASSUME IInv, NEW c \in Consumer,
         Acknowledge(c) \/ HandlerFails(c) \/ AckFails(c)
  PROVE  IInv'
  <1> USE DEF IInv, TypeOK
  <1>1. /\ pc[c] = "handling"
        /\ UNCHANGED <<last, created, delivered, yielded>>
        /\ stops' \in Nat /\ errors' \in Nat
        /\ Ack(c) \/ UNCHANGED <<pel, acked>>
        /\ Resume(c) \/ LeaveLoop(c, "connected")
    BY DEF Acknowledge, HandlerFails, AckFails, Error, redis, counts
  <1>2. current[c] # 0 /\ current[c] \in pel[c] /\ current[c] \in yielded[c]
    BY <1>1 DEF LoopOwnsBatch, InHandIsPending, YieldedIsPast
  <1>3. /\ pel' \in [Consumer -> SUBSET (1..last)] /\ acked' \in SUBSET (1..last)
        /\ OneOwner'
        /\ \A d \in Consumer \ {c} : pel'[d] = pel[d]
        /\ pel[c] \ {current[c]} \subseteq pel'[c]
    <2>1. CASE Ack(c)
      <3>1. /\ pel' = [pel EXCEPT ![c] = @ \ {current[c]}]
            /\ acked' = acked \cup {current[c]}
            /\ current[c] \in 1..last
        BY <1>2, <2>1 DEF Ack
      <3>2. /\ pel'[c] = pel[c] \ {current[c]}
            /\ \A d \in Consumer \ {c} : pel'[d] = pel[d]
        BY <3>1
      <3>3. \A d \in Consumer : pel'[d] \subseteq pel[d]
        BY <3>2
      <3>4. \A d \in Consumer : pel'[d] \cap acked' = {}
        BY <1>2, <3>1, <3>2 DEF OneOwner
      <3>5. \A e \in 1..delivered : e \in acked' \/ \E d \in Consumer : e \in pel'[d]
        BY <3>1, <3>2 DEF OneOwner
      <3>6. current[c] \in 1..delivered
        BY <1>2 DEF OneOwner
      <3>7. OneOwner'
        BY <1>1, <3>1, <3>3, <3>4, <3>5, <3>6 DEF OneOwner
      <3> QED BY <3>1, <3>2, <3>7
    <2>2. CASE UNCHANGED <<pel, acked>>
      BY <1>1, <2>2 DEF OneOwner
    <2> QED BY <1>1, <2>1, <2>2
  <1>4. /\ current' = [current EXCEPT ![c] = 0]
        /\ batch' = batch \/ batch' = [batch EXCEPT ![c] = {}]
        /\ pc' \in [Consumer -> PC] /\ pc'[c] # "handling"
        /\ pc'[c] # "yielding" => batch'[c] = {}
        /\ \A d \in Consumer \ {c} : pc'[d] = pc[d]
    BY <1>1 DEF Resume, LeaveLoop, PC
  <1>5. TypeOK' /\ LoopOwnsBatch'
    BY <1>1, <1>3, <1>4 DEF LoopOwnsBatch
  <1>6. InHandIsPending'
    BY <1>1, <1>2, <1>3, <1>4 DEF InHandIsPending
  <1>7. YieldedIsPast' /\ GroupComesFirst'
    BY <1>1, <1>4 DEF YieldedIsPast, GroupComesFirst
  <1> QED BY <1>3, <1>5, <1>6, <1>7

LEMMA StopKeepsIInv ==
  ASSUME IInv, NEW c \in Consumer, Stop(c)
  PROVE  IInv'
  BY DEF Stop, LeaveLoop, IInv, TypeOK, LoopOwnsBatch, InHandIsPending,
         YieldedIsPast, OneOwner, GroupComesFirst, PC, redis

LEMMA NextKeepsIInv == IInv /\ [Next]_vars => IInv'
  <1>1. IInv /\ UNCHANGED vars => IInv'
    BY DEF vars, redis, local, counts, IInv, TypeOK, LoopOwnsBatch,
           InHandIsPending, YieldedIsPast, OneOwner,
           GroupComesFirst
  <1> QED BY <1>1, PublishKeepsIInv, StartKeepsIInv, ReadKeepsIInv,
             YieldKeepsIInv, HandleKeepsIInv, StopKeepsIInv
          DEF Next, Step, TimeOut

LEMMA Invariance == Spec => []IInv
  BY InitIInv, NextKeepsIInv, PTL DEF Spec

----------------------------------------------------------------------------
(* The properties the runs check, for every value of the constants. *)

\* Every variable keeps its type; nothing is pending, held or acknowledged
\* that is not in the stream.
THEOREM TypeCorrect == Spec => []TypeOK
  <1>1. IInv => TypeOK
    BY DEF IInv
  <1> QED BY <1>1, Invariance, PTL

\* Conservation: what left the stream is acknowledged or pending, not both,
\* and under one consumer name.
THEOREM NothingDisappears == Spec => []DeliveredHasOneOwner
  <1>1. IInv => DeliveredHasOneOwner
    <2> SUFFICES ASSUME IInv PROVE DeliveredHasOneOwner
      OBVIOUS
    <2>1. \A e : e \in Pending <=> \E c \in Consumer : e \in pel[c]
      BY DEF Pending
    <2>2. 1..delivered = Pending \cup acked
      BY <2>1 DEF IInv, OneOwner
    <2>3. Pending \cap acked = {}
      BY <2>1 DEF IInv, OneOwner
    <2> QED BY <2>2, <2>3 DEF IInv, OneOwner, DeliveredHasOneOwner
  <1> QED BY <1>1, Invariance, PTL

\* A consumer only works on what is pending under its own name.
THEOREM ConsumersOwnTheirBatch == Spec => []InHandIsPending
  <1>1. IInv => InHandIsPending
    BY DEF IInv
  <1> QED BY <1>1, Invariance, PTL

\* The steps that do not give a caller a new entry.
LEMMA OnlyYieldGives ==
  ASSUME IInv, Next, NEW d \in Consumer, current'[d] \notin {0, current[d]}
  PROVE  /\ Yield(d) /\ current'[d] \in batch[d]
         /\ \A e \in yielded[d] : e < current'[d]
         /\ \A c \in Consumer : current'[d] \notin yielded[c]
  <1> USE DEF IInv, TypeOK
  <1>1. ASSUME NEW c \in Consumer, Yield(c)
        PROVE  c = d /\ current'[d] \in batch[d]
    BY <1>1 DEF Yield, IsNext
  <1>2. ASSUME NEW c \in Consumer, UNCHANGED current
                                   \/ current' = [current EXCEPT ![c] = 0]
        PROVE  FALSE
    BY <1>2
  <1>3. Yield(d) /\ current'[d] \in batch[d]
    BY <1>1, <1>2 DEF Next, Step, Publish, Connect, CreateGroup, Read, TimeOut,
       Acknowledge, Resume, Stop, ReadFails, HandlerFails, AckFails, LeaveLoop,
       local, vars
  <1> QED BY <1>3 DEF YieldedIsPast

\* No entry is yielded twice, to one consumer or to two, whatever restarts.
THEOREM NeverYieldedTwice == Spec => YieldedOnce
  <1>1. IInv /\ [Next]_vars =>
          [\A c \in Consumer :
              current'[c] \notin {0, current[c]} =>
                  \A d \in Consumer : current'[c] \notin yielded[d]]_vars
    BY OnlyYieldGives
  <1> QED BY <1>1, Invariance, PTL DEF Spec, YieldedOnce

\* A consumer is given entries in the order of the stream.
THEOREM AlwaysYieldedInOrder == Spec => YieldedInOrder
  <1>1. IInv /\ [Next]_vars =>
          [\A c \in Consumer :
              current'[c] \notin {0, current[c]} =>
                  \A e \in yielded[c] : e < current'[c]]_vars
    BY OnlyYieldGives
  <1> QED BY <1>1, Invariance, PTL DEF Spec, YieldedInOrder

\* Only reading puts entries in a hand, and only new ones; only the entry that
\* a caller has leaves the pending list.
LEMMA HandsOnlyOpen ==
  ASSUME IInv, Next, NEW c \in Consumer, NEW e \in pel[c],
         \A d \in Consumer : e \notin InHand(d)
  PROVE  /\ e \in pel'[c]
         /\ \A d \in Consumer : e \notin InHand(d)'
  <1> USE DEF IInv, TypeOK
  <1>1. /\ e \in 1..delivered /\ e # 0
        /\ \A d \in Consumer : e \notin batch[d] /\ current[d] # e
    BY DEF OneOwner, InHand
  <1>2. ASSUME NEW d \in Consumer, Ack(d) \/ UNCHANGED pel
        PROVE  e \in pel'[c]
    BY <1>1, <1>2 DEF Ack
  <1>3. ASSUME NEW d \in Consumer, NEW b \in SUBSET (1..last), e \notin b,
               NEW f \in batch[d] \cup {0, current[d]},
               batch' = [batch EXCEPT ![d] = b],
               current' = [current EXCEPT ![d] = f]
        PROVE  \A x \in Consumer : e \notin InHand(x)'
    <2>1. \A x \in Consumer : e \notin batch'[x] /\ current'[x] # e
      BY <1>1, <1>3
    <2> QED BY <2>1 DEF InHand
  <1>4. ASSUME NEW d \in Consumer, Read(d) \/ ReadFails(d)
        PROVE  e \in pel'[c] /\ \A x \in Consumer : e \notin InHand(x)'
    <2>1. ASSUME NEW k \in 1..last, Deliver(d, k)
          PROVE  e \in pel'[c] /\ \A x \in Consumer : e \notin InHand(x)'
      <3>1. e \in pel'[c] /\ delivered' = k
        BY <2>1 DEF Deliver
      <3>2. delivered+1..k \in SUBSET (1..last) /\ e \notin delivered+1..k
        BY <1>1, <2>1 DEF Deliver
      <3>3. /\ batch' = [batch EXCEPT ![d] = delivered+1..k] \/ batch' = [batch EXCEPT ![d] = {}]
            /\ \E f \in {0, current[d]} : current' = [current EXCEPT ![d] = f]
        BY <1>4, <3>1 DEF Read, ReadFails, LeaveLoop
      <3> QED BY <1>3, <3>1, <3>2, <3>3
    <2>2. CASE UNCHANGED pel /\ LeaveLoop(d, "connected")
      BY <1>3, <2>2 DEF LeaveLoop
    <2> QED BY <1>4, <2>1, <2>2 DEF Read, ReadFails
  <1>5. ASSUME NEW d \in Consumer, Yield(d)
        PROVE  e \in pel'[c] /\ \A x \in Consumer : e \notin InHand(x)'
    <2>1. PICK f \in batch[d] : /\ batch' = [batch EXCEPT ![d] = @ \ {f}]
                                /\ current' = [current EXCEPT ![d] = f]
      BY <1>5 DEF Yield
    <2>2. batch[d] \ {f} \in SUBSET (1..last) /\ e \notin batch[d] \ {f}
      BY <1>1
    <2> QED BY <1>3, <1>5, <2>1, <2>2 DEF Yield, redis
  <1>6. ASSUME NEW d \in Consumer,
               Acknowledge(d) \/ HandlerFails(d) \/ AckFails(d) \/ Stop(d)
        PROVE  e \in pel'[c] /\ \A x \in Consumer : e \notin InHand(x)'
    <2>1. /\ Ack(d) \/ UNCHANGED pel
          /\ \E b \in {{}, batch[d]} : batch' = [batch EXCEPT ![d] = b]
          /\ current' = [current EXCEPT ![d] = 0]
      BY <1>6 DEF Acknowledge, HandlerFails, AckFails, Stop, Resume, LeaveLoop, redis
    <2>2. e \notin {} /\ e \notin batch[d] /\ {} \in SUBSET (1..last) /\ batch[d] \in SUBSET (1..last)
      BY <1>1
    <2> QED BY <1>2, <1>3, <2>1, <2>2
  <1>7. CASE UNCHANGED <<pel, batch, current>>
    BY <1>1, <1>7 DEF InHand
  <1> QED BY <1>4, <1>5, <1>6, <1>7 DEF Next, Step, Publish, Connect, CreateGroup,
          TimeOut, local, redis, vars

\* What nobody has in hand any more is never delivered or acknowledged again.
THEOREM LostIsLostForGood == Spec => AbandonedIsLost
  <1>1. IInv /\ [Next]_vars =>
          [\A c \in Consumer : \A e \in pel[c] :
              (\A d \in Consumer : e \notin InHand(d)) =>
                  /\ e \in pel'[c]
                  /\ \A d \in Consumer : e \notin InHand(d)']_vars
    BY HandsOnlyOpen
  <1> QED BY <1>1, Invariance, PTL DEF Spec, AbandonedIsLost

----------------------------------------------------------------------------
(* The broker implements WorkQueue. *)

LEMMA ReadRefines ==
  ASSUME IInv, NEW c \in Consumer, Read(c) \/ ReadFails(c)
  PROVE  [Queue!Next]_Queue!queue
  <1> USE DEF IInv, TypeOK
  <1>1. batch[c] = {} /\ pc[c] = "reading"
    BY DEF Read, ReadFails, LoopOwnsBatch
  <1>2. UNCHANGED <<last, yielded, acked>>
    BY DEF Read, ReadFails
  <1>3. CASE Read(c)
    <2>1. PICK k \in 1..last : Deliver(c, k)
      BY <1>3 DEF Read
    <2>2. Queue!Take(c, k)
      BY <1>1, <1>2, <1>3, <2>1 DEF Read, Deliver, Queue!Take
    <2> QED BY <2>2 DEF Queue!Next
  <1>4. CASE ReadFails(c)
    <2>1. UNCHANGED batch
      BY <1>1, <1>4 DEF ReadFails, LeaveLoop
    <2>2. ASSUME NEW k \in 1..last, Deliver(c, k)
          PROVE  Queue!Next
      <3>1. Queue!Lose(k)
        BY <1>2, <2>1, <2>2 DEF Deliver, Queue!Lose
      <3> QED BY <3>1 DEF Queue!Next
    <2>3. CASE UNCHANGED delivered
      BY <1>2, <2>1, <2>3 DEF Queue!queue
    <2> QED BY <1>4, <2>2, <2>3 DEF ReadFails
  <1> QED BY <1>3, <1>4

LEMMA YieldRefines ==
  ASSUME IInv, NEW c \in Consumer, Yield(c)
  PROVE  Queue!Next
  <1>1. PICK e \in batch[c] :
          /\ \A f \in batch[c] : e <= f
          /\ batch' = [batch EXCEPT ![c] = @ \ {e}]
          /\ yielded' = [yielded EXCEPT ![c] = @ \cup {e}]
          /\ UNCHANGED <<last, delivered, acked>>
    BY DEF Yield, IsNext, redis
  <1>2. e \in 1..last /\ \A d \in Consumer : e \notin yielded[d]
    BY DEF IInv, TypeOK, YieldedIsPast
  <1>3. Queue!Show(c, e)
    BY <1>1, <1>2 DEF Queue!Show
  <1> QED BY <1>2, <1>3 DEF Queue!Next

LEMMA HandleRefines ==
  ASSUME IInv, NEW c \in Consumer,
         Acknowledge(c) \/ HandlerFails(c) \/ AckFails(c) \/ Stop(c)
  PROVE  [Queue!Next]_Queue!queue
  <1>1. /\ UNCHANGED <<last, delivered, yielded>>
        /\ batch' = batch \/ batch' = [batch EXCEPT ![c] = {}]
        /\ (Ack(c) /\ pc[c] = "handling") \/ UNCHANGED acked
    BY DEF Acknowledge, HandlerFails, AckFails, Stop, Resume, LeaveLoop, redis
  <1>2. CASE Ack(c) /\ pc[c] = "handling"
    <2>1. current[c] \in 1..last /\ current[c] \in yielded[c] \ acked
      BY <1>2 DEF IInv, TypeOK, LoopOwnsBatch, YieldedIsPast, InHandIsPending,
         OneOwner
    <2>2. Queue!Finish(c, current[c]) \/ Queue!FinishAndDrop(c, current[c])
      BY <1>1, <1>2, <2>1 DEF Ack, Queue!Finish, Queue!FinishAndDrop
    <2> QED BY <2>1, <2>2 DEF Queue!Next
  <1>3. CASE UNCHANGED acked
    <2>1. UNCHANGED Queue!queue \/ Queue!Drop(c)
      BY <1>1, <1>3 DEF Queue!queue, Queue!Drop
    <2> QED BY <2>1 DEF Queue!Next
  <1> QED BY <1>1, <1>2, <1>3

\* Every run of the broker is a run of an at-most-once work queue.
THEOREM BrokerImplementsWorkQueue == Spec => ImplementsWorkQueue
  <1>1. Init => Queue!Init
    BY DEF Init, Queue!Init
  <1>2. IInv /\ [Next]_vars => [Queue!Next]_Queue!queue
    <2> SUFFICES ASSUME IInv, [Next]_vars PROVE [Queue!Next]_Queue!queue
      OBVIOUS
    <2>1. CASE Publish
      <3>1. Queue!Append
        BY <2>1 DEF Publish, Queue!Append, local
      <3> QED BY <3>1 DEF Queue!Next
    <2>2. ASSUME NEW c \in Consumer,
                 Connect(c) \/ CreateGroup(c) \/ TimeOut(c)
          PROVE  UNCHANGED Queue!queue
      <3>1. UNCHANGED delivered
        BY <2>2 DEF Connect, CreateGroup, TimeOut, StartPosition, vars, redis,
           IInv, GroupComesFirst
      <3> QED BY <2>2, <3>1 DEF Connect, CreateGroup, TimeOut, vars, redis,
              local, Queue!queue
    <2>3. CASE UNCHANGED vars
      BY <2>3 DEF vars, redis, local, Queue!queue
    <2> QED BY <2>1, <2>2, <2>3, ReadRefines, YieldRefines, HandleRefines
            DEF Next, Step
  <1> QED BY <1>1, <1>2, Invariance, PTL
          DEF Spec, ImplementsWorkQueue, Queue!Spec
=============================================================================
