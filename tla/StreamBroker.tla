---------------------------- MODULE StreamBroker ----------------------------
(***************************************************************************)
(* RedisStreamBroker: one stream, one consumer group, the consumers of a   *)
(* service.  Entries are named by their position in the stream (Redis ids  *)
(* only grow); payloads do not matter.  A consumer is a process that calls *)
(* connect(), then iterates over the async generator consume(), and calls  *)
(* acknowledge() on what it has processed.  No service of the repository   *)
(* calls the broker yet: the loop around the generator is taken from the   *)
(* contract of MessageBroker.  Redis itself keeps its data.                *)
(***************************************************************************)
EXTENDS Naturals

CONSTANTS Consumer,    \* consumer names of the group
          BatchSize,   \* count of XREADGROUP: 10 in the code
          MaxEntries,  \* bound on the entries published
          MaxStops,    \* bound on the stops and crashes of consumers
          MaxErrors    \* bound on the failures that leave a consumer alive

ASSUME BoundsAssumption ==
    /\ BatchSize \in Nat \ {0}
    /\ MaxEntries \in Nat /\ MaxStops \in Nat /\ MaxErrors \in Nat

VARIABLES
    last,       \* Redis: entries 1..last are in the stream
    created,    \* Redis: the consumer group exists
    delivered,  \* Redis: last-delivered id of the group
    pel,        \* Redis: pending entries of the group, by consumer name
    pc,         \* where a consumer is
    batch,      \* entries of its last XREADGROUP still to be yielded
    current,    \* the entry its caller is processing, 0 for none
    yielded,    \* history: entries ever yielded to its caller
    acked,      \* history: entries acknowledged
    stops,      \* stops and crashes so far
    errors      \* failures so far

redis  == <<last, created, delivered, pel>>
local  == <<pc, batch, current>>
counts == <<stops, errors>>
vars   == <<redis, local, yielded, acked, counts>>

\* "down": no client; "connected": connect() returned or the loop over
\* consume() ended; "reading": in XREADGROUP; "yielding": between two yields
\* of a batch; "handling": suspended at yield, the caller has an entry.
PC == {"down", "connected", "reading", "yielding", "handling"}

TypeOK ==
    /\ last \in Nat /\ delivered \in 0..last
    /\ stops \in Nat /\ errors \in Nat
    /\ created \in BOOLEAN
    /\ pel \in [Consumer -> SUBSET (1..last)]
    /\ pc \in [Consumer -> PC]
    /\ batch \in [Consumer -> SUBSET (1..last)]
    /\ current \in [Consumer -> 0..last]
    /\ yielded \in [Consumer -> SUBSET (1..last)]
    /\ acked \in SUBSET (1..last)

Init ==
    /\ last = 0 /\ created = FALSE /\ delivered = 0
    /\ pel = [c \in Consumer |-> {}]
    /\ pc = [c \in Consumer |-> "down"]
    /\ batch = [c \in Consumer |-> {}]
    /\ current = [c \in Consumer |-> 0]
    /\ yielded = [c \in Consumer |-> {}]
    /\ acked = {}
    /\ stops = 0 /\ errors = 0

----------------------------------------------------------------------------
\* publish: XADD, whether or not the publisher gets to see its id.
Publish ==
    /\ last < MaxEntries
    /\ last' = last + 1
    /\ UNCHANGED <<created, delivered, pel, local, yielded, acked, counts>>

\* connect: a client, and a PING that answers.
Connect(c) ==
    /\ pc[c] = "down"
    /\ pc' = [pc EXCEPT ![c] = "connected"]
    /\ UNCHANGED <<redis, batch, current, yielded, acked, counts>>

\* Slip for StartPosition: the group starts at the end of the stream ("$").
AtEnd == last

\* Slip for StartPosition: the group starts with the entry after the next one.
PastEnd == last + 1

\* The id the group is created with, "0": before everything published.
StartPosition == 0

\* Slip for CreateGroup: a group that exists is set back to the start.
RecreateGroup(c) ==
    /\ pc[c] = "connected"
    /\ delivered' = StartPosition
    /\ created' = TRUE
    /\ pc' = [pc EXCEPT ![c] = "reading"]
    /\ UNCHANGED <<last, pel, batch, current, yielded, acked, counts>>

\* consume starts with XGROUP CREATE; BUSYGROUP, it exists, is ignored.
CreateGroup(c) ==
    /\ pc[c] = "connected"
    /\ delivered' = IF created THEN delivered ELSE StartPosition
    /\ created' = TRUE
    /\ pc' = [pc EXCEPT ![c] = "reading"]
    /\ UNCHANGED <<last, pel, batch, current, yielded, acked, counts>>

\* XREADGROUP ">" COUNT n delivers the next entries of the stream, up to k.
Deliver(c, k) ==
    /\ k \in delivered+1..last
    /\ k = last \/ k = delivered + BatchSize
    /\ k <= delivered + BatchSize
    /\ delivered' = k
    /\ pel' = [pel EXCEPT ![c] = @ \cup (delivered+1..k)]

\* The response of XREADGROUP arrives.
Read(c) ==
    /\ pc[c] = "reading"
    /\ \E k \in 1..last : Deliver(c, k)
    /\ batch' = [batch EXCEPT ![c] = delivered+1..delivered']
    /\ pc' = [pc EXCEPT ![c] = "yielding"]
    /\ UNCHANGED <<last, created, current, yielded, acked, counts>>

\* With nothing new, XREADGROUP blocks for five seconds and the loop goes on.
TimeOut(c) ==
    /\ pc[c] = "reading"
    /\ delivered = last
    /\ UNCHANGED vars

\* Slip for IsNext: the entries of a batch are yielded in any order.
InAnyOrder(c, e) == e \in batch[c]

\* The for loop goes through a batch in the order of the stream.
IsNext(c, e) == e \in batch[c] /\ \A f \in batch[c] : e <= f

Yield(c) ==
    /\ pc[c] = "yielding"
    /\ \E e \in batch[c] :
          /\ IsNext(c, e)
          /\ batch' = [batch EXCEPT ![c] = @ \ {e}]
          /\ current' = [current EXCEPT ![c] = e]
          /\ yielded' = [yielded EXCEPT ![c] = @ \cup {e}]
    /\ pc' = [pc EXCEPT ![c] = "handling"]
    /\ UNCHANGED <<redis, acked, counts>>

\* Slip for Ack: acknowledging an entry takes all of the consumer's off.
AckAll(c) ==
    /\ pel' = [pel EXCEPT ![c] = {}]
    /\ acked' = acked \cup pel[c]

\* Slip for Ack: the entry is acknowledged under no consumer.
AckNothing(c) ==
    /\ acked' = acked \cup {current[c]}
    /\ UNCHANGED pel

\* XACK takes the entry off the pending list.
Ack(c) ==
    /\ pel' = [pel EXCEPT ![c] = @ \ {current[c]}]
    /\ acked' = acked \cup {current[c]}

\* The caller asks the generator for the next entry.
Resume(c) ==
    /\ current' = [current EXCEPT ![c] = 0]
    /\ pc' = [pc EXCEPT ![c] = IF batch[c] = {} THEN "reading" ELSE "yielding"]
    /\ UNCHANGED batch

\* The caller has processed its entry, acknowledges it and goes on.
Acknowledge(c) ==
    /\ pc[c] = "handling"
    /\ Ack(c)
    /\ Resume(c)
    /\ UNCHANGED <<last, created, delivered, yielded, counts>>

----------------------------------------------------------------------------
(* Failures.  What a consumer holds is local to its generator: whatever   *)
(* ends the loop drops it, and nothing reads the pending list again.      *)

Error == errors < MaxErrors /\ errors' = errors + 1 /\ UNCHANGED stops

LeaveLoop(c, to) ==
    /\ pc' = [pc EXCEPT ![c] = to]
    /\ batch' = [batch EXCEPT ![c] = {}]
    /\ current' = [current EXCEPT ![c] = 0]

\* disconnect at shutdown, or the process dies, at any point.
Stop(c) ==
    /\ stops < MaxStops /\ stops' = stops + 1 /\ UNCHANGED errors
    /\ pc[c] # "down"
    /\ LeaveLoop(c, "down")
    /\ UNCHANGED <<redis, yielded, acked>>

\* XREADGROUP raises, the server having delivered entries or not.
ReadFails(c) ==
    /\ Error
    /\ pc[c] = "reading"
    /\ \/ \E k \in 1..last : Deliver(c, k)
       \/ UNCHANGED <<delivered, pel>>
    /\ LeaveLoop(c, "connected")
    /\ UNCHANGED <<last, created, yielded, acked>>

\* Processing fails: the caller leaves its loop, or goes on without XACK.
HandlerFails(c) ==
    /\ Error
    /\ pc[c] = "handling"
    /\ LeaveLoop(c, "connected") \/ Resume(c)
    /\ UNCHANGED <<redis, yielded, acked>>

\* XACK raises, the entry having been taken off the pending list or not.
AckFails(c) ==
    /\ Error
    /\ pc[c] = "handling"
    /\ Ack(c) \/ UNCHANGED <<pel, acked>>
    /\ LeaveLoop(c, "connected")
    /\ UNCHANGED <<last, created, delivered, yielded>>

----------------------------------------------------------------------------
Step(c) ==
    Connect(c) \/ CreateGroup(c) \/ Read(c) \/ Yield(c) \/ Acknowledge(c)

Next ==
    \/ Publish
    \/ \E c \in Consumer : Step(c)
    \/ \E c \in Consumer :
          TimeOut(c) \/ Stop(c) \/ ReadFails(c) \/ HandlerFails(c) \/ AckFails(c)

Spec == Init /\ [][Next]_vars

\* Containers restart unless stopped, callers process and acknowledge what
\* they are given, and a consumer takes every step it can.
FairSpec == Spec /\ \A c \in Consumer : WF_vars(Step(c))

----------------------------------------------------------------------------
(* Safety *)

Pending == UNION {pel[c] : c \in Consumer}

\* Conservation: every entry that left the stream is acknowledged, or pending
\* under exactly one name; nothing else is either.
DeliveredHasOneOwner ==
    /\ 1..delivered = Pending \cup acked
    /\ Pending \cap acked = {}
    /\ \A c, d \in Consumer : c # d => pel[c] \cap pel[d] = {}

\* A consumer works only on entries that are pending under its name, and the
\* one its caller has comes before the rest of the batch.
InHandIsPending ==
    \A c \in Consumer :
        /\ batch[c] \subseteq pel[c]
        /\ current[c] # 0 => /\ current[c] \in pel[c]
                             /\ \A e \in batch[c] : current[c] < e

\* "Without processing the same message twice": an entry that is yielded was
\* never yielded before, to any consumer, before or after any restart.
YieldedOnce ==
    [][\A c \in Consumer :
          current'[c] \notin {0, current[c]} =>
              \A d \in Consumer : current'[c] \notin yielded[d]]_vars

\* A consumer sees the stream in order, over all its lives.
YieldedInOrder ==
    [][\A c \in Consumer :
          current'[c] \notin {0, current[c]} =>
              \A e \in yielded[c] : e < current'[c]]_vars

\* What a consumer and its caller still know of.
InHand(c) == batch[c] \cup ({current[c]} \ {0})

\* What a consumer lost hold of, pending under its name, is out of reach for
\* good: nobody gets it again and nobody acknowledges it, whichever consumer
\* reads, recovers, restarts or acknowledges what else.
AbandonedIsLost ==
    [][\A c \in Consumer : \A e \in pel[c] :
          (\A d \in Consumer : e \notin InHand(d)) =>
              /\ e \in pel'[c]
              /\ \A d \in Consumer : e \notin InHand(d)']_vars

Queue == INSTANCE WorkQueue WITH
    Worker <- Consumer, size <- last, next <- delivered, held <- batch,
    shown <- yielded, done <- acked

\* Consumer groups, as this code uses them, are an at-most-once work queue.
ImplementsWorkQueue == Queue!Spec

(* Liveness *)

\* Every published entry, also from before the group existed, is handed out in the
\* end whatever fails: Redis puts it under some consumer's name, which may not learn
\* of it.  As long as nothing fails it is processed and acknowledged.
EveryEntryIsDelivered ==
    \A e \in 1..MaxEntries :
        e <= last ~> e \in acked \/ (e \in Pending /\ (stops > 0 \/ errors > 0))

(* What the documentation says and the code does not do *)

\* "At-least-once delivery": every entry is processed and acknowledged in the
\* end, by another consumer if one crashes with it.
EveryEntryIsHandled ==
    \A e \in 1..MaxEntries : e <= last ~> e \in acked
=============================================================================
