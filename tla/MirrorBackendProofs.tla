------------------------ MODULE MirrorBackendProofs ------------------------
(***************************************************************************)
(* MirrorBackend implements FillBackend, its counters add up and no worker *)
(* sleeps through a burst of requests, for any number of workers, callers  *)
(* and requests and any capacity.                                          *)
(*                                                                         *)
(* The argument: an accepted request that has no completion yet is in      *)
(* exactly one place - the ring, a worker that performs it, or the part of *)
(* `queued` shutdown has still to cancel - and at most one caller is       *)
(* inside shutdown's loop.  So a delivery is the first and only one of a   *)
(* request that was taken.                                                 *)
(***************************************************************************)
EXTENDS MirrorBackendProperties, TLAPS, FiniteSetTheorems, SequenceTheorems

WorkItem == [request : Requests, known : BOOLEAN]

\* The request at position i of the ring, counted from the head.
ItemAt(i) == ring[(head + i - 1) % Capacity]

TypeOK ==
    /\ ring \in [Indices -> WorkItem \cup {NoItem}]
    /\ head \in Indices
    /\ ringSize \in 0 .. Capacity
    /\ shuttingDown \in BOOLEAN
    /\ stats \in [Counters -> Int]
    /\ work \in [Workers -> [pc : {"wait", "perform", "account", "exited"}, item : WorkItem \cup {NoItem}]]
    /\ asleep \subseteq Workers
    /\ closing \in [Callers -> [pc : {"idle", "cancel", "count"}, last : BOOLEAN]]
    /\ queued \in Seq(WorkItem)
    /\ submitted \in [Requests -> {"new", "accepted", "refused"}]
    /\ delivered \in [Requests -> Seq(Completion)]

\* At most one caller is inside the loop of shutdown; only then is anything left in `queued`, and the
\* ring is empty from then on.
OneCloser ==
    /\ \A c, d \in Callers : closing[c].pc # "idle" /\ closing[d].pc # "idle" => c = d
    /\ \A c \in Callers : closing[c].pc # "idle" => shuttingDown
    /\ \A c \in Callers : closing[c].pc = "count" => queued # <<>>
    /\ shuttingDown => ringSize = 0
    /\ ~shuttingDown => queued = <<>>

\* The first position of `queued` that has not been delivered.
FirstLeft == IF \E c \in Callers : closing[c].pc = "count" THEN 2 ELSE 1

Untouched(r) == submitted[r] = "accepted" /\ delivered[r] = <<>>

\* What waits, what is performed and what shutdown has still to cancel was accepted and has no completion;
\* what is being accounted has one.  A request that was not accepted never gets one.
PendingIsUntouched ==
    /\ \A r \in Requests : submitted[r] # "accepted" => delivered[r] = <<>>
    /\ \A i \in 1 .. ringSize : ItemAt(i) \in WorkItem /\ Untouched(ItemAt(i).request)
    /\ \A w \in Workers : work[w].pc = "perform" =>
          work[w].item \in WorkItem /\ Untouched(work[w].item.request)
    /\ \A w \in Workers : work[w].pc = "account" =>
          work[w].item \in WorkItem /\ delivered[work[w].item.request] # <<>>
    /\ \A i \in 1 .. Len(queued) : i >= FirstLeft => Untouched(queued[i].request)

\* No request is in two places.
PlacesApart ==
    /\ \A i, j \in 1 .. ringSize : ItemAt(i).request = ItemAt(j).request => i = j
    /\ \A i, j \in 1 .. Len(queued) : queued[i].request = queued[j].request => i = j
    /\ \A v, w \in Workers :
          work[v].pc = "perform" /\ work[w].pc = "perform" /\ v # w =>
             work[v].item.request # work[w].item.request
    /\ \A w \in Workers, i \in 1 .. ringSize :
          work[w].pc = "perform" => work[w].item.request # ItemAt(i).request
    /\ \A w \in Workers, i \in 1 .. Len(queued) :
          work[w].pc = "perform" /\ i >= FirstLeft => work[w].item.request # queued[i].request

\* Only a worker that waits is asleep.
SleepersWait == \A w \in asleep : work[w].pc = "wait"

PoolInv == TypeOK /\ OneCloser /\ PendingIsUntouched /\ PlacesApart

-----------------------------------------------------------------------------
(* The ring *)

\* A ring position below the capacity is its own index.
LEMMA ModBelow == ASSUME NEW x \in 0 .. Capacity - 1 PROVE x % Capacity = x
BY ConfigAssumption

\* A ring position past the end wraps once.
LEMMA ModAbove == ASSUME NEW x \in Capacity .. 2 * Capacity - 1 PROVE x % Capacity = x - Capacity
BY ConfigAssumption

\* The index of each position, and that the head's index moves by one position at a time.
LEMMA RingPlaces ==
    ASSUME TypeOK
    PROVE  /\ \A i \in 1 .. Capacity :
                (head + i - 1) % Capacity = IF head + i - 1 < Capacity THEN head + i - 1
                                            ELSE head + i - 1 - Capacity
           /\ End \in Indices /\ NextHead \in Indices
           /\ \A i \in 1 .. Capacity - 1 : (NextHead + i - 1) % Capacity = (head + (i + 1) - 1) % Capacity
<1>t. Capacity \in Nat \ {0} /\ head \in 0 .. Capacity - 1 /\ ringSize \in 0 .. Capacity
      BY ConfigAssumption DEF TypeOK, Indices
<1>1. \A i \in 1 .. Capacity :
         (head + i - 1) % Capacity = IF head + i - 1 < Capacity THEN head + i - 1 ELSE head + i - 1 - Capacity
      BY <1>t, ModBelow, ModAbove
<1>2. End \in Indices
      BY <1>t, ModBelow, ModAbove DEF End, Indices
<1>3. NextHead = IF head + 1 < Capacity THEN head + 1 ELSE 0
      BY <1>t, ModBelow, ModAbove DEF NextHead
<1>4. NextHead \in Indices
      BY <1>3, <1>t DEF Indices
<1>5. ASSUME NEW i \in 1 .. Capacity - 1
      PROVE  (NextHead + i - 1) % Capacity = (head + (i + 1) - 1) % Capacity
   <2>1. CASE head + 1 < Capacity
         BY <2>1, <1>3, <1>t
   <2>2. CASE ~(head + 1 < Capacity)
      <3>1. head = Capacity - 1 /\ NextHead = 0
            BY <2>2, <1>3, <1>t
      <3>2. (NextHead + i - 1) % Capacity = i - 1
            BY <3>1, <1>t, ModBelow
      <3>3. (head + (i + 1) - 1) % Capacity = i - 1
            BY <3>1, <1>t, ModAbove
      <3> QED BY <3>2, <3>3
   <2> QED BY <2>1, <2>2
<1> QED BY <1>1, <1>2, <1>4, <1>5

\* An append leaves every position as it is and fills the next one.
LEMMA AppendEffect ==
    ASSUME TypeOK, ringSize < Capacity, NEW x, ring' = [ring EXCEPT ![End] = x], head' = head
    PROVE  /\ \A i \in 1 .. ringSize : ItemAt(i)' = ItemAt(i)
           /\ \A n \in Nat : n = ringSize + 1 => ItemAt(n)' = x
<1>t. Capacity \in Nat \ {0} /\ head \in 0 .. Capacity - 1 /\ ringSize \in 0 .. Capacity - 1
      BY ConfigAssumption DEF TypeOK, Indices
<1>1. (head + (ringSize + 1) - 1) % Capacity = End /\ End \in Indices
   <2>1. head + (ringSize + 1) - 1 = head + ringSize
         BY <1>t
   <2> QED BY <2>1, RingPlaces DEF End
<1>2. \A n \in Nat : n = ringSize + 1 => ItemAt(n)' = x
      BY <1>1, <1>t DEF ItemAt, TypeOK
<1>3. ASSUME NEW i \in 1 .. ringSize PROVE ItemAt(i)' = ItemAt(i)
   <2>1. (head + i - 1) % Capacity # End
         BY <1>1, <1>t, RingPlaces
   <2> QED BY <2>1 DEF ItemAt, TypeOK
<1> QED BY <1>2, <1>3

\* Taking the head moves every other position down by one.
LEMMA TakeEffect ==
    ASSUME TypeOK, ringSize # 0, UNCHANGED ring, head' = NextHead
    PROVE  /\ \A i \in 1 .. ringSize - 1 : ItemAt(i)' = ItemAt(i + 1)
           /\ ring[head] = ItemAt(1)
           /\ head' \in Indices
<1>t. Capacity \in Nat \ {0} /\ head \in 0 .. Capacity - 1 /\ ringSize \in 0 .. Capacity
      BY ConfigAssumption DEF TypeOK, Indices
<1>1. (head + 1 - 1) % Capacity = head
      BY <1>t, ModBelow
<1>2. \A i \in 1 .. ringSize - 1 : (NextHead + i - 1) % Capacity = (head + (i + 1) - 1) % Capacity
      BY <1>t, RingPlaces
<1> QED BY <1>1, <1>2, RingPlaces DEF ItemAt

\* The items seen from the head stay while ring and head stay.
LEMMA SameItems == ASSUME UNCHANGED <<ring, head>> PROVE \A i : ItemAt(i)' = ItemAt(i)
BY DEF ItemAt

\* What a closing caller took from the ring are work items with their requests.
LEMMA QueuedItems ==
    ASSUME TypeOK
    PROVE  \A i \in 1 .. Len(queued) : queued[i] \in WorkItem /\ queued[i].request \in Requests
<1>1. queued \in Seq(WorkItem)
      BY DEF TypeOK
<1>2. \A i \in 1 .. Len(queued) : queued[i] \in WorkItem
      BY <1>1
<1> QED BY <1>2 DEF WorkItem

-----------------------------------------------------------------------------
(* Every step keeps the places apart *)

\* The empty pool satisfies the invariant.
LEMMA InitPool == Init => PoolInv
<1> SUFFICES ASSUME Init PROVE PoolInv
    OBVIOUS
<1>t. Capacity \in Nat \ {0}
      BY ConfigAssumption
<1>1. TypeOK
   <2>1. head \in Indices /\ ringSize \in 0 .. Capacity /\ stats \in [Counters -> Int]
         BY <1>t DEF Init, Indices
   <2>5. /\ ring \in [Indices -> WorkItem \cup {NoItem}]
         /\ shuttingDown \in BOOLEAN /\ asleep \subseteq Workers
         BY DEF Init
   <2>2. work \in [Workers -> [pc : {"wait", "perform", "account", "exited"}, item : WorkItem \cup {NoItem}]]
         BY DEF Init
   <2>3. /\ closing \in [Callers -> [pc : {"idle", "cancel", "count"}, last : BOOLEAN]]
         /\ submitted \in [Requests -> {"new", "accepted", "refused"}]
         BY DEF Init
   <2>4. queued \in Seq(WorkItem) /\ delivered \in [Requests -> Seq(Completion)]
         BY DEF Init
   <2> QED BY <2>1, <2>2, <2>3, <2>4, <2>5 DEF TypeOK
<1>2. OneCloser /\ PendingIsUntouched /\ PlacesApart
      BY <1>1 DEF Init, OneCloser, PendingIsUntouched, PlacesApart, NoItem
<1> QED BY <1>1, <1>2 DEF PoolInv

\* The steps that move no request: only counters, sleepers, sources or the object's life change.
LEMMA QuietStep ==
    ASSUME PoolInv, UNCHANGED <<queueVars, work, closing, queued, submitted, delivered>>,
           asleep' \subseteq Workers, stats' \in [Counters -> Int]
    PROVE  PoolInv'
BY SameItems
   DEF PoolInv, queueVars, TypeOK, OneCloser, PendingIsUntouched, PlacesApart, FirstLeft, Untouched, ItemAt

\* A worker that performs nothing before the step and nothing after it.
LEMMA IdleWorkerStep ==
    ASSUME PoolInv, NEW w \in Workers, work[w].pc # "perform",
           NEW x \in [pc : {"wait", "exited"}, item : WorkItem \cup {NoItem}],
           work' = [work EXCEPT ![w] = x],
           UNCHANGED <<queueVars, asleep, closing, queued, submitted, delivered>>,
           stats' \in [Counters -> Int]
    PROVE  PoolInv'
<1>1. TypeOK'
      BY DEF PoolInv, TypeOK, queueVars
<1>2. \A v \in Workers : /\ work'[v].pc = "perform" => work'[v] = work[v]
                         /\ work'[v].pc = "account" => work'[v] = work[v]
      BY DEF PoolInv, TypeOK
<1>3. OneCloser' /\ FirstLeft' = FirstLeft
      BY DEF PoolInv, OneCloser, queueVars, FirstLeft
<1>4. PendingIsUntouched'
      BY <1>2, <1>3, SameItems DEF PoolInv, PendingIsUntouched, Untouched, queueVars
<1>5. PlacesApart'
      BY <1>2, <1>3, SameItems DEF PoolInv, PlacesApart, queueVars
<1> QED BY <1>1, <1>3, <1>4, <1>5 DEF PoolInv

\* A refused submit keeps the invariant.
LEMMA RefusedStep ==
    ASSUME PoolInv, NEW r \in Requests, SubmitRefused(r)
    PROVE  PoolInv'
<1>1. TypeOK'
      BY DEF PoolInv, TypeOK, queueVars, SubmitRefused, Counters
<1>2. \A q \in Requests : Untouched(q) => Untouched(q)'
      BY DEF PoolInv, TypeOK, SubmitRefused, Untouched
<1>3. OneCloser' /\ FirstLeft' = FirstLeft /\ PlacesApart'
      BY SameItems DEF PoolInv, OneCloser, PlacesApart, FirstLeft, queueVars, SubmitRefused
<1>4. PendingIsUntouched'
   <2>1. \A q \in Requests : submitted'[q] # "accepted" => delivered'[q] = <<>>
         BY DEF PoolInv, TypeOK, PendingIsUntouched, SubmitRefused
   <2>2. \A i \in 1 .. ringSize : (ItemAt(i) \in WorkItem /\ Untouched(ItemAt(i).request))'
         BY <1>2, SameItems DEF PoolInv, PendingIsUntouched, WorkItem, Untouched, queueVars, SubmitRefused
   <2>3. \A w \in Workers : work[w].pc = "perform" =>
                               work[w].item \in WorkItem /\ Untouched(work[w].item.request)'
         BY <1>2 DEF PoolInv, PendingIsUntouched, WorkItem, SubmitRefused, Untouched
   <2>4. \A i \in 1 .. Len(queued) : i >= FirstLeft => Untouched(queued[i].request)'
         BY <1>2 DEF PoolInv, PendingIsUntouched, WorkItem, SubmitRefused, Untouched, TypeOK
   <2> QED BY <2>1, <2>2, <2>3, <2>4, <1>3
           DEF PoolInv, PendingIsUntouched, SubmitRefused, Untouched, queueVars
<1> QED BY <1>1, <1>3, <1>4 DEF PoolInv

\* An accepted submit writes the slot behind the last item.
LEMMA SubmitStep ==
    ASSUME PoolInv, NEW r \in Requests, Submit(r)
    PROVE  PoolInv'
<1> DEFINE x == [request |-> r, known |-> SourceOf[r] \in sources]
           n == ringSize + 1
<1>t. /\ Capacity \in Nat \ {0} /\ ringSize \in 0 .. Capacity - 1 /\ ~shuttingDown /\ queued = <<>>
      /\ ring' = [ring EXCEPT ![End] = x] /\ head' = head /\ ringSize' = n /\ n \in Nat
      /\ x \in WorkItem /\ x.request = r /\ TypeOK
      /\ UNCHANGED <<shuttingDown, work, closing, queued, delivered>>
      BY ConfigAssumption DEF PoolInv, TypeOK, OneCloser, Submit, Refuses, WorkItem
<1> HIDE DEF x
<1>1. TypeOK'
   <2>1. ring' \in [Indices -> WorkItem \cup {NoItem}] /\ ringSize' \in 0 .. Capacity
         BY <1>t, RingPlaces DEF TypeOK
   <2>2. asleep' \subseteq Workers
         BY DEF PoolInv, TypeOK, Submit, NotifyOne
   <2>3. stats' \in [Counters -> Int] /\ submitted' \in [Requests -> {"new", "accepted", "refused"}]
         BY <1>t DEF PoolInv, TypeOK, Submit, Counters
   <2> QED BY <2>1, <2>2, <2>3, <1>t DEF TypeOK
<1>2. /\ \A i \in 1 .. ringSize : ItemAt(i)' = ItemAt(i)
      /\ \A i \in Nat : i = n => ItemAt(i)' = x
   <2>1. TypeOK /\ ringSize < Capacity /\ ring' = [ring EXCEPT ![End] = x] /\ head' = head
         BY <1>t
   <2> QED BY <2>1, AppendEffect
<1>3. \A i \in 1 .. n : i \in 1 .. ringSize \/ i = n
      BY <1>t
<1>4. \A q \in Requests : Untouched(q) => Untouched(q)' /\ q # r
      BY DEF PoolInv, TypeOK, Submit, Untouched
<1>5. Untouched(r)' /\ \A q \in Requests : q # r => submitted'[q] = submitted[q]
      BY <1>t DEF PoolInv, TypeOK, Submit, Untouched, PendingIsUntouched
<1>6. OneCloser' /\ FirstLeft' = FirstLeft
      BY <1>t DEF PoolInv, OneCloser, FirstLeft
<1>7. PendingIsUntouched'
   <2>1. \A i \in 1 .. n : (ItemAt(i) \in WorkItem /\ Untouched(ItemAt(i).request))'
         BY <1>2, <1>3, <1>4, <1>5, <1>t DEF PoolInv, PendingIsUntouched, WorkItem, Untouched
   <2>2. \A v \in Workers : work[v].pc = "perform" => work[v].item \in WorkItem /\ Untouched(work[v].item.request)'
         BY <1>4, <1>t DEF PoolInv, PendingIsUntouched, WorkItem, Untouched
   <2>3. \A q \in Requests : submitted'[q] # "accepted" => delivered'[q] = <<>>
         BY <1>5, <1>t DEF PoolInv, PendingIsUntouched, Untouched
   <2> QED BY <2>1, <2>2, <2>3, <1>t DEF PoolInv, PendingIsUntouched, Untouched
<1>8. PlacesApart'
   <2>1. \A i, j \in 1 .. n : ItemAt(i)'.request = ItemAt(j)'.request => i = j
         BY <1>2, <1>3, <1>4, <1>t DEF PoolInv, PendingIsUntouched, PlacesApart, WorkItem
   <2>2. \A v \in Workers, i \in 1 .. n : work[v].pc = "perform" => work[v].item.request # ItemAt(i)'.request
         BY <1>2, <1>3, <1>4, <1>t DEF PoolInv, PendingIsUntouched, PlacesApart, WorkItem
   <2> QED BY <2>1, <2>2, <1>t, <1>6 DEF PoolInv, PlacesApart
<1> QED BY <1>1, <1>6, <1>7, <1>8 DEF PoolInv

\* A worker takes the head item, and the others move up by one.
LEMMA TakeStep ==
    ASSUME PoolInv, NEW w \in Workers, WorkerTakes(w)
    PROVE  PoolInv'
<1>t. /\ Capacity \in Nat \ {0} /\ ringSize \in 1 .. Capacity /\ TypeOK /\ UNCHANGED ring
      /\ head' = NextHead /\ ringSize' = ringSize - 1 /\ ringSize # 0 /\ work[w].pc = "wait"
      /\ work' = [work EXCEPT ![w] = [pc |-> "perform", item |-> ring[head]]]
      /\ UNCHANGED <<shuttingDown, asleep, closing, queued, submitted, delivered>>
      BY ConfigAssumption DEF PoolInv, TypeOK, WorkerTakes
<1>1. /\ \A i \in 1 .. ringSize - 1 : ItemAt(i)' = ItemAt(i + 1) /\ i + 1 \in 1 .. ringSize
      /\ ring[head] = ItemAt(1) /\ 1 \in 1 .. ringSize
      /\ head' \in Indices
      BY <1>t, TakeEffect
<1>2. ItemAt(1) \in WorkItem /\ Untouched(ItemAt(1).request)
      BY <1>1 DEF PoolInv, PendingIsUntouched
<1>3. /\ work'[w].pc = "perform" /\ work'[w].item = ItemAt(1)
      /\ \A v \in Workers \ {w} : work'[v] = work[v]
      BY <1>1, <1>t DEF TypeOK
<1>4. TypeOK'
   <2>1. work' \in [Workers -> [pc : {"wait", "perform", "account", "exited"}, item : WorkItem \cup {NoItem}]]
         BY <1>1, <1>2, <1>t DEF TypeOK
   <2>2. stats' \in [Counters -> Int]
         BY DEF PoolInv, TypeOK, WorkerTakes, Counters
   <2> QED BY <2>1, <2>2, <1>1, <1>t DEF TypeOK
<1>5. OneCloser' /\ FirstLeft' = FirstLeft /\ ~shuttingDown /\ queued = <<>>
      BY <1>t DEF PoolInv, OneCloser, FirstLeft
<1>6. PendingIsUntouched'
   <2>1. \A i \in 1 .. ringSize - 1 : (ItemAt(i) \in WorkItem /\ Untouched(ItemAt(i).request))'
         BY <1>1, <1>t DEF PoolInv, PendingIsUntouched, Untouched
   <2>2. \A v \in Workers : work'[v].pc = "perform" =>
            work'[v].item \in WorkItem /\ Untouched(work[v].item.request)'
         BY <1>2, <1>3, <1>t DEF PoolInv, PendingIsUntouched, Untouched
   <2>3. \A v \in Workers : work'[v].pc = "account" =>
            work'[v].item \in WorkItem /\ delivered'[work'[v].item.request] # <<>>
         BY <1>3, <1>t DEF PoolInv, PendingIsUntouched
   <2> QED BY <2>1, <2>2, <2>3, <1>5, <1>t DEF PoolInv, PendingIsUntouched, Untouched
<1>7. PlacesApart'
   <2>1. \A i, j \in 1 .. ringSize - 1 : ItemAt(i)'.request = ItemAt(j)'.request => i = j
         BY <1>1, <1>t DEF PoolInv, PlacesApart
   <2>2. \A i \in 1 .. ringSize - 1 : ItemAt(1).request # ItemAt(i)'.request
         BY <1>1, <1>t DEF PoolInv, PlacesApart
   <2>3. \A v \in Workers \ {w} : work[v].pc = "perform" =>
            /\ work[v].item.request # ItemAt(1).request
            /\ \A i \in 1 .. ringSize - 1 : work[v].item.request # ItemAt(i)'.request
         BY <1>1, <1>t DEF PoolInv, PlacesApart
   <2>4. \A u, v \in Workers : work'[u].pc = "perform" /\ work'[v].pc = "perform" /\ u # v =>
            work'[u].item.request # work'[v].item.request
         BY <2>3, <1>3 DEF PoolInv, PlacesApart
   <2> QED BY <2>1, <2>2, <2>3, <2>4, <1>3, <1>5, <1>t DEF PlacesApart
<1> QED BY <1>4, <1>5, <1>6, <1>7 DEF PoolInv

\* What the mirror can answer for an item is a completion of that item.
LEMMA CompletionType == ASSUME NEW x \in WorkItem PROVE Completions(x) \subseteq Completion
<1>t. Length \in Nat \ {0}
      BY ConfigAssumption
<1>1. \A o \in Outcomes : Reported(o) \in Completion
      BY <1>t DEF Outcomes, Reported, Completion
<1>2. [status |-> "invalid_argument", bytes |-> 0] \in Completion
      BY <1>t DEF Completion
<1> QED BY <1>1, <1>2 DEF Completions

\* A delivery to q disturbs no pending request other than q.
LEMMA DeliveryEffect ==
    ASSUME PoolInv, NEW q \in Requests, submitted[q] = "accepted", NEW d \in Completion,
           delivered' = [delivered EXCEPT ![q] = Append(@, d)], UNCHANGED submitted
    PROVE  /\ delivered' \in [Requests -> Seq(Completion)]
           /\ delivered'[q] # <<>>
           /\ \A r \in Requests : r # q /\ Untouched(r) => Untouched(r)'
           /\ \A r \in Requests : delivered[r] # <<>> => delivered'[r] # <<>>
           /\ \A r \in Requests : submitted'[r] # "accepted" => delivered'[r] = <<>>
<1>1. delivered \in [Requests -> Seq(Completion)]
      BY DEF PoolInv, TypeOK
<1>2. Append(delivered[q], d) \in Seq(Completion) /\ Append(delivered[q], d) # <<>>
      BY <1>1
<1> QED BY <1>1, <1>2 DEF PoolInv, PendingIsUntouched, Untouched

\* Delivering a completion keeps the invariant.
LEMMA DeliverStep ==
    ASSUME PoolInv, NEW w \in Workers, Deliver(w)
    PROVE  PoolInv'
<1> DEFINE q == work[w].item.request
<1>t. /\ work[w].pc = "perform" /\ work[w].item \in WorkItem /\ q \in Requests /\ Untouched(q)
      /\ work' = [work EXCEPT ![w].pc = "account"] /\ TypeOK
      /\ UNCHANGED <<ring, head, ringSize, shuttingDown, asleep, stats, closing, queued, submitted>>
      BY DEF PoolInv, TypeOK, PendingIsUntouched, Deliver, WorkItem, queueVars
<1>p. PICK d \in Completion : delivered' = [delivered EXCEPT ![q] = Append(@, d)]
      BY <1>t, CompletionType DEF Deliver
<1> HIDE DEF q
<1>1. /\ delivered' \in [Requests -> Seq(Completion)]
      /\ delivered'[q] # <<>>
      /\ \A r \in Requests : r # q /\ Untouched(r) => Untouched(r)'
      /\ \A r \in Requests : delivered[r] # <<>> => delivered'[r] # <<>>
      /\ \A r \in Requests : submitted'[r] # "accepted" => delivered'[r] = <<>>
      BY <1>t, <1>p, DeliveryEffect DEF Untouched
<1>2. /\ work'[w].pc = "account" /\ work'[w].item = work[w].item
      /\ \A v \in Workers \ {w} : work'[v] = work[v]
      /\ work' \in [Workers -> [pc : {"wait", "perform", "account", "exited"}, item : WorkItem \cup {NoItem}]]
      BY <1>t DEF TypeOK
<1>3. TypeOK'
      BY <1>1, <1>2, <1>t DEF TypeOK
<1>4. OneCloser' /\ FirstLeft' = FirstLeft
      BY <1>t DEF PoolInv, OneCloser, FirstLeft
<1>5. \A i : ItemAt(i)' = ItemAt(i)
      BY <1>t, SameItems
<1>6. PlacesApart'
      BY <1>2, <1>4, <1>5, <1>t DEF PoolInv, PlacesApart
<1>7. PendingIsUntouched'
   <2>1. \A i \in 1 .. ringSize : (ItemAt(i) \in WorkItem /\ Untouched(ItemAt(i).request))'
         BY <1>1, <1>5, <1>t DEF PoolInv, PendingIsUntouched, PlacesApart, WorkItem, Untouched, q
   <2>2. \A v \in Workers : work'[v].pc = "perform" =>
            work'[v].item \in WorkItem /\ Untouched(work[v].item.request)'
         BY <1>1, <1>2, <1>t DEF PoolInv, PendingIsUntouched, PlacesApart, WorkItem, Untouched, q
   <2>3. \A v \in Workers : work'[v].pc = "account" =>
            work'[v].item \in WorkItem /\ delivered'[work'[v].item.request] # <<>>
         BY <1>1, <1>2, <1>t DEF PoolInv, PendingIsUntouched, WorkItem, q
   <2>4. \A i \in 1 .. Len(queued) : i >= FirstLeft => Untouched(queued[i].request)'
      <3>1. \A i \in 1 .. Len(queued) : queued[i].request \in Requests
            BY <1>t, QueuedItems
      <3>2. \A i \in 1 .. Len(queued) : i >= FirstLeft => queued[i].request # q
            BY <1>t DEF PoolInv, PlacesApart, q
      <3>3. \A i \in 1 .. Len(queued) : i >= FirstLeft => Untouched(queued[i].request)
            BY DEF PoolInv, PendingIsUntouched
      <3> QED BY <3>1, <3>2, <3>3, <1>1, <1>t DEF Untouched
   <2> QED BY <2>1, <2>2, <2>3, <2>4, <1>1, <1>4, <1>t DEF PendingIsUntouched, Untouched
<1> QED BY <1>3, <1>4, <1>6, <1>7 DEF PoolInv

\* The items a close takes over are those of the ring, in order.
LEMMA WaitingItems ==
    ASSUME PoolInv
    PROVE  /\ Waiting \in Seq(WorkItem) /\ Len(Waiting) = ringSize
           /\ \A i \in 1 .. ringSize : Waiting[i] = ItemAt(i)
<1>1. ringSize \in 0 .. Capacity /\ Capacity \in Nat
      BY ConfigAssumption DEF PoolInv, TypeOK
<1>2. ringSize \in Nat
      BY <1>1
<1>3. \A i \in 1 .. ringSize : ItemAt(i) \in WorkItem
      BY DEF PoolInv, PendingIsUntouched
<1>4. Waiting = [i \in 1 .. ringSize |-> ItemAt(i)]
      BY DEF Waiting, ItemAt
<1> QED BY <1>2, <1>3, <1>4

\* Closing empties the ring into the caller's list.
LEMMA CloseStep ==
    ASSUME PoolInv, NEW c \in Callers, NEW last \in BOOLEAN, CloseQueue(c, last)
    PROVE  PoolInv'
<1>t. /\ Capacity \in Nat \ {0} /\ ringSize \in 0 .. Capacity /\ TypeOK /\ ~shuttingDown
      /\ shuttingDown' = TRUE /\ queued' = Waiting /\ head' = End /\ ringSize' = 0 /\ asleep' = {}
      /\ closing' = [closing EXCEPT ![c] = [pc |-> "cancel", last |-> last]]
      /\ UNCHANGED <<ring, stats, work, submitted, delivered>>
      BY ConfigAssumption DEF PoolInv, TypeOK, CloseQueue, End, StillAsleep
<1>1. /\ queued' \in Seq(WorkItem) /\ Len(queued') = ringSize
      /\ \A i \in 1 .. Len(queued') : i \in 1 .. ringSize /\ queued'[i] = ItemAt(i)
      BY <1>t, WaitingItems
<1>2. /\ \A d \in Callers : closing[d].pc = "idle"
      /\ \A d \in Callers \ {c} : closing'[d] = closing[d]
      /\ closing'[c].pc = "cancel"
      BY <1>t DEF PoolInv, OneCloser, TypeOK
<1>3. TypeOK'
      BY <1>t, <1>1, RingPlaces DEF TypeOK
<1>4. OneCloser' /\ FirstLeft' = 1
      BY <1>t, <1>2 DEF OneCloser, FirstLeft
<1>5. PendingIsUntouched'
   <2>1. \A i \in 1 .. Len(queued') : Untouched(queued[i].request)'
         BY <1>1, <1>t DEF PoolInv, PendingIsUntouched, Untouched
   <2>2. /\ \A r \in Requests : submitted'[r] # "accepted" => delivered'[r] = <<>>
         /\ \A w \in Workers : work'[w].pc = "perform" =>
              work'[w].item \in WorkItem /\ Untouched(work[w].item.request)'
         /\ \A w \in Workers : work'[w].pc = "account" =>
              work'[w].item \in WorkItem /\ delivered'[work'[w].item.request] # <<>>
         BY <1>t DEF PoolInv, PendingIsUntouched, Untouched
   <2> QED BY <2>1, <2>2, <1>t DEF PendingIsUntouched, Untouched
<1>6. PlacesApart'
   <2>1. \A i, j \in 1 .. Len(queued') : queued'[i].request = queued'[j].request => i = j
         BY <1>1 DEF PoolInv, PlacesApart
   <2>2. \A w \in Workers, i \in 1 .. Len(queued') :
            work[w].pc = "perform" => work[w].item.request # queued'[i].request
         BY <1>1 DEF PoolInv, PlacesApart
   <2> QED BY <2>1, <2>2, <1>t DEF PoolInv, PlacesApart
<1> QED BY <1>3, <1>4, <1>5, <1>6 DEF PoolInv

\* Delivering one cancellation moves the caller to counting it.
LEMMA CancelStep ==
    ASSUME PoolInv, NEW c \in Callers, CancelNext(c)
    PROVE  PoolInv' /\ FirstLeft = 1 /\ FirstLeft' = 2
<1> DEFINE q == Head(queued).request
           d == [status |-> "cancelled", bytes |-> 0]
<1>t. /\ TypeOK /\ closing[c].pc = "cancel" /\ queued # <<>> /\ queued \in Seq(WorkItem)
      /\ delivered' = [delivered EXCEPT ![q] = Append(@, d)]
      /\ closing' = [closing EXCEPT ![c].pc = "count"]
      /\ UNCHANGED <<ring, head, ringSize, shuttingDown, stats, work, asleep, queued, submitted>>
      BY DEF PoolInv, TypeOK, CancelNext, queueVars
<1>1. 1 \in 1 .. Len(queued) /\ Head(queued) = queued[1] /\ q = queued[1].request /\ q \in Requests
      BY <1>t, QueuedItems
<1>2. /\ \A e \in Callers \ {c} : closing[e].pc = "idle" /\ closing'[e] = closing[e]
      /\ closing'[c].pc = "count" /\ shuttingDown /\ ringSize = 0
      BY <1>t DEF PoolInv, OneCloser, TypeOK
<1>3. FirstLeft = 1 /\ FirstLeft' = 2
      BY <1>2, <1>t DEF FirstLeft
<1>4. Untouched(q) /\ d \in Completion
      BY <1>1, <1>3, ConfigAssumption DEF PoolInv, PendingIsUntouched, Completion
<1> HIDE DEF q, d
<1>5. /\ delivered' \in [Requests -> Seq(Completion)]
      /\ \A r \in Requests : r # q /\ Untouched(r) => Untouched(r)'
      /\ \A r \in Requests : delivered[r] # <<>> => delivered'[r] # <<>>
      /\ \A r \in Requests : submitted'[r] # "accepted" => delivered'[r] = <<>>
      BY <1>t, <1>1, <1>4, DeliveryEffect DEF Untouched
<1>6. TypeOK'
      BY <1>5, <1>t DEF TypeOK
<1>7. OneCloser'
      BY <1>2, <1>t DEF OneCloser
<1>8. PlacesApart'
      BY <1>2, <1>3, <1>t DEF PoolInv, PlacesApart
<1>9. PendingIsUntouched'
   <2>1. \A w \in Workers : work[w].pc = "perform" =>
            /\ work[w].item \in WorkItem /\ work[w].item.request \in Requests
            /\ work[w].item.request # q /\ Untouched(work[w].item.request)
         BY <1>1, <1>3 DEF PoolInv, PendingIsUntouched, PlacesApart, WorkItem
   <2>2. \A i \in 1 .. Len(queued) : i >= 2 =>
            queued[i].request \in Requests /\ queued[i].request # q /\ Untouched(queued[i].request)
      <3>1. \A i \in 1 .. Len(queued) : i >= 2 => queued[i].request # q
            BY <1>1 DEF PoolInv, PlacesApart
      <3>2. \A i \in 1 .. Len(queued) : i >= 1 => Untouched(queued[i].request)
            BY <1>3 DEF PoolInv, PendingIsUntouched
      <3> QED BY <3>1, <3>2, <1>t, QueuedItems
   <2>3. \A w \in Workers : work'[w].pc = "account" =>
            work'[w].item \in WorkItem /\ delivered'[work'[w].item.request] # <<>>
         BY <1>5, <1>t DEF PoolInv, PendingIsUntouched, WorkItem
   <2>4. (\A w \in Workers : work[w].pc = "perform" => work[w].item \in WorkItem /\ Untouched(work[w].item.request))'
         BY <2>1, <1>5, <1>t DEF Untouched
   <2>5. (\A i \in 1 .. Len(queued) : i >= FirstLeft => Untouched(queued[i].request))'
         BY <2>2, <1>3, <1>5, <1>t DEF Untouched
   <2>6. (\A i \in 1 .. ringSize : ItemAt(i) \in WorkItem /\ Untouched(ItemAt(i).request))'
         BY <1>2, <1>t
   <2> QED BY <2>3, <2>4, <2>5, <2>6, <1>5 DEF PendingIsUntouched
<1> QED BY <1>3, <1>6, <1>7, <1>8, <1>9 DEF PoolInv

\* Counting the cancellation drops the first item of the caller's list.
LEMMA CountStep ==
    ASSUME PoolInv, NEW c \in Callers, CountCancelled(c)
    PROVE  /\ PoolInv' /\ FirstLeft = 2 /\ FirstLeft' = 1 /\ Len(queued) \in Nat \ {0}
           /\ Len(queued') = Len(queued) - 1
           /\ \A i \in 1 .. Len(queued) - 1 : queued'[i] = queued[i + 1]
<1>t. /\ TypeOK /\ closing[c].pc = "count" /\ queued # <<>> /\ queued \in Seq(WorkItem)
      /\ closing' = [closing EXCEPT ![c].pc = "cancel"]
      /\ queued' = SubSeq(queued, 2, Len(queued))
      /\ UNCHANGED <<ring, head, ringSize, shuttingDown, work, asleep, submitted, delivered>>
      BY DEF PoolInv, TypeOK, CountCancelled, queueVars, OneCloser
<1>1. /\ Len(queued) \in Nat \ {0} /\ queued' \in Seq(WorkItem) /\ Len(queued') = Len(queued) - 1
      /\ \A i \in 1 .. Len(queued) - 1 : queued'[i] = queued[i + 1]
   <2>1. Len(queued) \in Nat \ {0}
         BY <1>t
   <2>2. queued' = Tail(queued)
         BY <1>t, <2>1, TailIsSubSeq
   <2> QED BY <1>t, <2>1, <2>2, HeadTailProperties
<1>2. /\ \A e \in Callers \ {c} : closing[e].pc = "idle" /\ closing'[e] = closing[e]
      /\ closing'[c].pc = "cancel" /\ shuttingDown /\ ringSize = 0
      BY <1>t DEF PoolInv, OneCloser, TypeOK
<1>3. FirstLeft = 2 /\ FirstLeft' = 1
      BY <1>2, <1>t DEF FirstLeft
<1>4. TypeOK'
   <2>1. stats' \in [Counters -> Int]
         BY DEF PoolInv, TypeOK, CountCancelled, Counters
   <2>2. closing' \in [Callers -> [pc : {"idle", "cancel", "count"}, last : BOOLEAN]]
         BY <1>t DEF TypeOK
   <2>3. queued' \in Seq(WorkItem)
         BY <1>1
   <2> QED BY <2>1, <2>2, <2>3, <1>t, Zenon DEF TypeOK
<1>5. OneCloser'
      BY <1>2, <1>t DEF OneCloser
<1>6. \A i \in 1 .. Len(queued') : i + 1 \in 1 .. Len(queued) /\ i + 1 >= FirstLeft /\ queued'[i] = queued[i + 1]
      BY <1>1, <1>3
<1>7. PlacesApart'
   <2>1. \A i, j \in 1 .. Len(queued') : queued'[i].request = queued'[j].request => i = j
         BY <1>6 DEF PoolInv, PlacesApart
   <2>2. \A w \in Workers, i \in 1 .. Len(queued') :
            work[w].pc = "perform" => work[w].item.request # queued'[i].request
         BY <1>6 DEF PoolInv, PlacesApart
   <2> QED BY <2>1, <2>2, <1>2, <1>t DEF PoolInv, PlacesApart
<1>8. PendingIsUntouched'
   <2>1. \A i \in 1 .. Len(queued') : Untouched(queued[i].request)'
         BY <1>6, <1>t DEF PoolInv, PendingIsUntouched, Untouched
   <2> QED BY <2>1, <1>2, <1>t DEF PoolInv, PendingIsUntouched, Untouched
<1> QED BY <1>1, <1>3, <1>4, <1>5, <1>7, <1>8 DEF PoolInv

\* Joining the workers keeps the invariant.
LEMMA JoinStep ==
    ASSUME PoolInv, NEW c \in Callers, Join(c)
    PROVE  PoolInv'
<1>t. /\ TypeOK /\ closing[c].pc = "cancel" /\ queued = <<>> /\ closing' = [closing EXCEPT ![c].pc = "idle"]
      /\ UNCHANGED <<ring, head, ringSize, shuttingDown, stats, work, asleep, queued, submitted, delivered>>
      BY DEF PoolInv, Join, queueVars
<1>1. TypeOK' /\ OneCloser'
   <2>1. closing' \in [Callers -> [pc : {"idle", "cancel", "count"}, last : BOOLEAN]]
         BY <1>t DEF TypeOK
   <2>2. TypeOK'
         BY <2>1, <1>t, Zenon DEF TypeOK
   <2>3. OneCloser'
         BY <1>t DEF PoolInv, TypeOK, OneCloser
   <2> QED BY <2>2, <2>3
<1>2. \A i : ItemAt(i)' = ItemAt(i)
      BY <1>t, SameItems
<1>3. PlacesApart'
      BY <1>t, <1>2 DEF PoolInv, PlacesApart
<1>4. PendingIsUntouched'
      BY <1>t, <1>2 DEF PoolInv, PendingIsUntouched, Untouched
<1> QED BY <1>1, <1>3, <1>4 DEF PoolInv

\* What accounting adds to which counter.
LEMMA AccountedType ==
    ASSUME PoolInv, NEW w \in Workers, work[w].pc = "account",
           LET sent == delivered[work[w].item.request] IN stats' = Accounted(w, sent[Len(sent)])
    PROVE  /\ stats' \in [Counters -> Int]
           /\ stats'["inFlight"] = stats["inFlight"] - 1
           /\ stats'["accepted"] = stats["accepted"] /\ stats'["cancelled"] = stats["cancelled"]
           /\ stats'["ok"] + stats'["short"] + stats'["errors"]
              = stats["ok"] + stats["short"] + stats["errors"] + 1
<1> DEFINE sent == delivered[work[w].item.request]
<1>1. sent \in Seq(Completion) /\ sent # <<>>
      BY DEF PoolInv, TypeOK, PendingIsUntouched, WorkItem
<1> HIDE DEF sent
<1>2. PICK d \in Completion : d = sent[Len(sent)]
      BY <1>1
<1>3. stats' = Accounted(w, d)
      BY <1>2 DEF sent
<1>4. d.bytes \in Int /\ stats \in [Counters -> Int]
      BY ConfigAssumption DEF PoolInv, TypeOK, Completion
<1>5. PICK k \in {"ok", "short", "errors"} : k = CounterOf(d)
      BY DEF CounterOf
<1>6. PICK b \in Int : b = d.bytes
      BY <1>4
<1> DEFINE one == [stats EXCEPT ![k] = @ + 1]
           two == [one EXCEPT !["bytes"] = @ + b]
<1>7. stats' = [two EXCEPT !["inFlight"] = @ - 1]
      BY <1>3, <1>5, <1>6 DEF Accounted
<1>8. one \in [Counters -> Int] /\ one[k] = stats[k] + 1 /\ \A j \in Counters \ {k} : one[j] = stats[j]
      BY <1>4 DEF Counters
<1> HIDE DEF one
<1>9. two \in [Counters -> Int] /\ \A j \in Counters \ {"bytes"} : two[j] = one[j]
      BY <1>8 DEF Counters
<1> HIDE DEF two
<1>10. /\ stats' \in [Counters -> Int] /\ stats'["inFlight"] = two["inFlight"] - 1
       /\ \A j \in Counters \ {"inFlight"} : stats'[j] = two[j]
      BY <1>7, <1>9 DEF Counters
<1>11. \A j \in Counters \ {"inFlight", "bytes", k} : stats'[j] = stats[j]
      BY <1>8, <1>9, <1>10
<1>12. stats'[k] = stats[k] + 1 /\ stats'["inFlight"] = stats["inFlight"] - 1
      BY <1>8, <1>9, <1>10 DEF Counters
<1>13. /\ stats["ok"] \in Int /\ stats["short"] \in Int /\ stats["errors"] \in Int
       /\ \A j \in {"ok", "short", "errors", "accepted", "cancelled"} \ {k} : stats'[j] = stats[j]
      BY <1>4, <1>11 DEF Counters
<1>14. stats'["ok"] + stats'["short"] + stats'["errors"] = stats["ok"] + stats["short"] + stats["errors"] + 1
   <2>1. PICK x, y, z \in Int : x = stats["ok"] /\ y = stats["short"] /\ z = stats["errors"]
         BY <1>13
   <2>2. CASE k = "ok"
      <3>1. stats'["ok"] = x + 1 /\ stats'["short"] = y /\ stats'["errors"] = z
            BY <2>2, <2>1, <1>12, <1>13
      <3>2. (x + 1) + (y) + (z) = x + y + z + 1
            OBVIOUS
      <3> QED BY <3>1, <3>2, <2>1, Zenon
   <2>3. CASE k = "short"
      <3>1. stats'["ok"] = x /\ stats'["short"] = y + 1 /\ stats'["errors"] = z
            BY <2>3, <2>1, <1>12, <1>13
      <3>2. (x) + (y + 1) + (z) = x + y + z + 1
            OBVIOUS
      <3> QED BY <3>1, <3>2, <2>1, Zenon
   <2>4. CASE k = "errors"
      <3>1. stats'["ok"] = x /\ stats'["short"] = y /\ stats'["errors"] = z + 1
            BY <2>4, <2>1, <1>12, <1>13
      <3>2. (x) + (y) + (z + 1) = x + y + z + 1
            OBVIOUS
      <3> QED BY <3>1, <3>2, <2>1, Zenon
   <2> QED BY <2>2, <2>3, <2>4
<1> QED BY <1>10, <1>12, <1>13, <1>14

\* Every step of the pool keeps the invariant.
LEMMA PoolInductive == PoolInv /\ [Next]_vars => PoolInv'
<1> SUFFICES ASSUME PoolInv, [Next]_vars PROVE PoolInv'
    OBVIOUS
<1>t. stats \in [Counters -> Int] /\ asleep \subseteq Workers
      BY DEF PoolInv, TypeOK
<1>1. ASSUME NEW s \in Sources, Register(s) PROVE PoolInv'
      BY <1>1, <1>t, QuietStep DEF Register
<1>2. ASSUME NEW r \in Requests, Submit(r) \/ SubmitRefused(r) PROVE PoolInv'
      BY <1>2, SubmitStep, RefusedStep
<1>3. ASSUME NEW w \in Workers, WorkerStep(w) \/ SpuriousWake(w) PROVE PoolInv'
   <2>1. CASE WorkerSleeps(w)
         BY <2>1, <1>t, QuietStep DEF WorkerSleeps
   <2>2. CASE SpuriousWake(w)
         BY <2>2, <1>t, QuietStep DEF SpuriousWake
   <2>3. CASE WorkerExits(w)
      <3> DEFINE x == [work[w] EXCEPT !.pc = "exited"]
      <3>1. x \in [pc : {"wait", "exited"}, item : WorkItem \cup {NoItem}]
            BY DEF PoolInv, TypeOK
      <3>2. work' = [work EXCEPT ![w] = x] /\ work[w].pc # "perform"
            BY <2>3 DEF WorkerExits
      <3> HIDE DEF x
      <3> QED BY <3>1, <3>2, <2>3, <1>t, IdleWorkerStep DEF WorkerExits
   <2>4. CASE WorkerTakes(w)
         BY <2>4, TakeStep
   <2>5. CASE Deliver(w)
         BY <2>5, DeliverStep
   <2>6. CASE Account(w)
      <3> DEFINE x == [pc |-> "wait", item |-> NoItem]
      <3>1. x \in [pc : {"wait", "exited"}, item : WorkItem \cup {NoItem}]
            OBVIOUS
      <3>2. stats' \in [Counters -> Int]
            BY <2>6, AccountedType DEF Account
      <3> HIDE DEF x
      <3>3. work' = [work EXCEPT ![w] = x] /\ work[w].pc # "perform"
            BY <2>6 DEF Account, x
      <3> QED BY <3>1, <3>2, <3>3, <2>6, IdleWorkerStep DEF Account
   <2> QED BY <1>3, <2>1, <2>2, <2>3, <2>4, <2>5, <2>6 DEF WorkerStep
<1>4. ASSUME NEW c \in Callers, Shutdown(c) \/ Destroy(c) \/ ShutdownStep(c) PROVE PoolInv'
   <2>1. CASE Shutdown(c)
         BY <2>1, <1>t, QuietStep, CloseStep DEF Shutdown, vars, queueVars
   <2>2. CASE Destroy(c)
         BY <2>2, <1>t, QuietStep, CloseStep DEF Destroy
   <2> QED BY <1>4, <2>1, <2>2, CancelStep, CountStep, JoinStep DEF ShutdownStep
<1>5. CASE UNCHANGED vars
      BY <1>5, <1>t, QuietStep DEF vars
<1> QED BY <1>1, <1>2, <1>3, <1>4, <1>5 DEF Next

\* The pool's invariant holds in every reachable state.
LEMMA PoolAlways == Spec => []PoolInv
BY InitPool, PoolInductive, PTL DEF Spec

-----------------------------------------------------------------------------
(* The counters *)

\* The requests the counters know the outcome of, cancelled ones aside.
Settled == stats["ok"] + stats["short"] + stats["errors"]

EveryRequestCounted ==
    stats["accepted"] = Settled + stats["cancelled"] + stats["inFlight"] + ringSize + Len(queued)
InFlightCounted == stats["inFlight"] = Cardinality(Accounting)

\* The counters and the lengths compared with them are integers.
LEMMA CounterTypes ==
    ASSUME TypeOK
    PROVE  /\ \A k \in Counters : stats[k] \in Int
           /\ Settled \in Int /\ stats["accepted"] \in Int /\ stats["cancelled"] \in Int
           /\ stats["inFlight"] \in Int
           /\ ringSize \in Int /\ Len(queued) \in Int
<1>1. /\ stats \in [Counters -> Int] /\ ringSize \in Int /\ Len(queued) \in Int
      BY ConfigAssumption DEF TypeOK
<1>2. /\ stats["ok"] \in Int /\ stats["short"] \in Int /\ stats["errors"] \in Int /\ stats["accepted"] \in Int
      /\ stats["cancelled"] \in Int /\ stats["inFlight"] \in Int
      BY <1>1 DEF Counters
<1> QED BY <1>1, <1>2 DEF Settled

\* The books balance after a step that adds as much on one side as on the other.
LEMMA BooksBalance ==
    ASSUME TypeOK, EveryRequestCounted,
           NEW a \in Int, NEW s \in Int, NEW c \in Int, NEW f \in Int, NEW r \in Int, NEW q \in Int,
           a = s + c + f + r + q,
           stats'["accepted"] = stats["accepted"] + a, Settled' = Settled + s,
           stats'["cancelled"] = stats["cancelled"] + c, stats'["inFlight"] = stats["inFlight"] + f,
           ringSize' = ringSize + r, Len(queued') = Len(queued) + q
    PROVE  EveryRequestCounted'
<1>1. PICK A, S, C, F, R, Q \in Int :
         /\ A = stats["accepted"] /\ S = Settled /\ C = stats["cancelled"] /\ F = stats["inFlight"]
         /\ R = ringSize /\ Q = Len(queued)
      BY CounterTypes
<1>2. A = S + C + F + R + Q
      BY <1>1, Zenon DEF EveryRequestCounted
<1>3. A + a = (S + s) + (C + c) + (F + f) + (R + r) + (Q + q)
      BY <1>2
<1> QED BY <1>1, <1>3, Zenon DEF EveryRequestCounted

\* Finitely many workers have an item that is not yet in the counters.
LEMMA AccountingFinite == IsFiniteSet(Accounting) /\ Cardinality(Accounting) \in Nat
BY ConfigAssumption, FS_Subset, FS_CardinalityType DEF Accounting

StatsInv == EveryRequestCounted /\ InFlightCounted

\* The steps that change no counter of the two sums.
LEMMA SameBooks ==
    ASSUME TypeOK, StatsInv, UNCHANGED <<ringSize, queued>>, Accounting' = Accounting,
           \A k \in Counters \ {"rejected", "highWater", "bytes"} : stats'[k] = stats[k]
    PROVE  StatsInv'
<1>1. Settled' = Settled /\ stats'["accepted"] = stats["accepted"] /\ stats'["cancelled"] = stats["cancelled"]
      /\ stats'["inFlight"] = stats["inFlight"]
      BY DEF Settled, Counters
<1> QED BY <1>1 DEF StatsInv, EveryRequestCounted, InFlightCounted

\* Every step keeps the counters' invariant.
LEMMA StatsStep == PoolInv /\ StatsInv /\ [Next]_vars => StatsInv'
<1> SUFFICES ASSUME PoolInv, StatsInv, [Next]_vars PROVE StatsInv'
    OBVIOUS
<1>t. /\ TypeOK /\ EveryRequestCounted /\ InFlightCounted /\ stats \in [Counters -> Int]
      /\ work \in [Workers -> [pc : {"wait", "perform", "account", "exited"}, item : WorkItem \cup {NoItem}]]
      BY DEF PoolInv, TypeOK, StatsInv
<1>c. /\ ringSize \in Int /\ Len(queued) \in Int /\ Settled \in Int /\ \A k \in Counters : stats[k] \in Int
      /\ ringSize \in Nat /\ Len(queued) \in Nat
      BY <1>t, CounterTypes, ConfigAssumption DEF TypeOK
<1>z. 0 \in Int /\ 1 \in Int
      OBVIOUS
<1>m. PICK m \in Int : m + 1 = 0
      BY -1 \in Int /\ -1 + 1 = 0
<1>1. ASSUME NEW s \in Sources, Register(s) PROVE StatsInv'
      BY <1>1, <1>t, SameBooks DEF Register, queueVars, Accounting
<1>2. ASSUME NEW r \in Requests, Submit(r) PROVE StatsInv'
   <2>1. /\ stats'["accepted"] = stats["accepted"] + 1
         /\ \A k \in Counters \ {"accepted", "highWater"} : stats'[k] = stats[k]
         /\ ringSize' = ringSize + 1 /\ UNCHANGED <<queued, work>>
         BY <1>2, <1>t DEF Submit, Counters
   <2>2. Settled' = Settled + 0 /\ stats'["cancelled"] = stats["cancelled"] + 0
         /\ stats'["inFlight"] = stats["inFlight"] + 0 /\ Len(queued') = Len(queued) + 0
      <3>1. /\ stats'["ok"] = stats["ok"] /\ stats'["short"] = stats["short"] /\ stats'["errors"] = stats["errors"]
            /\ stats'["cancelled"] = stats["cancelled"] /\ stats'["inFlight"] = stats["inFlight"]
            BY <2>1 DEF Counters
      <3>2. stats["cancelled"] \in Int /\ stats["inFlight"] \in Int
            BY <1>c DEF Counters
      <3>3. Settled' = Settled /\ Len(queued') = Len(queued)
            BY <2>1, <3>1 DEF Settled
      <3> QED BY <3>1, <3>2, <3>3, <1>c
   <2>3. EveryRequestCounted'
      <3>1. 1 = 0 + 0 + 0 + 1 + 0
            OBVIOUS
      <3> QED BY <3>1, <2>1, <2>2, <1>t, <1>z, BooksBalance, ZenonT(40)
   <2>4. InFlightCounted'
         BY <2>1, <1>t DEF InFlightCounted, Accounting, Counters
   <2> QED BY <2>3, <2>4 DEF StatsInv
<1>3. ASSUME NEW r \in Requests, SubmitRefused(r) PROVE StatsInv'
   <2>1. \A k \in Counters \ {"rejected"} : stats'[k] = stats[k]
         BY <1>3, <1>t DEF SubmitRefused, Counters
   <2> QED BY <2>1, <1>3, <1>t, SameBooks DEF SubmitRefused, queueVars, Accounting
<1>4. ASSUME NEW w \in Workers, WorkerSleeps(w) \/ SpuriousWake(w) PROVE StatsInv'
      BY <1>4, <1>t, SameBooks DEF WorkerSleeps, SpuriousWake, queueVars, Accounting
<1>5. ASSUME NEW w \in Workers, WorkerExits(w) PROVE StatsInv'
   <2>1. Accounting' = Accounting
         BY <1>5, <1>t DEF WorkerExits, Accounting
   <2> QED BY <2>1, <1>5, <1>t, SameBooks DEF WorkerExits, queueVars
<1>6. ASSUME NEW w \in Workers, WorkerTakes(w) PROVE StatsInv'
   <2>1. /\ stats'["inFlight"] = stats["inFlight"] + 1
         /\ \A k \in Counters \ {"inFlight"} : stats'[k] = stats[k]
         /\ ringSize' = ringSize + m /\ UNCHANGED queued
         BY <1>6, <1>t, <1>c, <1>m DEF WorkerTakes, Counters
   <2>2. Settled' = Settled + 0 /\ stats'["cancelled"] = stats["cancelled"] + 0
         /\ stats'["accepted"] = stats["accepted"] + 0 /\ Len(queued') = Len(queued) + 0
         BY <2>1, <1>c DEF Settled, Counters
   <2>3. EveryRequestCounted'
      <3>1. 0 = 0 + 0 + 1 + m + 0
            BY <1>m
      <3> QED BY <3>1, <2>1, <2>2, <1>t, <1>z, BooksBalance, ZenonT(40)
   <2>4. Accounting' = Accounting \cup {w} /\ w \notin Accounting
         BY <1>6, <1>t DEF WorkerTakes, Accounting
   <2>5. Cardinality(Accounting \cup {w}) = Cardinality(Accounting) + 1
         BY <2>4, AccountingFinite, FS_AddElement
   <2>6. InFlightCounted'
         BY <2>1, <2>4, <2>5, <1>t DEF InFlightCounted
   <2> QED BY <2>3, <2>6 DEF StatsInv
<1>7. ASSUME NEW w \in Workers, Deliver(w) PROVE StatsInv'
   <2>1. Accounting' = Accounting
         BY <1>7, <1>t DEF Deliver, Accounting
   <2> QED BY <2>1, <1>7, <1>t, SameBooks DEF Deliver, queueVars
<1>8. ASSUME NEW w \in Workers, Account(w) PROVE StatsInv'
   <2>1. /\ stats'["inFlight"] = stats["inFlight"] - 1 /\ stats'["accepted"] = stats["accepted"]
         /\ stats'["cancelled"] = stats["cancelled"] /\ Settled' = Settled + 1
         /\ UNCHANGED <<ringSize, queued>>
         BY <1>8, AccountedType DEF Account, Settled, queueVars
   <2>2. /\ stats'["inFlight"] = stats["inFlight"] + m /\ stats'["accepted"] = stats["accepted"] + 0
         /\ stats'["cancelled"] = stats["cancelled"] + 0 /\ ringSize' = ringSize + 0
         /\ Len(queued') = Len(queued) + 0
         BY <2>1, <1>c, <1>m DEF Counters
   <2>3. EveryRequestCounted'
      <3>1. 0 = 1 + 0 + m + 0 + 0
            BY <1>m
      <3> QED BY <3>1, <2>1, <2>2, <1>t, <1>z, BooksBalance, ZenonT(40)
   <2>4. Accounting' = Accounting \ {w} /\ w \in Accounting
         BY <1>8, <1>t DEF Account, Accounting
   <2>5. Cardinality(Accounting \ {w}) = Cardinality(Accounting) - 1
         BY <2>4, AccountingFinite, FS_RemoveElement
   <2>6. InFlightCounted'
         BY <2>1, <2>4, <2>5, <1>t DEF InFlightCounted
   <2> QED BY <2>3, <2>6 DEF StatsInv
<1>9. ASSUME NEW c \in Callers, NEW last \in BOOLEAN, CloseQueue(c, last) PROVE StatsInv'
   <2>n. PICK n \in Int : n + ringSize = 0
         BY <1>c, -ringSize \in Int /\ -ringSize + ringSize = 0
   <2>1. /\ UNCHANGED <<stats, work>> /\ ringSize' = ringSize + n
         /\ Len(queued) = 0 /\ Len(queued') = Len(queued) + ringSize
         BY <1>9, <1>c, <2>n, WaitingItems DEF CloseQueue, PoolInv, OneCloser
   <2>2. Settled' = Settled + 0 /\ stats'["cancelled"] = stats["cancelled"] + 0
         /\ stats'["accepted"] = stats["accepted"] + 0 /\ stats'["inFlight"] = stats["inFlight"] + 0
      <3>1. stats["cancelled"] \in Int /\ stats["accepted"] \in Int /\ stats["inFlight"] \in Int
            BY <1>c DEF Counters
      <3>2. Settled' = Settled
            BY <2>1 DEF Settled
      <3> QED BY <2>1, <3>1, <3>2, <1>c
   <2>3. EveryRequestCounted'
      <3>1. 0 = 0 + 0 + 0 + n + ringSize
            BY <1>c, <2>n
      <3> QED BY <3>1, <2>1, <2>2, <1>c, <1>t, <1>z, BooksBalance, ZenonT(40)
   <2>4. InFlightCounted'
         BY <2>1, <1>t DEF InFlightCounted, Accounting
   <2> QED BY <2>3, <2>4 DEF StatsInv
<1>10. ASSUME NEW c \in Callers, CancelNext(c) \/ Join(c) PROVE StatsInv'
      BY <1>10, <1>t, SameBooks DEF CancelNext, Join, queueVars, Accounting
<1>11. ASSUME NEW c \in Callers, CountCancelled(c) PROVE StatsInv'
   <2>1. /\ stats'["cancelled"] = stats["cancelled"] + 1
         /\ \A k \in Counters \ {"cancelled"} : stats'[k] = stats[k]
         /\ UNCHANGED <<ringSize, work>>
         BY <1>11, <1>t DEF CountCancelled, Counters, queueVars
   <2>2. Len(queued') = Len(queued) + m
         BY <1>11, <1>c, <1>m, CountStep
   <2>3. Settled' = Settled + 0 /\ stats'["inFlight"] = stats["inFlight"] + 0
         /\ stats'["accepted"] = stats["accepted"] + 0 /\ ringSize' = ringSize + 0
         BY <2>1, <1>c DEF Settled, Counters
   <2>4. EveryRequestCounted'
      <3>1. 0 = 0 + 1 + 0 + 0 + m
            BY <1>m
      <3> QED BY <3>1, <2>1, <2>2, <2>3, <1>t, <1>z, BooksBalance, ZenonT(40)
   <2>5. InFlightCounted'
         BY <2>1, <1>t DEF InFlightCounted, Accounting, Counters
   <2> QED BY <2>4, <2>5 DEF StatsInv
<1>12. CASE UNCHANGED vars
      BY <1>12, <1>t, SameBooks DEF vars, queueVars, Accounting
<1>13. ASSUME NEW c \in Callers, Destroy(c), ~CloseQueue(c, TRUE) PROVE StatsInv'
      BY <1>13, <1>t, SameBooks DEF Destroy, queueVars, Accounting
<1> QED BY <1>1, <1>2, <1>3, <1>4, <1>5, <1>6, <1>7, <1>8, <1>9, <1>10, <1>11, <1>12, <1>13
        DEF Next, WorkerStep, ShutdownStep, Shutdown, Destroy

\* The counters account for every accepted request at every moment stats() can look, and in_flight is the
\* number of workers between taking a request and accounting for it.
THEOREM CountersAddUp == Spec => []StatsAddUp
<1>1. Init => StatsInv
   <2> SUFFICES ASSUME Init PROVE StatsInv
       OBVIOUS
   <2>1. Accounting = {} /\ stats["inFlight"] = 0 /\ Settled = 0 /\ stats["accepted"] = 0
         /\ stats["cancelled"] = 0 /\ ringSize = 0 /\ Len(queued) = 0
         BY DEF Init, Accounting, Counters, Settled
   <2> QED BY <2>1, FS_EmptySet DEF StatsInv, EveryRequestCounted, InFlightCounted
<1>2. StatsInv => StatsAddUp
      BY DEF StatsInv, StatsAddUp, EveryRequestCounted, InFlightCounted, Settled
<1> QED BY <1>1, <1>2, StatsStep, PoolAlways, PTL DEF Spec

-----------------------------------------------------------------------------
(* notify_one is enough *)

SleepInv == SleepersWait /\ NoIdleWorker

\* Finitely many workers are awake with nothing taken yet.
LEMMA AwakeFinite == IsFiniteSet(Awake) /\ Cardinality(Awake) \in Nat
BY ConfigAssumption, FS_Subset, FS_CardinalityType DEF Awake

\* One more worker awake covers one more item: notify_one is enough.
LEMMA MoreAwake ==
    ASSUME TypeOK, SleepInv, NEW w, Awake' = Awake \cup {w}, w \notin Awake, ringSize' <= ringSize + 1,
           ringSize' \in Int, asleep # {} \/ asleep' = {}
    PROVE  NoIdleWorker'
<1>1. Cardinality(Awake \cup {w}) = Cardinality(Awake) + 1
      BY AwakeFinite, FS_AddElement
<1>2. ringSize \in Int /\ Cardinality(Awake) \in Int
      BY AwakeFinite, ConfigAssumption DEF TypeOK
<1>3. asleep' # {} => ringSize <= Cardinality(Awake)
      BY DEF SleepInv, NoIdleWorker
<1> QED BY <1>1, <1>2, <1>3 DEF NoIdleWorker

\* Every step keeps the sleeping workers' invariant.
LEMMA SleepStep == PoolInv /\ SleepInv /\ [Next]_vars => SleepInv'
<1> SUFFICES ASSUME PoolInv, SleepInv, [Next]_vars PROVE SleepInv'
    OBVIOUS
<1>t. /\ TypeOK /\ ringSize \in Nat /\ asleep \subseteq Workers
      /\ work \in [Workers -> [pc : {"wait", "perform", "account", "exited"}, item : WorkItem \cup {NoItem}]]
      BY ConfigAssumption DEF PoolInv, TypeOK
<1>1. CASE UNCHANGED <<ringSize, work, asleep>>
      BY <1>1 DEF SleepInv, SleepersWait, NoIdleWorker, Awake
<1>2. ASSUME NEW r \in Requests, Submit(r) PROVE SleepInv'
   <2>1. UNCHANGED work /\ ringSize' = ringSize + 1 /\ asleep' \in NotifyOne
         BY <1>2 DEF Submit
   <2>2. CASE asleep = {}
      <3>1. asleep' = {}
            BY <2>1, <2>2 DEF NotifyOne
      <3> QED BY <3>1 DEF SleepInv, SleepersWait, NoIdleWorker
   <2>3. CASE asleep # {}
      <3>1. PICK w \in asleep : asleep' = asleep \ {w}
            BY <2>1, <2>3 DEF NotifyOne
      <3>2. Awake' = Awake \cup {w} /\ w \notin Awake
            BY <3>1, <2>1, <1>t DEF Awake, SleepInv, SleepersWait
      <3>3. ringSize' <= ringSize + 1 /\ ringSize' \in Int
            BY <2>1, <1>t
      <3>4. NoIdleWorker'
            BY <3>2, <3>3, <2>3, <1>t, MoreAwake
      <3> QED BY <3>1, <3>4, <2>1 DEF SleepInv, SleepersWait
   <2> QED BY <2>2, <2>3
<1>3. ASSUME NEW w \in Workers, WorkerSleeps(w) PROVE SleepInv'
   <2>1. SleepersWait'
         BY <1>3 DEF WorkerSleeps, SleepInv, SleepersWait
   <2>2. ringSize' = 0
         BY <1>3 DEF WorkerSleeps, queueVars
   <2>3. Cardinality(Awake') \in Nat
         BY AwakeFinite, FS_Subset, FS_CardinalityType, ConfigAssumption DEF Awake
   <2> QED BY <2>1, <2>2, <2>3 DEF SleepInv, NoIdleWorker
<1>4. ASSUME NEW w \in Workers, WorkerExits(w) PROVE SleepInv'
   <2>1. SleepersWait'
         BY <1>4, <1>t DEF WorkerExits, SleepInv, SleepersWait
   <2>2. ringSize' = 0
         BY <1>4 DEF WorkerExits, queueVars
   <2>3. Cardinality(Awake') \in Nat
         BY AwakeFinite, FS_Subset, FS_CardinalityType, ConfigAssumption DEF Awake
   <2> QED BY <2>1, <2>2, <2>3 DEF SleepInv, NoIdleWorker
<1>5. ASSUME NEW w \in Workers, WorkerTakes(w) PROVE SleepInv'
   <2>1. SleepersWait'
         BY <1>5, <1>t DEF WorkerTakes, SleepInv, SleepersWait
   <2>2. Awake' = Awake \ {w} /\ w \in Awake
         BY <1>5, <1>t DEF WorkerTakes, Awake
   <2>3. Cardinality(Awake \ {w}) = Cardinality(Awake) - 1 /\ Cardinality(Awake) \in Int
         BY <2>2, AwakeFinite, FS_RemoveElement
   <2>4. ringSize' = ringSize - 1 /\ asleep' = asleep
         BY <1>5 DEF WorkerTakes
   <2> QED BY <2>1, <2>2, <2>3, <2>4, <1>t DEF SleepInv, NoIdleWorker
<1>6. ASSUME NEW w \in Workers, Deliver(w) PROVE SleepInv'
   <2>1. Awake' = Awake /\ SleepersWait'
         BY <1>6, <1>t DEF Deliver, Awake, SleepInv, SleepersWait
   <2> QED BY <2>1, <1>6 DEF Deliver, queueVars, SleepInv, NoIdleWorker
<1>7. ASSUME NEW w \in Workers, Account(w) PROVE SleepInv'
   <2>1. Awake' = Awake \cup {w} /\ w \notin Awake /\ SleepersWait'
         BY <1>7, <1>t DEF Account, Awake, SleepInv, SleepersWait
   <2>2. ringSize' = ringSize /\ asleep' = asleep
         BY <1>7 DEF Account, queueVars
   <2>3. ringSize' <= ringSize + 1 /\ ringSize' \in Int /\ (asleep # {} \/ asleep' = {})
         BY <2>2, <1>t
   <2> QED BY <2>1, <2>3, <1>t, MoreAwake DEF SleepInv
<1>8. ASSUME NEW w \in Workers, SpuriousWake(w) PROVE SleepInv'
   <2>1. Awake' = Awake \cup {w} /\ w \notin Awake /\ SleepersWait'
         BY <1>8, <1>t DEF SpuriousWake, Awake, SleepInv, SleepersWait
   <2>2. ringSize' = ringSize /\ asleep # {}
         BY <1>8 DEF SpuriousWake, queueVars
   <2>3. ringSize' <= ringSize + 1 /\ ringSize' \in Int
         BY <2>2, <1>t
   <2> QED BY <2>1, <2>2, <2>3, <1>t, MoreAwake DEF SleepInv
<1>9. ASSUME NEW c \in Callers, NEW last \in BOOLEAN, CloseQueue(c, last) PROVE SleepInv'
      BY <1>9 DEF CloseQueue, StillAsleep, SleepInv, SleepersWait, NoIdleWorker
<1>10. CASE Next
   <2>1. CASE \E s \in Sources : Register(s)
         BY <2>1, <1>1 DEF Register, queueVars
   <2>2. ASSUME NEW r \in Requests, SubmitRefused(r) PROVE SleepInv'
         BY <2>2, <1>1 DEF SubmitRefused, queueVars
   <2>3. ASSUME NEW c \in Callers, Shutdown(c) \/ Destroy(c) PROVE SleepInv'
         BY <2>3, <1>1, <1>9 DEF Shutdown, Destroy, vars, queueVars
   <2>4. ASSUME NEW c \in Callers, ShutdownStep(c) PROVE SleepInv'
         BY <2>4, <1>1 DEF ShutdownStep, CancelNext, CountCancelled, Join, queueVars
   <2> QED BY <1>10, <2>1, <2>2, <2>3, <2>4, <1>2, <1>3, <1>4, <1>5, <1>6, <1>7, <1>8 DEF Next, WorkerStep
<1>11. CASE UNCHANGED vars
      BY <1>11, <1>1 DEF vars, queueVars
<1> QED BY <1>10, <1>11

\* Waking one worker for each submit is enough: while a worker sleeps, no more requests wait than workers
\* are awake to take them.
THEOREM NotifyOneSuffices == Spec => []NoIdleWorker
<1>1. Init => SleepInv
      BY DEF Init, SleepInv, SleepersWait, NoIdleWorker
<1>2. SleepInv => NoIdleWorker
      BY DEF SleepInv
<1> QED BY <1>1, <1>2, SleepStep, PoolAlways, PTL DEF Spec

-----------------------------------------------------------------------------
(* The contract of a FillBackend *)

\* The abstract queue, and the requests taken and not completed.
Queue == [i \in 1 .. ringSize |-> Waiting[i].request]
Active == {work[w].item.request : w \in Busy} \cup {queued[i].request : i \in Undelivered}

\* The contract's queue is the ring read from its head.
LEMMA QueueFacts ==
    ASSUME PoolInv
    PROVE  /\ Queue \in Seq(Requests) /\ Len(Queue) = ringSize /\ DOMAIN Queue = 1 .. ringSize
           /\ \A i \in 1 .. ringSize : Queue[i] = ItemAt(i).request
           /\ ringSize \in Nat /\ (Queue = <<>> <=> ringSize = 0)
<1>1. ringSize \in Nat /\ \A i \in 1 .. ringSize : Waiting[i] = ItemAt(i) /\ ItemAt(i).request \in Requests
      BY WaitingItems, ConfigAssumption DEF PoolInv, TypeOK, PendingIsUntouched, WorkItem
<1>2. Queue \in Seq(Requests) /\ Len(Queue) = ringSize /\ DOMAIN Queue = 1 .. ringSize
      BY <1>1 DEF Queue
<1>3. \A i \in 1 .. ringSize : Queue[i] = ItemAt(i).request
      BY <1>1 DEF Queue
<1>4. Queue = <<>> <=> ringSize = 0
      BY <1>1, <1>2
<1> QED BY <1>1, <1>2, <1>3, <1>4

\* The contract's active requests are those with a worker, or not yet cancelled by a close.
LEMMA ActiveFacts ==
    ASSUME PoolInv
    PROVE  \A r : r \in Active <=> \/ \E w \in Workers : work[w].pc = "perform" /\ r = work[w].item.request
                                   \/ \E i \in 1 .. Len(queued) : i >= FirstLeft /\ r = queued[i].request
<1>1. Len(queued) \in Nat /\ DOMAIN queued = 1 .. Len(queued)
      BY DEF PoolInv, TypeOK
<1>2. \A i : i \in Undelivered <=> i \in 1 .. Len(queued) /\ i >= FirstLeft
      BY <1>1 DEF Undelivered, FirstLeft
<1> QED BY <1>2 DEF Active, Busy

\* The abstract queue is what the ring holds, position by position.
QueueIsRing ==
    /\ Queue \in Seq(Requests) /\ Len(Queue) = ringSize
    /\ \A i \in 1 .. ringSize : Queue[i] = ItemAt(i).request

\* The queue as a function of the ring, in the state before a step,
LEMMA QueueView == PoolInv => QueueIsRing
BY QueueFacts DEF QueueIsRing

\* and in the state after it.
LEMMA QueueViewNext == PoolInv' => QueueIsRing'
BY QueueView, PTL

\* A step that changes neither the queue, nor what is pending, nor any answer or completion.
LEMMA SilentStep ==
    ASSUME Queue' = Queue, Active' = Active, UNCHANGED <<submitted, delivered, shuttingDown>>
    PROVE  UNCHANGED Contract!vars
BY DEF Queue, Active, Contract!vars

\* The contract's queue stays while the ring stays.
LEMMA SameQueue == ASSUME UNCHANGED <<ring, head, ringSize>> PROVE Queue' = Queue
BY DEF Queue, Waiting

\* The active requests stay while workers and the taken-over items stay.
LEMMA SameActive == ASSUME UNCHANGED <<work, queued, closing>> PROVE Active' = Active
BY DEF Active, Busy, Undelivered

\* An accepted submit is the contract's acceptance.
LEMMA RefineSubmit ==
    ASSUME PoolInv, PoolInv', NEW r \in Requests, Submit(r)
    PROVE  Contract!Accept(r)
<1>1. /\ submitted[r] = "new" /\ ~shuttingDown /\ ringSize # Capacity /\ ringSize' = ringSize + 1
      /\ ring' = [ring EXCEPT ![End] = [request |-> r, known |-> SourceOf[r] \in sources]] /\ head' = head
      /\ submitted' = [submitted EXCEPT ![r] = "accepted"]
      /\ UNCHANGED <<shuttingDown, work, closing, queued, delivered>>
      BY DEF Submit, Refuses
<1>2. ringSize \in 0 .. Capacity /\ Capacity \in Nat /\ TypeOK /\ ringSize < Capacity
      BY <1>1, ConfigAssumption DEF PoolInv, TypeOK
<1>3. Len(Queue) < Capacity
      BY <1>2, QueueFacts
<1>4. Queue' = Append(Queue, r)
   <2> DEFINE x == [request |-> r, known |-> SourceOf[r] \in sources]
   <2>1. ring' = [ring EXCEPT ![End] = x] /\ x.request = r
         BY <1>1
   <2> HIDE DEF x
   <2>2. /\ \A i \in 1 .. ringSize : ItemAt(i)' = ItemAt(i)
         /\ \A n \in Nat : n = ringSize + 1 => ItemAt(n)' = x
         BY <2>1, <1>1, <1>2, AppendEffect
   <2>3. /\ Queue \in Seq(Requests) /\ Len(Queue) = ringSize
         /\ \A i \in 1 .. ringSize : Queue[i] = ItemAt(i).request
         BY QueueFacts
   <2>4. /\ Queue' \in Seq(Requests) /\ Len(Queue') = ringSize + 1
         /\ \A i \in 1 .. ringSize + 1 : Queue'[i] = ItemAt(i)'.request
      <3>1. QueueIsRing'
            BY QueueViewNext
      <3> QED BY <3>1, <1>1 DEF QueueIsRing
   <2>5. \A i \in 1 .. ringSize + 1 : Queue'[i] = Append(Queue, r)[i]
         BY <2>1, <2>2, <2>3, <2>4, <1>2
   <2>6. Append(Queue, r) \in Seq(Requests) /\ Len(Append(Queue, r)) = ringSize + 1
         BY <2>3
   <2> QED BY <2>4, <2>5, <2>6, SeqEqual
<1>5. Active' = Active
      BY <1>1, SameActive
<1> QED BY <1>1, <1>3, <1>4, <1>5 DEF Contract!Accept, Queue, Active

\* A refused submit is the contract's refusal.
LEMMA RefineRefused ==
    ASSUME PoolInv, NEW r \in Requests, SubmitRefused(r)
    PROVE  Contract!Refuse(r)
<1>1. Queue' = Queue /\ Active' = Active
      BY SameQueue, SameActive DEF SubmitRefused, queueVars
<1>2. ~~shuttingDown \/ Len(Queue) = Capacity
      BY QueueFacts DEF SubmitRefused, Refuses
<1>3. /\ submitted[r] = "new" /\ submitted' = [submitted EXCEPT ![r] = "refused"]
      /\ UNCHANGED <<delivered, shuttingDown>>
      BY DEF SubmitRefused, queueVars
<1> QED BY <1>1, <1>2, <1>3 DEF Contract!Refuse, Queue, Active

\* A worker's take is the contract's take from the front.
LEMMA RefineTake ==
    ASSUME PoolInv, PoolInv', NEW w \in Workers, WorkerTakes(w)
    PROVE  Contract!Take
<1>1. /\ ringSize # 0 /\ work[w].pc = "wait" /\ UNCHANGED ring /\ head' = NextHead /\ ringSize' = ringSize - 1
      /\ work' = [work EXCEPT ![w] = [pc |-> "perform", item |-> ring[head]]] /\ TypeOK
      /\ UNCHANGED <<shuttingDown, closing, queued, submitted, delivered>>
      BY DEF WorkerTakes, PoolInv
<1>2. /\ \A i \in 1 .. ringSize - 1 : ItemAt(i)' = ItemAt(i + 1)
      /\ ring[head] = ItemAt(1)
      BY <1>1, TakeEffect
<1>3. /\ Queue \in Seq(Requests) /\ Len(Queue) = ringSize /\ ringSize \in Nat /\ Queue # <<>>
      /\ \A i \in 1 .. ringSize : Queue[i] = ItemAt(i).request
      BY <1>1, QueueFacts
<1>4. /\ Queue' \in Seq(Requests) /\ Len(Queue') = ringSize - 1
      /\ \A i \in 1 .. ringSize - 1 : Queue'[i] = ItemAt(i)'.request
   <2>1. QueueIsRing'
         BY QueueViewNext
   <2> QED BY <2>1, <1>1 DEF QueueIsRing
<1>5. Queue' = Tail(Queue)
   <2>1. /\ Tail(Queue) \in Seq(Requests) /\ Len(Tail(Queue)) = ringSize - 1
         /\ \A i \in 1 .. ringSize - 1 : Tail(Queue)[i] = Queue[i + 1]
         BY <1>3, HeadTailProperties
   <2>2. \A i \in 1 .. ringSize - 1 : Queue'[i] = Tail(Queue)[i]
         BY <2>1, <1>2, <1>3, <1>4
   <2> QED BY <2>1, <2>2, <1>4, SeqEqual
<1>6. Head(Queue) = ItemAt(1).request
      BY <1>1, <1>3
<1>7. Active' = Active \cup {Head(Queue)}
   <2>1. /\ work'[w].pc = "perform" /\ work'[w].item = ItemAt(1)
         /\ \A v \in Workers \ {w} : work'[v] = work[v]
         BY <1>1, <1>2 DEF TypeOK
   <2>2. Busy' = Busy \cup {w} /\ w \notin Busy
         BY <2>1, <1>1 DEF Busy
   <2>3. {work'[v].item.request : v \in Busy'} = {work[v].item.request : v \in Busy} \cup {ItemAt(1).request}
         BY <2>1, <2>2 DEF Busy
   <2>4. Undelivered' = Undelivered
         BY <1>1 DEF Undelivered
   <2> QED BY <2>3, <2>4, <1>1, <1>6 DEF Active
<1> QED BY <1>1, <1>3, <1>5, <1>7 DEF Contract!Take, Queue, Active

\* The active requests, in the state after a step.
LEMMA ActiveNext ==
    ASSUME PoolInv'
    PROVE  \A r : r \in Active' <=> \/ \E w \in Workers : work'[w].pc = "perform" /\ r = work'[w].item.request
                                    \/ \E i \in 1 .. Len(queued') : i >= FirstLeft' /\ r = queued'[i].request
<1>1. Len(queued') \in Nat /\ DOMAIN queued' = 1 .. Len(queued')
      BY DEF PoolInv, TypeOK
<1>2. \A i : i \in Undelivered' <=> i \in 1 .. Len(queued') /\ i >= FirstLeft'
      BY <1>1 DEF Undelivered, FirstLeft
<1> QED BY <1>2 DEF Active, Busy

\* A delivery completes a request the contract has active, once.
LEMMA RefineDeliver ==
    ASSUME PoolInv, PoolInv', NEW w \in Workers, Deliver(w)
    PROVE  \E q \in Requests : Contract!Complete(q)
<1> DEFINE q == work[w].item.request
<1>1. /\ work[w].pc = "perform" /\ work' = [work EXCEPT ![w].pc = "account"]
      /\ UNCHANGED <<ring, head, ringSize, shuttingDown, closing, queued, submitted>>
      /\ work[w].item \in WorkItem /\ q \in Requests /\ delivered[q] = <<>>
      BY DEF Deliver, queueVars, PoolInv, PendingIsUntouched, Untouched, WorkItem
<1>2. PICK d \in Completion : delivered' = [delivered EXCEPT ![q] = Append(@, d)]
      BY <1>1, CompletionType DEF Deliver
<1> HIDE DEF q
<1>3. delivered' = [delivered EXCEPT ![q] = <<d>>]
      BY <1>1, <1>2 DEF PoolInv, TypeOK
<1>4. /\ work'[w].pc = "account"
      /\ \A v \in Workers \ {w} : work'[v] = work[v]
      /\ FirstLeft' = FirstLeft
      BY <1>1 DEF PoolInv, TypeOK, FirstLeft
<1>5. q \in Active
      BY <1>1, ActiveFacts DEF q
<1>6. Active' = Active \ {q}
   <2>1. ASSUME NEW r, r \in Active' PROVE r \in Active /\ r # q
      <3>1. CASE \E v \in Workers : work'[v].pc = "perform" /\ r = work'[v].item.request
         <4>1. PICK v \in Workers : work'[v].pc = "perform" /\ r = work'[v].item.request
               BY <3>1
         <4>2. v # w /\ work'[v] = work[v]
               BY <4>1, <1>4
         <4>3. r # q
               BY <4>1, <4>2, <1>1 DEF PoolInv, PlacesApart, q
         <4> QED BY <4>1, <4>2, <4>3, ActiveFacts
      <3>2. CASE \E i \in 1 .. Len(queued) : i >= FirstLeft /\ r = queued[i].request
         <4>1. r # q
               BY <3>2, <1>1 DEF PoolInv, PlacesApart, q
         <4> QED BY <3>2, <4>1, ActiveFacts
      <3> QED BY <2>1, <3>1, <3>2, <1>1, <1>4, ActiveNext
   <2>2. ASSUME NEW r, r \in Active, r # q PROVE r \in Active'
      <3>1. CASE \E v \in Workers : work[v].pc = "perform" /\ r = work[v].item.request
         <4>1. PICK v \in Workers : work[v].pc = "perform" /\ r = work[v].item.request
               BY <3>1
         <4>2. work'[v] = work[v]
               BY <4>1, <2>2, <1>4 DEF q
         <4> QED BY <4>1, <4>2, ActiveNext
      <3>2. CASE \E i \in 1 .. Len(queued) : i >= FirstLeft /\ r = queued[i].request
            BY <3>2, <1>1, <1>4, ActiveNext
      <3> QED BY <2>2, <3>1, <3>2, ActiveFacts
   <2> QED BY <2>1, <2>2
<1>7. Queue' = Queue
      BY <1>1, SameQueue
<1>8. PICK p \in Requests : p = q
      BY <1>1
<1>9. Contract!Complete(p)
      BY <1>1, <1>3, <1>5, <1>6, <1>7, <1>8 DEF Contract!Complete, Queue, Active
<1> QED BY <1>9

\* A cancellation by a close completes an active request, once.
LEMMA RefineCancel ==
    ASSUME PoolInv, PoolInv', NEW c \in Callers, CancelNext(c)
    PROVE  \E q \in Requests : Contract!Complete(q)
<1> DEFINE q == Head(queued).request
           d == [status |-> "cancelled", bytes |-> 0]
<1>1. /\ queued # <<>> /\ queued \in Seq(WorkItem) /\ TypeOK
      /\ delivered' = [delivered EXCEPT ![q] = Append(@, d)]
      /\ UNCHANGED <<ring, head, ringSize, shuttingDown, work, queued, submitted>>
      BY DEF CancelNext, queueVars, PoolInv, TypeOK
<1>2. 1 \in 1 .. Len(queued) /\ q = queued[1].request /\ q \in Requests /\ Len(queued) \in Nat
      BY <1>1, QueuedItems
<1>3. FirstLeft = 1 /\ FirstLeft' = 2
      BY CancelStep
<1>4. delivered[q] = <<>> /\ d \in Completion
      BY <1>2, <1>3, ConfigAssumption DEF PoolInv, PendingIsUntouched, Untouched, Completion
<1> HIDE DEF q, d
<1>5. delivered' = [delivered EXCEPT ![q] = <<d>>]
      BY <1>1, <1>2, <1>4 DEF TypeOK
<1>6. q \in Active
      BY <1>2, <1>3, ActiveFacts
<1>7. Active' = Active \ {q}
   <2>1. ASSUME NEW r, r \in Active' PROVE r \in Active /\ r # q
      <3>1. CASE \E v \in Workers : work[v].pc = "perform" /\ r = work[v].item.request
         <4>1. r # q
               BY <3>1, <1>2, <1>3 DEF PoolInv, PlacesApart
         <4> QED BY <3>1, <4>1, ActiveFacts
      <3>2. CASE \E i \in 1 .. Len(queued) : i >= 2 /\ r = queued[i].request
         <4>1. PICK i \in 1 .. Len(queued) : i >= 2 /\ r = queued[i].request
               BY <3>2
         <4>2. r # q
               BY <4>1, <1>2 DEF PoolInv, PlacesApart
         <4>3. i >= FirstLeft
               BY <4>1, <1>3
         <4> QED BY <4>1, <4>2, <4>3, ActiveFacts
      <3> QED BY <2>1, <3>1, <3>2, <1>1, <1>3, ActiveNext
   <2>2. ASSUME NEW r, r \in Active, r # q PROVE r \in Active'
      <3>1. CASE \E v \in Workers : work[v].pc = "perform" /\ r = work[v].item.request
            BY <3>1, <1>1, ActiveNext
      <3>2. CASE \E i \in 1 .. Len(queued) : i >= FirstLeft /\ r = queued[i].request
         <4>1. PICK i \in 1 .. Len(queued) : i >= FirstLeft /\ r = queued[i].request
               BY <3>2
         <4>2. i >= FirstLeft'
               BY <4>1, <2>2, <1>2, <1>3
         <4> QED BY <4>1, <4>2, <1>1, ActiveNext
      <3> QED BY <2>2, <3>1, <3>2, ActiveFacts
   <2> QED BY <2>1, <2>2
<1>8. Queue' = Queue
      BY <1>1, SameQueue
<1>9. PICK p \in Requests : p = q
      BY <1>2
<1>10. Contract!Complete(p)
      BY <1>1, <1>4, <1>5, <1>6, <1>7, <1>8, <1>9 DEF Contract!Complete, Queue, Active
<1> QED BY <1>10

\* Closing makes every queued request active and accepts no more.
LEMMA RefineClose ==
    ASSUME PoolInv, PoolInv', NEW c \in Callers, NEW last \in BOOLEAN, CloseQueue(c, last)
    PROVE  Contract!Close
<1>1. /\ ~shuttingDown /\ shuttingDown' = TRUE /\ queued' = Waiting /\ ringSize' = 0 /\ queued = <<>>
      /\ UNCHANGED <<work, submitted, delivered>>
      BY DEF CloseQueue, PoolInv, OneCloser
<1>2. /\ Len(queued') = ringSize /\ DOMAIN queued' = 1 .. ringSize /\ DOMAIN Queue = 1 .. ringSize
      /\ \A i \in 1 .. ringSize : queued'[i].request = Queue[i]
      BY <1>1, WaitingItems, QueueFacts
<1>3. FirstLeft' = 1
   <2>1. /\ \A e \in Callers : closing[e].pc = "idle"
         /\ \A e \in Callers \ {c} : closing'[e] = closing[e]
         /\ closing'[c].pc = "cancel"
         BY <1>1 DEF PoolInv, OneCloser, TypeOK, CloseQueue
   <2> QED BY <2>1 DEF FirstLeft
<1>4. Queue' = <<>>
   <2>1. Queue' \in Seq(Requests) /\ Len(Queue') = 0
         BY <1>1, QueueViewNext DEF QueueIsRing
   <2> QED BY <2>1
<1>5. Active' = Active \cup {Queue[i] : i \in DOMAIN Queue}
   <2>1. \A r : r \in Active <=> \E w \in Workers : work[w].pc = "perform" /\ r = work[w].item.request
         BY <1>1, ActiveFacts
   <2>2. \A i \in 1 .. ringSize : i >= FirstLeft'
         BY <1>3, QueueFacts
   <2>3. \A r : r \in Active' <=> \/ \E w \in Workers : work[w].pc = "perform" /\ r = work[w].item.request
                                  \/ \E i \in DOMAIN Queue : r = Queue[i]
         BY <1>1, <1>2, <2>2, ActiveNext
   <2> QED BY <2>1, <2>3
<1> QED BY <1>1, <1>4, <1>5 DEF Contract!Close, Queue, Active

\* Counting a cancellation is a stutter of the contract.
LEMMA RefineCount ==
    ASSUME PoolInv, PoolInv', NEW c \in Callers, CountCancelled(c)
    PROVE  UNCHANGED Contract!vars
<1>1. /\ FirstLeft = 2 /\ FirstLeft' = 1 /\ Len(queued) \in Nat \ {0} /\ Len(queued') = Len(queued) - 1
      /\ \A i \in 1 .. Len(queued) - 1 : queued'[i] = queued[i + 1]
      BY CountStep
<1>2. UNCHANGED <<ring, head, ringSize, shuttingDown, work, submitted, delivered>>
      BY DEF CountCancelled, queueVars
<1>3. \A r : (\E i \in 1 .. Len(queued') : i >= 1 /\ r = queued'[i].request)
             <=> (\E i \in 1 .. Len(queued) : i >= 2 /\ r = queued[i].request)
   <2>1. ASSUME NEW r, NEW i \in 1 .. Len(queued'), r = queued'[i].request
         PROVE  \E j \in 1 .. Len(queued) : j >= 2 /\ r = queued[j].request
      <3>1. i + 1 \in 1 .. Len(queued) /\ i + 1 >= 2 /\ queued'[i] = queued[i + 1]
            BY <1>1
      <3> QED BY <2>1, <3>1
   <2>2. ASSUME NEW r, NEW j \in 1 .. Len(queued), j >= 2, r = queued[j].request
         PROVE  \E i \in 1 .. Len(queued') : i >= 1 /\ r = queued'[i].request
      <3>1. j - 1 \in 1 .. Len(queued') /\ j - 1 >= 1 /\ queued'[j - 1] = queued[(j - 1) + 1]
            BY <2>2, <1>1
      <3>2. (j - 1) + 1 = j
            BY <1>1
      <3> QED BY <2>2, <3>1, <3>2
   <2> QED BY <2>1, <2>2
<1>4. Active' = Active
   <2>1. \A r : r \in Active <=> \/ \E w \in Workers : work[w].pc = "perform" /\ r = work[w].item.request
                                 \/ \E i \in 1 .. Len(queued) : i >= 2 /\ r = queued[i].request
         BY <1>1, ActiveFacts
   <2>2. \A r : r \in Active' <=> \/ \E w \in Workers : work[w].pc = "perform" /\ r = work[w].item.request
                                  \/ \E i \in 1 .. Len(queued') : i >= 1 /\ r = queued'[i].request
         BY <1>1, <1>2, ActiveNext
   <2>3. \A r : r \in Active' <=> r \in Active
         BY <2>1, <2>2, <1>3, Zenon
   <2> HIDE DEF Active
   <2> QED BY <2>3
<1> QED BY <1>2, <1>4, SameQueue, SilentStep

\* The steps of the pool that the contract does not see: a worker that neither performs nor will.
LEMMA RefineIdle ==
    ASSUME PoolInv, NEW w \in Workers, work[w].pc # "perform", work'[w].pc # "perform",
           work' \in [Workers -> [pc : {"wait", "perform", "account", "exited"}, item : WorkItem \cup {NoItem}]],
           \A v \in Workers \ {w} : work'[v] = work[v],
           UNCHANGED <<queueVars, closing, queued, submitted, delivered>>
    PROVE  UNCHANGED Contract!vars
<1>1. Busy' = Busy /\ \A v \in Busy : work'[v] = work[v]
      BY DEF Busy
<1>2. Active' = Active
      BY <1>1 DEF Active, Undelivered
<1> QED BY <1>2, SameQueue, SilentStep DEF queueVars

\* Every step of the pool is a step or a stutter of the contract.
LEMMA RefineStep == PoolInv /\ PoolInv' /\ [Next]_vars => [Contract!Next]_(Contract!vars)
<1> SUFFICES ASSUME PoolInv, PoolInv', [Next]_vars PROVE Contract!Next \/ UNCHANGED Contract!vars
    OBVIOUS
<1>t. /\ work \in [Workers -> [pc : {"wait", "perform", "account", "exited"}, item : WorkItem \cup {NoItem}]]
      /\ work' \in [Workers -> [pc : {"wait", "perform", "account", "exited"}, item : WorkItem \cup {NoItem}]]
      BY DEF PoolInv, TypeOK
<1>q. ASSUME UNCHANGED <<queueVars, work, closing, queued, submitted, delivered>> PROVE UNCHANGED Contract!vars
      BY <1>q, SameQueue, SameActive, SilentStep DEF queueVars
<1>1. ASSUME NEW s \in Sources, Register(s) PROVE UNCHANGED Contract!vars
      BY <1>1, <1>q DEF Register
<1>2. ASSUME NEW r \in Requests, Submit(r) PROVE Contract!Next
      BY <1>2, RefineSubmit DEF Contract!Next
<1>3. ASSUME NEW r \in Requests, SubmitRefused(r) PROVE Contract!Next
      BY <1>3, RefineRefused DEF Contract!Next
<1>4. ASSUME NEW w \in Workers, WorkerSleeps(w) \/ SpuriousWake(w) PROVE UNCHANGED Contract!vars
      BY <1>4, <1>q DEF WorkerSleeps, SpuriousWake
<1>5. ASSUME NEW w \in Workers, WorkerExits(w) \/ Account(w) PROVE UNCHANGED Contract!vars
   <2>1. /\ work[w].pc # "perform" /\ work'[w].pc # "perform" /\ \A v \in Workers \ {w} : work'[v] = work[v]
         /\ UNCHANGED <<queueVars, closing, queued, submitted, delivered>>
         BY <1>5, <1>t DEF WorkerExits, Account
   <2> QED BY <2>1, <1>t, RefineIdle
<1>6. ASSUME NEW w \in Workers, WorkerTakes(w) PROVE Contract!Next
      BY <1>6, RefineTake DEF Contract!Next
<1>7. ASSUME NEW w \in Workers, Deliver(w) PROVE Contract!Next
      BY <1>7, RefineDeliver DEF Contract!Next
<1>8. ASSUME NEW c \in Callers, NEW last \in BOOLEAN, CloseQueue(c, last) PROVE Contract!Next
      BY <1>8, RefineClose DEF Contract!Next
<1>9. ASSUME NEW c \in Callers, CancelNext(c) PROVE Contract!Next
      BY <1>9, RefineCancel DEF Contract!Next
<1>10. ASSUME NEW c \in Callers, CountCancelled(c) PROVE UNCHANGED Contract!vars
      BY <1>10, RefineCount
<1>11. ASSUME NEW c \in Callers, Join(c) PROVE UNCHANGED Contract!vars
   <2>1. /\ queued = <<>> /\ Len(queued) = 0 /\ Len(queued') = 0
         /\ UNCHANGED <<ring, head, ringSize, shuttingDown, work, submitted, delivered>>
         BY <1>11 DEF Join, queueVars
   <2>2. Undelivered = {} /\ Undelivered' = {}
         BY <2>1, <1>11 DEF Undelivered, Join
   <2>3. Active' = Active
         BY <2>1, <2>2 DEF Active, Busy
   <2> QED BY <2>1, <2>3, SameQueue, SilentStep
<1>12. CASE UNCHANGED vars
      BY <1>12, <1>q DEF vars
<1>13. ASSUME NEW c \in Callers, Shutdown(c) \/ Destroy(c) PROVE Contract!Next \/ UNCHANGED Contract!vars
      BY <1>13, <1>8, <1>12, <1>q DEF Shutdown, Destroy
<1> QED BY <1>1, <1>2, <1>3, <1>4, <1>5, <1>6, <1>7, <1>9, <1>10, <1>11, <1>12, <1>13
        DEF Next, WorkerStep, ShutdownStep

\* MirrorBackend implements the contract of a FillBackend: the ring is a bounded first-in first-out queue,
\* refusals come only from a full or closed queue, and each accepted request gets at most one completion,
\* from the one thread that took it.
THEOREM MirrorBackendImplementsFillBackend == Spec => ImplementsFillBackend
<1>1. Init => Contract!Init
   <2> SUFFICES ASSUME Init PROVE Contract!Init
       OBVIOUS
   <2>1. PoolInv /\ ringSize = 0
         BY InitPool DEF Init
   <2>2. Queue = <<>>
         BY <2>1, QueueFacts
   <2>3. Active = {}
      <3>1. Busy = {} /\ Undelivered = {}
            BY DEF Init, Busy, Undelivered
      <3> QED BY <3>1 DEF Active
   <2> QED BY <2>2, <2>3 DEF Init, Contract!Init, Queue, Active
<1> QED BY <1>1, PoolAlways, RefineStep, PTL DEF Spec, ImplementsFillBackend, Contract!Spec
=============================================================================
