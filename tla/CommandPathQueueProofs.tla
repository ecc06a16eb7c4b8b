--------------------- MODULE CommandPathQueueProofs ---------------------
(***************************************************************************)
(* What TLAPS proves of CommandPath from the place of every command: it    *)
(* waits once in the two deques or is in the hands of one worker until it  *)
(* is settled.  That no command is forgotten, that a stop keeps its        *)
(* priority, that one worker keeps the order of a device, that a coalesced *)
(* request is fresh, and that the counters are right.                      *)
(***************************************************************************)
EXTENDS CommandPathProofs

Once(s) == \A i, j \in DOMAIN s : s[i] = s[j] => i = j

\* A command stands in the two deques at most once.
Apart == Once(stops) /\ Once(queue) /\ Elements(stops) \cap Elements(queue) = {}

Working(w) == pc[w] \in InDelivery

\* Where a command is: what waits was queued and is not settled, what was queued
\* and is not settled waits or is being delivered, a coalesced request is neither.
CommandsPlaced ==
    \A c \in Commands :
        /\ Waiting(c) => rank[c] # 0 /\ ~settled[c]
        /\ rank[c] # 0 /\ ~settled[c] => Waiting(c) \/ InFlight(c)
        /\ merged[c] # 0 => rank[c] = 0 /\ ~settled[c]

\* What a worker holds: in _deliver a command of its own that is open and does not
\* wait any more; elsewhere nothing, or a command that is settled already.
Open(c) == rank[c] # 0 /\ ~settled[c] /\ ~Waiting(c)
Free(w) == item[w] = None \/ settled[item[w]]
WorkersPlaced ==
    /\ \A w \in Workers : IF Working(w) THEN Open(item[w]) ELSE Free(w)
    /\ \A v, w \in Workers : Working(v) /\ Working(w) /\ item[v] = item[w] => v = w

PlacesInv == Apart /\ CommandsPlaced /\ WorkersPlaced

--------------------------------------------------------------------------
(* Lemmas about the two deques *)

\* The head of a sequence without repetitions is gone from its tail.
LEMMA TailPlaces ==
    ASSUME NEW T, NEW s \in Seq(T), s # <<>>, Once(s)
    PROVE  Once(Tail(s)) /\ Elements(Tail(s)) = Elements(s) \ {Head(s)} /\ Head(s) \in Elements(s)
<1>1. /\ Len(s) \in Nat /\ Len(s) # 0 /\ DOMAIN s = 1..Len(s)
      /\ DOMAIN Tail(s) = 1..(Len(s) - 1)
      /\ Head(s) = s[1]
      /\ \A i \in 1..(Len(s) - 1) : Tail(s)[i] = s[i + 1]
  OBVIOUS
<1>2. Once(Tail(s))
  BY <1>1 DEF Once
<1>3. Head(s) \in Elements(s)
  BY <1>1 DEF Elements
<1>4. ASSUME NEW e \in Elements(Tail(s)) PROVE e \in Elements(s) \ {Head(s)}
  <2>1. PICK i \in 1..(Len(s) - 1) : e = s[i + 1]
    BY <1>1, <1>4 DEF Elements
  <2>2. i + 1 \in DOMAIN s /\ 1 \in DOMAIN s /\ i + 1 # 1
    BY <1>1
  <2> QED BY <1>1, <2>1, <2>2 DEF Elements, Once
<1>5. ASSUME NEW e \in Elements(s), e # Head(s) PROVE e \in Elements(Tail(s))
  <2>1. PICK i \in 1..Len(s) : e = s[i]
    BY <1>1, <1>5 DEF Elements
  <2>2. i # 1 /\ i - 1 \in 1..(Len(s) - 1) /\ s[i] = Tail(s)[i - 1]
    BY <1>1, <1>5, <2>1
  <2> QED BY <1>1, <2>1, <2>2 DEF Elements
<1> QED BY <1>2, <1>3, <1>4, <1>5, Zenon

\* Appending a new element keeps a sequence without repetitions.
LEMMA AppendPlaces ==
    ASSUME NEW T, NEW s \in Seq(T), NEW e \in T, e \notin Elements(s), Once(s)
    PROVE  Once(Append(s, e)) /\ Elements(Append(s, e)) = Elements(s) \cup {e}
<1>1. /\ Len(s) \in Nat /\ DOMAIN s = 1..Len(s) /\ DOMAIN Append(s, e) = 1..(Len(s) + 1)
      /\ \A i \in 1..Len(s) : Append(s, e)[i] = s[i]
      /\ Append(s, e)[Len(s) + 1] = e
  OBVIOUS
<1>2. \A i \in 1..Len(s) : s[i] # e
  BY <1>1 DEF Elements
<1>3. Once(Append(s, e))
  BY <1>1, <1>2 DEF Once
<1> QED BY <1>3, ElementsAppend

\* t is s with c behind place i: up to i as before, c, and the rest one place on.
InsertedAt(s, i, c, t) ==
    /\ t \in Seq(Commands) /\ DOMAIN t = 1..(Len(s) + 1)
    /\ Len(s) \in Nat /\ DOMAIN s = 1..Len(s) /\ i \in 1..Len(s)
    /\ \A k \in 1..i : t[k] = s[k]
    /\ t[i + 1] = c
    /\ \A k \in (i + 1)..Len(s) : t[k + 1] = s[k]

\* That is what InsertBehind does.
LEMMA InsertShape ==
    ASSUME NEW s \in Seq(Commands), NEW i \in DOMAIN s, NEW c \in Commands
    PROVE  InsertedAt(s, i, c, InsertBehind(s, i, c))
<1> DEFINE front == SubSeq(s, 1, i)
           back == SubSeq(s, i + 1, Len(s))
           part == front \o <<c>>
           t == part \o back
<1>1. Len(s) \in Nat /\ DOMAIN s = 1..Len(s) /\ i \in 1..Len(s)
  BY LenProperties
<1>2. /\ front \in Seq(Commands) /\ Len(front) = i
      /\ \A k \in 1..i : front[k] = s[k]
  BY <1>1
<1>3. /\ back \in Seq(Commands) /\ Len(back) = Len(s) - i
      /\ \A k \in 1..(Len(s) - i) : back[k] = s[i + k]
  BY <1>1
<1>4. <<c>> \in Seq(Commands) /\ Len(<<c>>) = 1 /\ <<c>>[1] = c
  OBVIOUS
<1>5. InsertBehind(s, i, c) = t
  BY Zenon DEF InsertBehind
<1> HIDE DEF front, back
<1>6. /\ part \in Seq(Commands) /\ Len(part) = i + 1
      /\ \A k \in 1..i : part[k] = front[k]
      /\ part[i + 1] = c
  BY <1>1, <1>2, <1>4, ConcatProperties
<1> HIDE DEF part, t
<1>7. /\ t \in Seq(Commands) /\ Len(t) = Len(s) + 1
      /\ \A k \in 1..(i + 1) : t[k] = part[k]
      /\ \A k \in 1..(Len(s) - i) : t[k + (i + 1)] = back[k]
  <2>1. /\ t \in Seq(Commands) /\ Len(t) = (i + 1) + (Len(s) - i)
        /\ \A m \in 1..((i + 1) + (Len(s) - i)) :
                t[m] = IF m <= i + 1 THEN part[m] ELSE back[m - (i + 1)]
    <3>1. /\ t \in Seq(Commands) /\ Len(t) = Len(part) + Len(back)
          /\ \A m \in 1..(Len(part) + Len(back)) :
                t[m] = IF m <= Len(part) THEN part[m] ELSE back[m - Len(part)]
      BY <1>3, <1>6, ConcatProperties, Zenon DEF t
    <3> QED BY <1>3, <1>6, <3>1, Zenon
  <2>2. ASSUME NEW k \in 1..(Len(s) - i) PROVE t[k + (i + 1)] = back[k]
    <3>1. /\ k + (i + 1) \in 1..((i + 1) + (Len(s) - i)) /\ ~(k + (i + 1) <= i + 1)
          /\ (k + (i + 1)) - (i + 1) = k
      BY <1>1
    <3> QED BY <2>1, <3>1
  <2> QED BY <1>1, <2>1, <2>2
<1>8. DOMAIN t = 1..(Len(s) + 1)
  BY <1>7, LenProperties
<1>9. ASSUME NEW k \in 1..i PROVE t[k] = s[k]
  BY <1>1, <1>2, <1>6, <1>7
<1>10. t[i + 1] = c
  BY <1>1, <1>6, <1>7
<1>11. ASSUME NEW k \in (i + 1)..Len(s) PROVE t[k + 1] = s[k]
  <2>1. PICK j \in 1..(Len(s) - i) : k = i + j /\ k + 1 = j + (i + 1)
    <3>1. k - i \in 1..(Len(s) - i) /\ k = i + (k - i) /\ k + 1 = (k - i) + (i + 1)
      BY <1>1
    <3> QED BY <3>1
  <2> QED BY <1>3, <1>7, <2>1
<1>12. InsertedAt(s, i, c, t)
  BY <1>1, <1>7, <1>8, <1>9, <1>10, <1>11, Zenon DEF InsertedAt
<1> QED BY <1>5, <1>12, Zenon

\* Inserting a new element keeps a sequence without repetitions.
LEMMA InsertPlaces ==
    ASSUME NEW s \in Seq(Commands), NEW i \in DOMAIN s, NEW c \in Commands,
           c \notin Elements(s), Once(s)
    PROVE  /\ Once(InsertBehind(s, i, c))
           /\ Elements(InsertBehind(s, i, c)) = Elements(s) \cup {c}
<1> DEFINE t == InsertBehind(s, i, c)
<1>0. InsertedAt(s, i, c, t)
  BY InsertShape
<1> HIDE DEF t
<1>1. /\ DOMAIN t = 1..(Len(s) + 1)
      /\ Len(s) \in Nat /\ DOMAIN s = 1..Len(s) /\ i \in 1..Len(s)
      /\ \A k \in 1..i : t[k] = s[k]
      /\ t[i + 1] = c
      /\ \A k \in (i + 1)..Len(s) : t[k + 1] = s[k]
  BY <1>0, Zenon DEF InsertedAt
<1>2. \A k \in 1..Len(s) : s[k] # c
  BY <1>1 DEF Elements
<1>3. \A j, k \in 1..Len(s) : s[j] = s[k] => j = k
  BY <1>1, Zenon DEF Once
<1>4. ASSUME NEW k \in 1..(Len(s) + 1)
      PROVE  \/ k \in 1..i /\ t[k] = s[k]
             \/ k = i + 1 /\ t[k] = c
             \/ \E j \in (i + 1)..Len(s) : k = j + 1 /\ t[k] = s[j]
  <2>1. CASE k <= i + 1
    BY <1>1, <2>1
  <2>2. CASE k > i + 1
    <3>1. k - 1 \in (i + 1)..Len(s) /\ k = (k - 1) + 1
      BY <1>1, <2>2
    <3> QED BY <1>1, <3>1
  <2> QED BY <1>1, <2>1, <2>2
<1>5. ASSUME NEW j \in 1..(Len(s) + 1), NEW k \in 1..(Len(s) + 1), t[j] = t[k] PROVE j = k
  BY <1>1, <1>2, <1>3, <1>4, <1>5
<1>6. ASSUME NEW k \in 1..Len(s) PROVE s[k] \in Elements(t)
  <2>1. CASE k <= i
    BY <1>1, <2>1 DEF Elements
  <2>2. CASE k > i
    <3>1. k + 1 \in 1..(Len(s) + 1) /\ t[k + 1] = s[k]
      BY <1>1, <2>2
    <3> QED BY <1>1, <3>1 DEF Elements
  <2> QED BY <1>1, <2>1, <2>2
<1>7. c \in Elements(t)
  <2>1. i + 1 \in DOMAIN t
    BY <1>1
  <2> QED BY <1>1, <2>1 DEF Elements
<1>8. ASSUME NEW k \in 1..(Len(s) + 1) PROVE t[k] \in Elements(s) \cup {c}
  <2>1. \A j \in 1..Len(s) : s[j] \in Elements(s)
    BY <1>1 DEF Elements
  <2> QED BY <1>1, <1>4, <2>1
<1>9. Elements(t) = Elements(s) \cup {c}
  <2>1. Elements(t) \subseteq Elements(s) \cup {c}
    BY <1>1, <1>8 DEF Elements
  <2>2. Elements(s) \subseteq Elements(t)
    BY <1>1, <1>6 DEF Elements
  <2> QED BY <1>7, <2>1, <2>2, Zenon
<1> QED BY <1>1, <1>5, <1>9, Zenon DEF Once, t

\* A place in the queue: _put adds the command, and only that one.
LEMMA PutPlaces ==
    ASSUME stops \in Seq(Commands), queue \in Seq(Commands), Apart, NEW c \in Commands,
           ~Waiting(c), Put(c)
    PROVE  Apart' /\ \A d : Waiting(d)' <=> Waiting(d) \/ d = c
<1>0. c \notin Elements(stops) /\ c \notin Elements(queue) /\ Once(stops) /\ Once(queue)
  BY Zenon DEF Apart, Waiting
<1>1. CASE queue' = Append(queue, c) /\ UNCHANGED stops
  <2>1. Once(queue') /\ Elements(queue') = Elements(queue) \cup {c}
    BY <1>0, <1>1, AppendPlaces, Zenon
  <2> QED BY <1>0, <1>1, <2>1, Zenon DEF Apart, Waiting
<1>2. CASE stops' = Append(stops, c) /\ UNCHANGED queue
  <2>1. Once(stops') /\ Elements(stops') = Elements(stops) \cup {c}
    BY <1>0, <1>2, AppendPlaces, Zenon
  <2> QED BY <1>0, <1>2, <2>1, Zenon DEF Apart, Waiting
<1>3. ASSUME NEW i \in DOMAIN queue, queue' = InsertBehind(queue, i, c), UNCHANGED stops
      PROVE  Apart' /\ \A d : Waiting(d)' <=> Waiting(d) \/ d = c
  <2>1. Once(queue') /\ Elements(queue') = Elements(queue) \cup {c}
    BY <1>0, <1>3, InsertPlaces, Zenon
  <2> QED BY <1>0, <1>3, <2>1, Zenon DEF Apart, Waiting
<1> QED BY <1>1, <1>2, <1>3, Zenon DEF Put

\* _get takes a waiting command out of the queue, and only that one.
LEMMA GetPlaces ==
    ASSUME stops \in Seq(Commands), queue \in Seq(Commands), Apart, NEW c, Get(c)
    PROVE  /\ Apart' /\ c \in Commands /\ Waiting(c)
           /\ \A d : Waiting(d)' <=> Waiting(d) /\ d # c
<1>0. Once(stops) /\ Once(queue) /\ Elements(stops) \cap Elements(queue) = {}
  BY Zenon DEF Apart
<1>1. CASE stops # <<>> /\ c = Head(stops) /\ stops' = Tail(stops) /\ UNCHANGED queue
  <2>1. Once(stops') /\ Elements(stops') = Elements(stops) \ {c} /\ c \in Elements(stops)
    BY <1>0, <1>1, TailPlaces, Zenon
  <2>2. c \in Commands
    BY <1>1, HeadTailProperties, Zenon
  <2> QED BY <1>0, <1>1, <2>1, <2>2, Zenon DEF Apart, Waiting
<1>2. CASE stops = <<>> /\ queue # <<>> /\ c = Head(queue) /\ queue' = Tail(queue) /\ UNCHANGED stops
  <2>1. Once(queue') /\ Elements(queue') = Elements(queue) \ {c} /\ c \in Elements(queue)
    BY <1>0, <1>2, TailPlaces, Zenon
  <2>2. c \in Commands
    BY <1>2, HeadTailProperties, Zenon
  <2> QED BY <1>0, <1>2, <2>1, <2>2, Zenon DEF Apart, Waiting
<1> QED BY <1>1, <1>2, Zenon DEF Get

\* A drained queue has no place left.
LEMMA DrainedPlaces ==
    ASSUME stops' = <<>>, queue' = <<>>
    PROVE  Apart' /\ \A d : ~Waiting(d)'
<1>1. Elements(<<>>) = {} /\ Once(<<>>)
  BY DEF Elements, Once
<1> QED BY <1>1, Zenon DEF Apart, Waiting

\* What waits is what stands in one of the two deques.
LEMMA PendingWaits ==
    ASSUME stops \in Seq(Commands), queue \in Seq(Commands)
    PROVE  \A d : d \in Elements(Pending) <=> Waiting(d)
<1>1. /\ Len(stops) \in Nat /\ DOMAIN stops = 1..Len(stops)
      /\ Len(queue) \in Nat /\ DOMAIN queue = 1..Len(queue)
      /\ DOMAIN Pending = 1..(Len(stops) + Len(queue))
      /\ \A k \in 1..(Len(stops) + Len(queue)) :
            Pending[k] = IF k <= Len(stops) THEN stops[k] ELSE queue[k - Len(stops)]
  BY LenProperties, ConcatProperties DEF Pending
<1>2. ASSUME NEW k \in 1..(Len(stops) + Len(queue)) PROVE Waiting(Pending[k])
  <2>1. CASE k <= Len(stops)
    BY <1>1, <2>1 DEF Waiting, Elements
  <2>2. CASE k > Len(stops)
    <3>1. k - Len(stops) \in DOMAIN queue /\ Pending[k] = queue[k - Len(stops)]
      BY <1>1, <2>2
    <3> QED BY <3>1 DEF Waiting, Elements
  <2> QED BY <1>1, <2>1, <2>2
<1>3. ASSUME NEW k \in 1..Len(stops) PROVE stops[k] \in Elements(Pending)
  <2>1. k \in DOMAIN Pending /\ Pending[k] = stops[k]
    BY <1>1
  <2> QED BY <2>1 DEF Elements
<1>4. ASSUME NEW k \in 1..Len(queue) PROVE queue[k] \in Elements(Pending)
  <2>1. k + Len(stops) \in DOMAIN Pending /\ Pending[k + Len(stops)] = queue[k]
    <3>1. /\ k + Len(stops) \in 1..(Len(stops) + Len(queue)) /\ ~(k + Len(stops) <= Len(stops))
          /\ (k + Len(stops)) - Len(stops) = k
      BY <1>1
    <3> QED BY <1>1, <3>1
  <2> QED BY <2>1 DEF Elements
<1> QED BY <1>1, <1>2, <1>3, <1>4, Zenon DEF Waiting, Elements

\* _settle sets the flag of every command it is called for, and of no other.
LEMMA SettleMarks ==
    ASSUME settled \in [Commands -> BOOLEAN], NEW S, NEW report, Settle(S, report)
    PROVE  \A c \in Commands : settled'[c] <=> settled[c] \/ c \in S
BY Zenon DEF Settle

--------------------------------------------------------------------------
(* The place of every command *)

\* A step that leaves the queue and the reports alone, and in which no worker begins
\* or ends a delivery, leaves every command in its place.
LEMMA QuietStep ==
    ASSUME PlacesInv, UNCHANGED <<stops, queue, rank, merged, settled>>,
           \A v \in Workers : /\ Working(v)' <=> Working(v)
                              /\ item'[v] = item[v] \/ (~Working(v) /\ item'[v] = None)
    PROVE  PlacesInv'
<1>1. \A d : Waiting(d)' <=> Waiting(d)
  BY Zenon DEF Waiting
<1>2. Apart'
  BY Zenon DEF PlacesInv, Apart
<1>3. \A d \in Commands : InFlight(d) => InFlight(d)'
  BY Zenon DEF InFlight, Working
<1>4. CommandsPlaced'
  BY <1>1, <1>3, Zenon DEF PlacesInv, CommandsPlaced
<1>5. WorkersPlaced'
  BY <1>1, Zenon DEF PlacesInv, WorkersPlaced, Open, Free
<1> QED BY <1>2, <1>4, <1>5, Zenon DEF PlacesInv

\* A worker that ends a delivery with a report for its command.
LEMMA ReleaseStep ==
    ASSUME TypesInv, PlacesInv, UNCHANGED <<stops, queue, rank, merged>>, NEW w \in Workers,
           NEW S, NEW report, Settle(S, report),
           S \cap Commands = {item[w]} \cap Commands,
           ~Working(w)', item'[w] \in {None, item[w]},
           \A v \in Workers \ {w} : (Working(v)' <=> Working(v)) /\ item'[v] = item[v]
    PROVE  PlacesInv'
<1>0. \A c \in Commands : settled'[c] <=> settled[c] \/ c = item[w]
  <2>1. settled \in [Commands -> BOOLEAN]
    BY Zenon DEF TypesInv, PathFlagsOK
  <2> QED BY <2>1, SettleMarks, Zenon
<1>1. \A d : Waiting(d)' <=> Waiting(d)
  BY Zenon DEF Waiting
<1>2. Apart'
  BY Zenon DEF PlacesInv, Apart
<1>3. \A v \in Workers : item[v] \in Commands \cup {None} /\ (Working(v) => item[v] \in Commands)
  BY Zenon DEF TypesInv, PathRangesOK, Holding, Working
<1>4. \A d \in Commands : InFlight(d) => InFlight(d)' \/ d = item[w]
  BY Zenon DEF InFlight, Working
<1>5. ASSUME item[w] \in Commands PROVE settled[item[w]] \/ Open(item[w])
  <2>1. item[w] # None
    BY <1>5, PathAssumption, Zenon DEF PathAssumption
  <2> QED BY <2>1, Zenon DEF PlacesInv, WorkersPlaced, Free
<1>6. CommandsPlaced'
  <2> SUFFICES ASSUME NEW c \in Commands
               PROVE  /\ Waiting(c)' => rank'[c] # 0 /\ ~settled'[c]
                      /\ rank'[c] # 0 /\ ~settled'[c] => Waiting(c)' \/ InFlight(c)'
                      /\ merged'[c] # 0 => rank'[c] = 0 /\ ~settled'[c]
    BY Zenon DEF CommandsPlaced
  <2>1. /\ Waiting(c) => rank[c] # 0 /\ ~settled[c]
        /\ rank[c] # 0 /\ ~settled[c] => Waiting(c) \/ InFlight(c)
        /\ merged[c] # 0 => rank[c] = 0 /\ ~settled[c]
    BY Zenon DEF PlacesInv, CommandsPlaced
  <2> QED BY <1>0, <1>1, <1>4, <1>5, <2>1, Zenon DEF Open
<1>7. WorkersPlaced'
  <2>1. ASSUME NEW v \in Workers PROVE IF Working(v)' THEN Open(item[v])' ELSE Free(v)'
    <3>1. CASE v = w
      BY <1>0, <1>3, <3>1, Zenon DEF Free
    <3>2. CASE v # w /\ Working(v)
      <4>1. item'[v] = item[v] /\ item[v] \in Commands /\ Open(item[v]) /\ Working(v)'
        BY <1>3, <3>2, Zenon DEF PlacesInv, WorkersPlaced
      <4>2. item[v] # item[w]
        <5>1. CASE Working(w)
          BY <3>2, <5>1, Zenon DEF PlacesInv, WorkersPlaced
        <5>2. CASE ~Working(w)
          <6>1. item[v] # None /\ ~settled[item[v]]
            BY <4>1, PathAssumption, Zenon DEF PathAssumption, Open
          <6> QED BY <5>2, <6>1, Zenon DEF PlacesInv, WorkersPlaced, Free
        <5> QED BY <5>1, <5>2
      <4>3. ~settled'[item'[v]]
        BY <1>0, <4>1, <4>2, Zenon DEF Open
      <4> QED BY <1>1, <4>1, <4>3, Zenon DEF Open
    <3>3. CASE v # w /\ ~Working(v)
      <4>1. Free(v) /\ item'[v] = item[v] /\ ~Working(v)'
        BY <3>3, Zenon DEF PlacesInv, WorkersPlaced
      <4> QED BY <1>0, <1>3, <4>1, Zenon DEF Free
    <3> QED BY <3>1, <3>2, <3>3
  <2>2. \A u, v \in Workers : Working(u)' /\ Working(v)' /\ item'[u] = item'[v] => u = v
    BY Zenon DEF PlacesInv, WorkersPlaced
  <2> QED BY <2>1, <2>2, Zenon DEF WorkersPlaced
<1> QED BY <1>2, <1>6, <1>7, Zenon DEF PlacesInv

\* _discard_queued settles what waits, and the commands of "also" with it.
LEMMA DiscardStep ==
    ASSUME TypesInv, PlacesInv, NEW S, DiscardQueuedAnd(S),
           \A v \in Workers : \/ Working(v) /\ Working(v)' /\ item'[v] = item[v] /\ item[v] \notin S
                              \/ ~Working(v) /\ ~Working(v)' /\ item'[v] = item[v]
                              \/ ~Working(v)' /\ item'[v] = None,
           \A d \in S \cap Commands : rank[d] # 0 /\ ~settled[d],
           \A v \in Workers : Working(v) /\ ~Working(v)' => item[v] \in S
    PROVE  PlacesInv'
<1>0. \A c \in Commands : settled'[c] <=> settled[c] \/ Waiting(c) \/ c \in S
  <2>1. settled \in [Commands -> BOOLEAN] /\ stops \in Seq(Commands) /\ queue \in Seq(Commands)
    BY Zenon DEF TypesInv, PathFlagsOK, PathRangesOK
  <2>2. Settle(Elements(Pending) \cup S, Dropped)
    BY Zenon DEF DiscardQueuedAnd
  <2>3. \A c \in Commands : settled'[c] <=> settled[c] \/ c \in Elements(Pending) \cup S
    BY <2>1, <2>2, SettleMarks, Zenon
  <2>4. \A c : c \in Elements(Pending) <=> Waiting(c)
    BY <2>1, PendingWaits, Zenon
  <2> QED BY <2>3, <2>4, Zenon
<1>1. Apart' /\ \A d : ~Waiting(d)'
  BY DrainedPlaces, Zenon DEF DiscardQueuedAnd
<1>2. UNCHANGED <<rank, merged>>
  BY Zenon DEF DiscardQueuedAnd
<1>3. \A v \in Workers : item[v] \in Commands \cup {None} /\ (Working(v) => item[v] \in Commands)
  BY Zenon DEF TypesInv, PathRangesOK, Holding, Working
<1>4. \A d \in Commands : InFlight(d) => InFlight(d)' \/ d \in S
  BY Zenon DEF InFlight, Working
<1>5. CommandsPlaced'
  <2> SUFFICES ASSUME NEW c \in Commands
               PROVE  /\ Waiting(c)' => rank'[c] # 0 /\ ~settled'[c]
                      /\ rank'[c] # 0 /\ ~settled'[c] => Waiting(c)' \/ InFlight(c)'
                      /\ merged'[c] # 0 => rank'[c] = 0 /\ ~settled'[c]
    BY Zenon DEF CommandsPlaced
  <2>1. /\ Waiting(c) => rank[c] # 0 /\ ~settled[c]
        /\ rank[c] # 0 /\ ~settled[c] => Waiting(c) \/ InFlight(c)
        /\ merged[c] # 0 => rank[c] = 0 /\ ~settled[c]
    BY Zenon DEF PlacesInv, CommandsPlaced
  <2> QED BY <1>0, <1>1, <1>2, <1>4, <2>1, Zenon
<1>6. WorkersPlaced'
  <2>1. ASSUME NEW v \in Workers PROVE IF Working(v)' THEN Open(item[v])' ELSE Free(v)'
    <3>1. CASE Working(v)'
      <4>1. Working(v) /\ item'[v] = item[v] /\ item[v] \notin S
        BY <3>1, Zenon
      <4>2. item[v] \in Commands /\ Open(item[v])
        BY <1>3, <4>1, Zenon DEF PlacesInv, WorkersPlaced
      <4>3. ~settled'[item'[v]]
        BY <1>0, <4>1, <4>2, Zenon DEF Open
      <4> QED BY <1>1, <1>2, <3>1, <4>1, <4>2, <4>3, Zenon DEF Open
    <3>2. CASE ~Working(v)' /\ item'[v] = None
      BY <3>2, Zenon DEF Free
    <3>3. CASE ~Working(v)' /\ item'[v] # None
      <4>1. ~Working(v) /\ item'[v] = item[v]
        BY <3>3, Zenon
      <4>2. item[v] \in Commands /\ settled[item[v]]
        BY <1>3, <3>3, <4>1, Zenon DEF PlacesInv, WorkersPlaced, Free
      <4> QED BY <1>0, <3>3, <4>1, <4>2, Zenon DEF Free
    <3> QED BY <3>1, <3>2, <3>3
  <2>2. \A u, v \in Workers : Working(u)' /\ Working(v)' /\ item'[u] = item'[v] => u = v
    BY Zenon DEF PlacesInv, WorkersPlaced
  <2> QED BY <2>1, <2>2, Zenon DEF WorkersPlaced
<1> QED BY <1>1, <1>5, <1>6, Zenon DEF PlacesInv

\* send() and send_status_request() put a new command in its place.
LEMMA SendStep ==
    ASSUME TypesInv, PlacesInv, NEW c \in Commands, Send(c)
    PROVE  PlacesInv'
<1> USE DEF TypesInv, PathFlagsOK, PathRangesOK
<1>0. /\ rank[c] = 0 /\ merged[c] = 0 /\ ~settled[c] /\ ~Waiting(c)
      /\ UNCHANGED <<pc, item>>
      /\ \A v \in Workers : Working(v)' <=> Working(v)
  <2>1. Untouched(c) /\ UNCHANGED <<pc, item>>
    BY Zenon DEF Send, SendCoalesced, SendRefused, SendQueued, workerVars
  <2> QED BY <2>1, Zenon DEF Untouched, PlacesInv, CommandsPlaced, Working
<1>1. CASE SendCoalesced(c)
  <2>1. UNCHANGED <<stops, queue, rank, settled>>
    BY <1>1, Zenon DEF SendCoalesced, settleVars
  <2>2. \A d \in Commands : merged'[d] # 0 => merged[d] # 0 \/ d = c
    BY <1>1 DEF SendCoalesced
  <2>3. \A d : Waiting(d)' <=> Waiting(d)
    BY <2>1, Zenon DEF Waiting
  <2>4. \A d \in Commands : InFlight(d)' <=> InFlight(d)
    BY <1>0, Zenon DEF InFlight
  <2>5. Apart'
    BY <2>1, Zenon DEF PlacesInv, Apart
  <2>6. CommandsPlaced'
    BY <1>0, <2>1, <2>2, <2>3, <2>4, Zenon DEF PlacesInv, CommandsPlaced
  <2>7. WorkersPlaced'
    BY <1>0, <2>1, <2>3, Zenon DEF PlacesInv, WorkersPlaced, Open, Free
  <2> QED BY <2>5, <2>6, <2>7, Zenon DEF PlacesInv
<1>2. CASE SendRefused(c)
  <2>1. UNCHANGED <<stops, queue, rank, merged>>
    BY <1>2, Zenon DEF SendRefused, queueVars
  <2>2. \A d \in Commands : settled'[d] <=> settled[d] \/ d = c
    <3>1. \A d \in Commands : settled'[d] <=> settled[d] \/ d \in {c}
      BY <1>2, SettleMarks, Zenon DEF SendRefused
    <3> QED BY <3>1, Zenon
  <2>3. \A d : Waiting(d)' <=> Waiting(d)
    BY <2>1, Zenon DEF Waiting
  <2>4. \A d \in Commands : InFlight(d)' <=> InFlight(d)
    BY <1>0, Zenon DEF InFlight
  <2>5. Apart'
    BY <2>1, Zenon DEF PlacesInv, Apart
  <2>6. CommandsPlaced'
    BY <1>0, <2>1, <2>2, <2>3, <2>4, Zenon DEF PlacesInv, CommandsPlaced
  <2>7. ASSUME NEW v \in Workers PROVE IF Working(v)' THEN Open(item[v])' ELSE Free(v)'
    <3>1. CASE Working(v)
      <4>1. item[v] \in Commands /\ Open(item[v]) /\ item[v] # c
        BY <1>0, <3>1, Zenon DEF PlacesInv, WorkersPlaced, Open, Holding, Working
      <4> QED BY <1>0, <2>1, <2>2, <2>3, <3>1, <4>1, Zenon DEF Open
    <3>2. CASE ~Working(v)
      BY <1>0, <2>2, <3>2, Zenon DEF PlacesInv, WorkersPlaced, Free
    <3> QED BY <3>1, <3>2
  <2>8. WorkersPlaced'
    BY <1>0, <2>7, Zenon DEF PlacesInv, WorkersPlaced
  <2> QED BY <2>5, <2>6, <2>8, Zenon DEF PlacesInv
<1>3. CASE SendQueued(c)
  <2>1. UNCHANGED <<merged, settled>>
    BY <1>3, Zenon DEF SendQueued, settleVars
  <2>2. /\ \A d \in Commands : d # c => rank'[d] = rank[d]
        /\ rank'[c] # 0
    BY <1>3 DEF SendQueued
  <2>3. Apart' /\ \A d : Waiting(d)' <=> Waiting(d) \/ d = c
    BY <1>0, <1>3, PutPlaces, Zenon DEF SendQueued, PlacesInv
  <2>4. \A d \in Commands : InFlight(d)' <=> InFlight(d)
    BY <1>0, Zenon DEF InFlight
  <2>5. CommandsPlaced'
    <3> SUFFICES ASSUME NEW d \in Commands
                 PROVE  /\ Waiting(d)' => rank'[d] # 0 /\ ~settled'[d]
                        /\ rank'[d] # 0 /\ ~settled'[d] => Waiting(d)' \/ InFlight(d)'
                        /\ merged'[d] # 0 => rank'[d] = 0 /\ ~settled'[d]
      BY Zenon DEF CommandsPlaced
    <3>1. CASE d = c
      BY <1>0, <2>1, <2>2, <2>3, <3>1, Zenon
    <3>2. CASE d # c
      BY <2>1, <2>2, <2>3, <2>4, <3>2, Zenon DEF PlacesInv, CommandsPlaced
    <3> QED BY <3>1, <3>2
  <2>6. ASSUME NEW v \in Workers PROVE IF Working(v)' THEN Open(item[v])' ELSE Free(v)'
    <3>1. CASE Working(v)
      <4>1. item[v] \in Commands /\ Open(item[v]) /\ item[v] # c
        BY <1>0, <3>1, Zenon DEF PlacesInv, WorkersPlaced, Open, Holding, Working
      <4> QED BY <1>0, <2>1, <2>2, <2>3, <3>1, <4>1, Zenon DEF Open
    <3>2. CASE ~Working(v)
      BY <1>0, <2>1, <3>2, Zenon DEF PlacesInv, WorkersPlaced, Free
    <3> QED BY <3>1, <3>2
  <2>7. WorkersPlaced'
    BY <1>0, <2>6, Zenon DEF PlacesInv, WorkersPlaced
  <2> QED BY <2>3, <2>5, <2>7, Zenon DEF PlacesInv
<1> QED BY <1>1, <1>2, <1>3, Zenon DEF Send

\* A worker takes the head of the queue into its hands, or drops it at once.
LEMMA DequeueStep ==
    ASSUME TypesInv, PlacesInv, NEW w \in Workers, Dequeue(w) \/ DequeueExpired(w)
    PROVE  PlacesInv'
<1> USE DEF TypesInv, PathFlagsOK, PathRangesOK
<1>0. PICK c : /\ Get(c)
               /\ \/ Dequeue(w) /\ item' = [item EXCEPT ![w] = c]
                  \/ DequeueExpired(w) /\ Settle({c}, Dropped)
  BY Zenon DEF Dequeue, DequeueExpired
<1>1. /\ Apart' /\ c \in Commands /\ Waiting(c)
      /\ \A d : Waiting(d)' <=> Waiting(d) /\ d # c
  BY <1>0, GetPlaces, Zenon DEF PlacesInv
<1>2. UNCHANGED <<rank, merged>> /\ ~Working(w)
  BY DEF Dequeue, DequeueExpired, Working, InDelivery
<1>3. \A v \in Workers : Working(v) => item[v] \in Commands /\ Open(item[v]) /\ item[v] # c
  BY <1>1, Zenon DEF PlacesInv, WorkersPlaced, Open, Holding, Working
<1>4. rank[c] # 0 /\ ~settled[c] /\ merged[c] = 0
  BY <1>1, Zenon DEF PlacesInv, CommandsPlaced
<1>5. CASE Dequeue(w) /\ item' = [item EXCEPT ![w] = c]
  <2>1. UNCHANGED settled
    BY <1>5, Zenon DEF Dequeue, settleVars
  <2>2. Working(w)' /\ item'[w] = c
    BY <1>5 DEF Dequeue, Goto, Working, InDelivery
  <2>3. \A v \in Workers \ {w} : (Working(v)' <=> Working(v)) /\ item'[v] = item[v]
    BY <1>5 DEF Dequeue, Goto, Working, InDelivery
  <2>4. \A d \in Commands : InFlight(d) => InFlight(d)'
    BY <1>2, <2>3, Zenon DEF InFlight, Working
  <2>5. InFlight(c)'
    BY <2>2, Zenon DEF InFlight, Working
  <2>6. CommandsPlaced'
    <3> SUFFICES ASSUME NEW d \in Commands
                 PROVE  /\ Waiting(d)' => rank'[d] # 0 /\ ~settled'[d]
                        /\ rank'[d] # 0 /\ ~settled'[d] => Waiting(d)' \/ InFlight(d)'
                        /\ merged'[d] # 0 => rank'[d] = 0 /\ ~settled'[d]
      BY Zenon DEF CommandsPlaced
    <3>1. CASE d = c
      BY <1>1, <1>2, <1>4, <2>1, <2>5, <3>1, Zenon
    <3>2. CASE d # c
      BY <1>1, <1>2, <2>1, <2>4, <3>2, Zenon DEF PlacesInv, CommandsPlaced
    <3> QED BY <3>1, <3>2
  <2>7. ASSUME NEW v \in Workers PROVE IF Working(v)' THEN Open(item[v])' ELSE Free(v)'
    <3>1. CASE v = w
      <4>1. Open(c)'
        BY <1>1, <1>2, <1>4, <2>1, Zenon DEF Open
      <4> QED BY <2>2, <3>1, <4>1, Zenon
    <3>2. CASE v # w /\ Working(v)
      BY <1>1, <1>2, <1>3, <2>1, <2>3, <3>2, Zenon DEF Open
    <3>3. CASE v # w /\ ~Working(v)
      BY <2>1, <2>3, <3>3, Zenon DEF PlacesInv, WorkersPlaced, Free
    <3> QED BY <3>1, <3>2, <3>3
  <2>8. \A u, v \in Workers : Working(u)' /\ Working(v)' /\ item'[u] = item'[v] => u = v
    BY <1>3, <2>2, <2>3, Zenon DEF PlacesInv, WorkersPlaced
  <2>9. WorkersPlaced'
    BY <2>7, <2>8, Zenon DEF WorkersPlaced
  <2> QED BY <1>1, <2>6, <2>9, Zenon DEF PlacesInv
<1>6. CASE DequeueExpired(w) /\ Settle({c}, Dropped)
  <2>1. \A d \in Commands : settled'[d] <=> settled[d] \/ d = c
    <3>1. \A d \in Commands : settled'[d] <=> settled[d] \/ d \in {c}
      BY <1>6, SettleMarks, Zenon
    <3> QED BY <3>1, Zenon
  <2>2. item' = item /\ \A v \in Workers : Working(v)' <=> Working(v)
    BY <1>6 DEF DequeueExpired, NextRound, Goto, Working, InDelivery
  <2>3. \A d \in Commands : InFlight(d)' <=> InFlight(d)
    BY <2>2, Zenon DEF InFlight, Working
  <2>4. CommandsPlaced'
    <3> SUFFICES ASSUME NEW d \in Commands
                 PROVE  /\ Waiting(d)' => rank'[d] # 0 /\ ~settled'[d]
                        /\ rank'[d] # 0 /\ ~settled'[d] => Waiting(d)' \/ InFlight(d)'
                        /\ merged'[d] # 0 => rank'[d] = 0 /\ ~settled'[d]
      BY Zenon DEF CommandsPlaced
    <3>1. CASE d = c
      BY <1>1, <1>2, <1>4, <2>1, <3>1, Zenon
    <3>2. CASE d # c
      BY <1>1, <1>2, <2>1, <2>3, <3>2, Zenon DEF PlacesInv, CommandsPlaced
    <3> QED BY <3>1, <3>2
  <2>5. ASSUME NEW v \in Workers PROVE IF Working(v)' THEN Open(item[v])' ELSE Free(v)'
    <3>1. CASE Working(v)
      BY <1>1, <1>2, <1>3, <2>1, <2>2, <3>1, Zenon DEF Open
    <3>2. CASE ~Working(v)
      BY <2>1, <2>2, <3>2, Zenon DEF PlacesInv, WorkersPlaced, Free
    <3> QED BY <3>1, <3>2
  <2>6. WorkersPlaced'
    BY <2>2, <2>5, Zenon DEF PlacesInv, WorkersPlaced
  <2> QED BY <1>1, <2>4, <2>6, Zenon DEF PlacesInv
<1> QED BY <1>0, <1>5, <1>6

\* Every step of a worker keeps the places.
LEMMA WorkerPlaces ==
    ASSUME TypesInv, PlacesInv, NEW w \in Workers, WorkerStep(w) \/ GatewayDropsSession(w)
    PROVE  PlacesInv'
<1>0. pc \in [Workers -> {"new", "get", "open", "send", "answer", "backoff", "stopped"}]
      /\ item \in [Workers -> Commands \cup {None}]
  BY Zenon DEF TypesInv, PathRangesOK
<1> USE DEF Goto, Release, Working, InDelivery
<1>1. CASE StartWorker(w) \/ IdleTimeout(w) \/ WakeFromBackoff(w) \/ GatewayDropsSession(w)
           \/ Opened(w) \/ Write(w) \/ RetryAttempt(w)
  <2>1. UNCHANGED <<stops, queue, rank, merged, settled>>
    BY <1>1, Zenon DEF StartWorker, IdleTimeout, WakeFromBackoff, GatewayDropsSession, Opened,
                       Write, RetryAttempt, queueVars, settleVars
  <2>2. ASSUME NEW v \in Workers
        PROVE  /\ Working(v)' <=> Working(v)
               /\ item'[v] = item[v] \/ (~Working(v) /\ item'[v] = None)
    <3>1. CASE StartWorker(w) \/ IdleTimeout(w) \/ GatewayDropsSession(w)
      BY <1>0, <3>1 DEF StartWorker, IdleTimeout, GatewayDropsSession, NextRound
    <3>2. CASE WakeFromBackoff(w)
      BY <1>0, <3>2 DEF WakeFromBackoff, NextRound
    <3>3. CASE Opened(w) \/ Write(w) \/ RetryAttempt(w)
      BY <1>0, <3>3 DEF Opened, Write, RetryAttempt
    <3> QED BY <1>1, <3>1, <3>2, <3>3, Zenon
  <2>3. \A v \in Workers : /\ Working(v)' <=> Working(v)
                           /\ item'[v] = item[v] \/ (~Working(v) /\ item'[v] = None)
    BY <2>2, Zenon
  <2> QED BY <2>1, <2>3, QuietStep, Zenon
<1>2. CASE Dequeue(w) \/ DequeueExpired(w)
  BY <1>2, DequeueStep, Zenon
<1>3. CASE Answered(w) \/ LastAttemptFails(w) \/ UnexpectedError(w) \/ Cancelled(w)
  <2>1. UNCHANGED <<stops, queue, rank, merged>>
    BY <1>3, Zenon DEF Answered, LastAttemptFails, UnexpectedError, GiveUp, Cancelled, queueVars
  <2>2. /\ ~Working(w)' /\ item'[w] \in {None, item[w]}
        /\ \A v \in Workers \ {w} : (Working(v)' <=> Working(v)) /\ item'[v] = item[v]
    <3>1. CASE Answered(w)
      BY <1>0, <3>1 DEF Answered, NextRound
    <3>2. CASE GiveUp(w)
      BY <1>0, <3>2 DEF GiveUp, BackoffOrStop
    <3>3. CASE Cancelled(w)
      BY <1>0, <3>3 DEF Cancelled
    <3> QED BY <1>3, <3>1, <3>2, <3>3, Zenon DEF LastAttemptFails, UnexpectedError
  <2>3. PICK S, report : Settle(S, report) /\ S \in {{item[w]}, {item[w]} \ {None}}
    BY <1>3, Zenon DEF Answered, LastAttemptFails, UnexpectedError, GiveUp, Cancelled
  <2>4. S \cap Commands = {item[w]} \cap Commands
    BY <2>3, PathAssumption DEF PathAssumption
  <2> QED BY <2>1, <2>2, <2>3, <2>4, ReleaseStep, Zenon DEF Working, InDelivery
<1>4. CASE CommandAuthFailure(w)
  <2>1. DiscardQueuedAnd({item[w]}) /\ Working(w)
    BY <1>4 DEF CommandAuthFailure
  <2>2. /\ ~Working(w)' /\ item'[w] = None
        /\ \A v \in Workers \ {w} : (Working(v)' <=> Working(v)) /\ item'[v] = item[v]
    BY <1>0, <1>4 DEF CommandAuthFailure
  <2>3. \A v \in Workers \ {w} : Working(v) => item[v] # item[w]
    BY <2>1, Zenon DEF PlacesInv, WorkersPlaced
  <2>4. rank[item[w]] # 0 /\ ~settled[item[w]]
    BY <2>1, Zenon DEF PlacesInv, WorkersPlaced, Open
  <2> HIDE DEF Working, InDelivery
  <2>5. \A v \in Workers : \/ Working(v) /\ Working(v)' /\ item'[v] = item[v] /\ item[v] \notin {item[w]}
                           \/ ~Working(v) /\ ~Working(v)' /\ item'[v] = item[v]
                           \/ ~Working(v)' /\ item'[v] = None
    BY <2>2, <2>3, Zenon
  <2>6. \A v \in Workers : Working(v) /\ ~Working(v)' => item[v] \in {item[w]}
    BY <2>2, Zenon
  <2>7. \A d \in {item[w]} \cap Commands : rank[d] # 0 /\ ~settled[d]
    BY <2>4, Zenon
  <2> QED BY <2>1, <2>5, <2>6, <2>7, DiscardStep, Zenon
<1> QED BY <1>1, <1>2, <1>3, <1>4, Zenon DEF WorkerStep

\* The places are inductive.
LEMMA PlacesAlways == PathSpec => []PlacesInv
<1>1. PathInit => PlacesInv
  <2> SUFFICES ASSUME PathInit PROVE PlacesInv
    OBVIOUS
  <2>1. Apart /\ \A c : ~Waiting(c)
    <3>1. Elements(<<>>) = {} /\ Once(<<>>)
      BY DEF Elements, Once
    <3> QED BY <3>1, Zenon DEF PathInit, Apart, Waiting
  <2>2. CommandsPlaced
    BY <2>1 DEF PathInit, CommandsPlaced
  <2>3. WorkersPlaced
    BY DEF PathInit, WorkersPlaced, Working, InDelivery, Free
  <2> QED BY <2>1, <2>2, <2>3, Zenon DEF PlacesInv
<1>2. TypesInv /\ PlacesInv /\ [PathNext]_pathVars => PlacesInv'
  <2> SUFFICES ASSUME TypesInv, PlacesInv, [PathNext]_pathVars PROVE PlacesInv'
    OBVIOUS
  <2>1. CASE UNCHANGED pathVars \/ CloseListener
    <3>1. UNCHANGED <<stops, queue, rank, merged, settled, pc, item>>
      BY <2>1, Zenon DEF pathVars, CloseListener, queueVars, settleVars, workerVars
    <3> QED BY <3>1, QuietStep, Zenon DEF Working
  <2>2. CASE EventAuthFailure \/ CloseFinish
    <3>1. DiscardQueuedAnd({}) /\ UNCHANGED <<pc, item>>
      BY <2>2, Zenon DEF EventAuthFailure, CloseFinish, workerVars
    <3>2. \A v \in Workers : (Working(v)' <=> Working(v)) /\ item'[v] = item[v]
      BY <3>1, Zenon DEF Working
    <3> QED BY <3>1, <3>2, DiscardStep, Zenon
  <2>3. ASSUME NEW c \in Commands, Send(c) PROVE PlacesInv'
    BY <2>3, SendStep
  <2>4. ASSUME NEW w \in Workers, WorkerStep(w) \/ GatewayDropsSession(w) PROVE PlacesInv'
    BY <2>4, WorkerPlaces
  <2> QED BY <2>1, <2>2, <2>3, <2>4, Zenon DEF PathNext
<1> QED BY <1>1, <1>2, TypesAlways, PTL DEF PathSpec

\* No accepted command is forgotten, and none that was reported is replayed (gw-11):
\* a queued command waits or is in the hands of a worker until its caller is told,
\* for any queue bound and any interleaving of the workers, drops and a shutdown.
THEOREM NoneForgotten == PathSpec => []NothingForgotten
<1>1. TypesInv /\ PlacesInv => NothingForgotten
  <2> SUFFICES ASSUME TypesInv, PlacesInv, NEW c \in Commands, rank[c] # 0
               PROVE  settled[c] <=> ~(Waiting(c) \/ InFlight(c))
    BY Zenon DEF NothingForgotten
  <2>1. Waiting(c) => ~settled[c]
    BY Zenon DEF PlacesInv, CommandsPlaced
  <2>2. InFlight(c) => ~settled[c]
    BY Zenon DEF InFlight, PlacesInv, WorkersPlaced, Working, Open
  <2>3. ~settled[c] => Waiting(c) \/ InFlight(c)
    BY Zenon DEF PlacesInv, CommandsPlaced
  <2> QED BY <2>1, <2>2, <2>3, Zenon
<1> QED BY <1>1, TypesAlways, PlacesAlways, PTL

--------------------------------------------------------------------------
(* The order of the queue *)

\* What a step may do to the queue: nothing, drain it, take the next command out, or
\* put a new one in.
QueueMoves ==
    \/ UNCHANGED <<stops, queue, rank, ticket>>
    \/ stops' = <<>> /\ queue' = <<>> /\ UNCHANGED <<rank, ticket>>
    \/ \E c : Get(c) /\ UNCHANGED <<rank, ticket>>
    \/ \E c \in Commands : SendQueued(c)

\* QueueMoves covers PathNext.
LEMMA StepMovesQueue == [PathNext]_pathVars => QueueMoves
<1> SUFFICES ASSUME [PathNext]_pathVars PROVE QueueMoves
  OBVIOUS
<1>1. CASE UNCHANGED pathVars \/ CloseListener
  BY <1>1, Zenon DEF pathVars, CloseListener, queueVars, QueueMoves
<1>2. CASE EventAuthFailure \/ CloseFinish
  <2>1. DiscardQueuedAnd({})
    BY <1>2, Zenon DEF EventAuthFailure, CloseFinish
  <2>2. stops' = <<>> /\ queue' = <<>> /\ rank' = rank
    BY <2>1, Zenon DEF DiscardQueuedAnd
  <2>3. ticket' = ticket
    BY <2>1, Zenon DEF DiscardQueuedAnd
  <2> QED BY <2>2, <2>3, Zenon DEF QueueMoves
<1>3. ASSUME NEW c \in Commands, Send(c) PROVE QueueMoves
  BY <1>3, Zenon DEF Send, SendCoalesced, SendRefused, queueVars, QueueMoves
<1>4. ASSUME NEW w \in Workers, WorkerStep(w) \/ GatewayDropsSession(w) PROVE QueueMoves
  <2>1. CASE Dequeue(w) \/ DequeueExpired(w)
    BY <2>1, Zenon DEF Dequeue, DequeueExpired, QueueMoves
  <2>2. CASE CommandAuthFailure(w)
    <3>1. DiscardQueuedAnd({item[w]})
      BY <2>2, Zenon DEF CommandAuthFailure
    <3>2. stops' = <<>> /\ queue' = <<>> /\ rank' = rank
      BY <3>1, Zenon DEF DiscardQueuedAnd
    <3>3. ticket' = ticket
      BY <3>1, Zenon DEF DiscardQueuedAnd
    <3> QED BY <3>2, <3>3, Zenon DEF QueueMoves
  <2>3. CASE StartWorker(w) \/ IdleTimeout(w) \/ Opened(w) \/ Write(w) \/ Answered(w)
             \/ RetryAttempt(w) \/ LastAttemptFails(w) \/ UnexpectedError(w)
             \/ WakeFromBackoff(w) \/ Cancelled(w) \/ GatewayDropsSession(w)
    <3>1. UNCHANGED queueVars
      BY <2>3, Zenon DEF StartWorker, IdleTimeout, Opened, Write, Answered, RetryAttempt,
                         LastAttemptFails, UnexpectedError, GiveUp, WakeFromBackoff, Cancelled,
                         GatewayDropsSession
    <3> QED BY <3>1, Zenon DEF queueVars, QueueMoves
  <2> QED BY <1>4, <2>1, <2>2, <2>3, Zenon DEF WorkerStep
<1> QED BY <1>1, <1>2, <1>3, <1>4, Zenon DEF PathNext

\* A stop inserted behind the last frame of its device stands behind that frame, and
\* comes between no other stop and the frame that one waits for.
LEMMA InsertPriority ==
    ASSUME queue \in Seq(Commands), StopPriority, NEW c \in Commands, Kind[c] = "stop",
           NEW i \in DOMAIN queue, LastFor(i, c), queue' = InsertBehind(queue, i, c)
    PROVE  StopPriority'
<1>0. InsertedAt(queue, i, c, queue')
  BY InsertShape, Zenon
<1> DEFINE t == queue'
           n == Len(queue)
<1>1. /\ DOMAIN t = 1..(n + 1) /\ n \in Nat /\ DOMAIN queue = 1..n /\ i \in 1..n
      /\ \A k \in 1..i : t[k] = queue[k]
      /\ t[i + 1] = c
      /\ \A k \in (i + 1)..n : t[k + 1] = queue[k]
  BY <1>0, Zenon DEF InsertedAt
<1>2. \A k \in 1..n : k > 1 /\ Kind[queue[k]] = "stop" => Ordered(queue[k - 1], queue[k])
  BY <1>1, Zenon DEF StopPriority
<1>3. Kind[queue[i]] # "status" /\ Device[queue[i]] = Device[c]
  BY Zenon DEF LastFor, SameDevice
<1>4. \A j \in 1..n : Kind[queue[j]] # "status" /\ Device[queue[j]] = Device[c] => j <= i
  BY <1>1, Zenon DEF LastFor, SameDevice
<1> HIDE DEF t, n
<1> SUFFICES ASSUME NEW k \in 1..(n + 1), k > 1, Kind[t[k]] = "stop"
             PROVE  Ordered(t[k - 1], t[k])
  BY <1>1 DEF StopPriority, t
<1>5. CASE k <= i
  <2>1. k \in 1..n /\ t[k] = queue[k] /\ t[k - 1] = queue[k - 1]
    BY <1>1, <1>5
  <2> QED BY <1>2, <2>1
<1>6. CASE k = i + 1
  <2>1. t[k] = c /\ t[k - 1] = queue[i]
    BY <1>1, <1>6
  <2> QED BY <1>3, <2>1 DEF Ordered
<1>7. CASE k = i + 2
  <2>1. i + 1 \in 1..n /\ i + 1 > 1 /\ (i + 1) - 1 = i /\ t[k] = queue[i + 1] /\ t[k - 1] = c
    BY <1>1, <1>7
  <2>2. Ordered(queue[i], queue[i + 1])
    BY <1>2, <2>1
  <2>3. Kind[queue[i + 1]] # "status" /\ Device[queue[i + 1]] = Device[c]
    BY <1>3, <2>2 DEF Ordered
  <2>4. i + 1 <= i
    BY <1>4, <2>1, <2>3
  <2> QED BY <1>1, <2>4
<1>8. CASE k > i + 2
  <2>1. PICK j \in (i + 1)..n : j = k - 1
    BY <1>1, <1>8
  <2>2. j \in 1..n /\ j > 1 /\ j - 1 \in (i + 1)..n /\ (j - 1) + 1 = k - 1 /\ j + 1 = k
    BY <1>1, <1>8, <2>1
  <2>3. t[k] = queue[j] /\ t[k - 1] = queue[j - 1]
    BY <1>1, <2>2
  <2> QED BY <1>2, <2>2, <2>3
<1> QED BY <1>1, <1>5, <1>6, <1>7, <1>8

\* A stop waits for its own device and for other stops, and for nothing else: however
\* the queue fills and empties, a stop in the ordinary deque stands right behind a
\* frame of its own device.
THEOREM StopsKeepPriority == PathSpec => []StopPriority
<1>1. PathInit => StopPriority
  BY DEF PathInit, StopPriority
<1>2. TypesInv /\ StopPriority /\ [PathNext]_pathVars => StopPriority'
  <2> SUFFICES ASSUME TypesInv, StopPriority, QueueMoves PROVE StopPriority'
    BY StepMovesQueue, Zenon
  <2>0. queue \in Seq(Commands)
    BY Zenon DEF TypesInv, PathRangesOK
  <2>1. CASE UNCHANGED queue
    BY <2>1, Zenon DEF StopPriority
  <2>2. CASE queue' = <<>>
    BY <2>2 DEF StopPriority
  <2>3. CASE queue # <<>> /\ queue' = Tail(queue)
    <3>1. /\ Len(queue) \in Nat /\ DOMAIN queue = 1..Len(queue)
          /\ DOMAIN queue' = 1..(Len(queue) - 1)
          /\ \A i \in 1..(Len(queue) - 1) : queue'[i] = queue[i + 1]
      BY <2>0, <2>3
    <3> SUFFICES ASSUME NEW i \in 1..(Len(queue) - 1), i > 1, Kind[queue'[i]] = "stop"
                 PROVE  Ordered(queue'[i - 1], queue'[i])
      BY <3>1 DEF StopPriority
    <3>2. /\ queue'[i] = queue[i + 1] /\ queue'[i - 1] = queue[i] /\ i + 1 \in DOMAIN queue
          /\ i + 1 > 1 /\ (i + 1) - 1 = i
      BY <3>1
    <3>3. Ordered(queue[(i + 1) - 1], queue[i + 1])
      BY <3>2, Zenon DEF StopPriority
    <3> QED BY <3>2, <3>3
  <2>4. ASSUME NEW c \in Commands, queue' = Append(queue, c), Kind[c] # "stop"
        PROVE  StopPriority'
    <3>1. /\ Len(queue) \in Nat /\ DOMAIN queue = 1..Len(queue)
          /\ DOMAIN queue' = 1..(Len(queue) + 1)
          /\ \A i \in 1..Len(queue) : queue'[i] = queue[i]
          /\ queue'[Len(queue) + 1] = c
      BY <2>0, <2>4
    <3> SUFFICES ASSUME NEW i \in 1..(Len(queue) + 1), i > 1, Kind[queue'[i]] = "stop"
                 PROVE  Ordered(queue'[i - 1], queue'[i])
      BY <3>1 DEF StopPriority
    <3>2. i \in DOMAIN queue /\ queue'[i] = queue[i] /\ queue'[i - 1] = queue[i - 1]
      BY <2>4, <3>1
    <3>3. Ordered(queue[i - 1], queue[i])
      BY <3>2, Zenon DEF StopPriority
    <3> QED BY <3>2, <3>3
  <2>5. ASSUME NEW c \in Commands, Kind[c] = "stop", NEW i \in DOMAIN queue, LastFor(i, c),
               queue' = InsertBehind(queue, i, c)
        PROVE  StopPriority'
    BY <2>0, <2>5, InsertPriority
  <2>6. ASSUME NEW c, Get(c) PROVE StopPriority'
    BY <2>1, <2>3, <2>6, Zenon DEF Get
  <2>7. ASSUME NEW c \in Commands, Put(c) PROVE StopPriority'
    BY <2>1, <2>4, <2>5, <2>7, Zenon DEF Put
  <2> QED BY <2>1, <2>2, <2>6, <2>7, Zenon DEF QueueMoves, SendQueued
<1> QED BY <1>1, <1>2, TypesAlways, PTL DEF PathSpec

--------------------------------------------------------------------------
(* The order of one device *)

Before(c, d) == Ordered(c, d) => rank[c] < rank[d]
NotAfter(c, d) == Ordered(c, d) => rank[c] <= rank[d]

\* The frames of one device stand in the two deques in the order they were asked for.
SortedInv ==
    /\ \A c \in Commands : rank[c] < ticket
    /\ \A i, j \in DOMAIN stops : i < j => Before(stops[i], stops[j])
    /\ \A i, j \in DOMAIN queue : i < j => Before(queue[i], queue[j])
    /\ \A i \in DOMAIN stops, j \in DOMAIN queue : Before(stops[i], queue[j])

\* The commands that have reached the bus come before what waits or is being sent, and
\* what is being sent before what waits.
Seen == {e[1] : e \in Elements(bus)}
BusInv ==
    /\ \A x \in Seen : /\ x \in Commands /\ rank[x] # 0
                       /\ \A c \in Commands : Waiting(c) \/ InFlight(c) => NotAfter(x, c)
    /\ \A w \in Workers, c \in Commands : Working(w) /\ Waiting(c) => NotAfter(item[w], c)

\* Two numbered commands keep their order when another one is numbered.
LEMMA RankKept ==
    ASSUME TypesInv, NEW c \in Commands, rank[c] = 0, rank' = [rank EXCEPT ![c] = ticket],
           NEW x \in Commands, NEW y \in Commands, rank[x] # 0, rank[y] # 0
    PROVE  (Before(x, y)' <=> Before(x, y)) /\ (NotAfter(x, y)' <=> NotAfter(x, y))
<1>1. rank'[x] = rank[x] /\ rank'[y] = rank[y]
  BY DEF TypesInv, PathRangesOK
<1> QED BY <1>1, Zenon DEF Before, NotAfter, Ordered

\* The command that is put in the queue is the last of its device.
LEMMA SortedPut ==
    ASSUME TypesInv, PlacesInv, SortedInv, NEW c \in Commands, SendQueued(c)
    PROVE  SortedInv'
<1>0. /\ stops \in Seq(Commands) /\ queue \in Seq(Commands) /\ rank \in [Commands -> Nat]
      /\ ticket \in Nat /\ ticket' = ticket + 1 /\ rank' = [rank EXCEPT ![c] = ticket]
      /\ rank[c] = 0 /\ Put(c)
  BY DEF TypesInv, PathRangesOK, SendQueued, Untouched
<1>1. /\ \A i \in DOMAIN stops : stops[i] \in Commands /\ rank[stops[i]] # 0
      /\ \A i \in DOMAIN queue : queue[i] \in Commands /\ rank[queue[i]] # 0
  <2>1. \A i \in DOMAIN stops : stops[i] \in Commands /\ Waiting(stops[i])
    BY <1>0 DEF Waiting, Elements
  <2>2. \A i \in DOMAIN queue : queue[i] \in Commands /\ Waiting(queue[i])
    BY <1>0 DEF Waiting, Elements
  <2> QED BY <2>1, <2>2, Zenon DEF PlacesInv, CommandsPlaced
<1>2. \A d \in Commands : rank'[d] < ticket'
  BY <1>0 DEF SortedInv
<1>3. \A d \in Commands : rank[d] # 0 => Before(d, c)'
  <2> SUFFICES ASSUME NEW d \in Commands, rank[d] # 0 PROVE Before(d, c)'
    BY Zenon
  <2>1. rank'[d] = rank[d] /\ rank'[c] = ticket /\ rank[d] < ticket
    BY <1>0 DEF SortedInv
  <2> QED BY <2>1, Zenon DEF Before
<1>4. \A x, y \in Commands : rank[x] # 0 /\ rank[y] # 0 /\ Before(x, y) => Before(x, y)'
  BY <1>0, RankKept, Zenon
<1>5. /\ Len(stops) \in Nat /\ DOMAIN stops = 1..Len(stops)
      /\ Len(queue) \in Nat /\ DOMAIN queue = 1..Len(queue)
  BY <1>0, LenProperties
<1>6. /\ \A i, j \in DOMAIN stops : i < j => Before(stops[i], stops[j])
      /\ \A i, j \in DOMAIN queue : i < j => Before(queue[i], queue[j])
      /\ \A i \in DOMAIN stops, j \in DOMAIN queue : Before(stops[i], queue[j])
  BY Zenon DEF SortedInv
<1>7. CASE queue' = Append(queue, c) /\ UNCHANGED stops
  <2>1. /\ DOMAIN queue' = 1..(Len(queue) + 1)
        /\ \A i \in 1..Len(queue) : queue'[i] = queue[i]
        /\ queue'[Len(queue) + 1] = c
    BY <1>0, <1>5, <1>7
  <2>2. \A i, j \in DOMAIN stops' : i < j => Before(stops[i], stops[j])'
    BY <1>1, <1>4, <1>6, <1>7, Zenon
  <2>3. ASSUME NEW i \in DOMAIN queue', NEW j \in DOMAIN queue', i < j
        PROVE  Before(queue[i], queue[j])'
    <3>1. i \in 1..Len(queue) /\ (j \in 1..Len(queue) \/ j = Len(queue) + 1)
      BY <1>5, <2>1, <2>3
    <3> QED BY <1>1, <1>3, <1>4, <1>5, <1>6, <2>1, <2>3, <3>1, Zenon
  <2>4. ASSUME NEW i \in DOMAIN stops', NEW j \in DOMAIN queue' PROVE Before(stops[i], queue[j])'
    <3>1. j \in 1..Len(queue) \/ j = Len(queue) + 1
      BY <1>5, <2>1
    <3> QED BY <1>1, <1>3, <1>4, <1>5, <1>6, <1>7, <2>1, <3>1, Zenon
  <2> QED BY <1>2, <2>2, <2>3, <2>4, Zenon DEF SortedInv
<1>8. CASE Kind[c] = "stop" /\ SameDevice(c) = {} /\ stops' = Append(stops, c) /\ UNCHANGED queue
  <2>1. /\ DOMAIN stops' = 1..(Len(stops) + 1)
        /\ \A i \in 1..Len(stops) : stops'[i] = stops[i]
        /\ stops'[Len(stops) + 1] = c
    BY <1>0, <1>5, <1>8
  <2>2. \A i, j \in DOMAIN queue' : i < j => Before(queue[i], queue[j])'
    BY <1>1, <1>4, <1>6, <1>8, Zenon
  <2>3. ASSUME NEW i \in DOMAIN stops', NEW j \in DOMAIN stops', i < j
        PROVE  Before(stops[i], stops[j])'
    <3>1. i \in 1..Len(stops) /\ (j \in 1..Len(stops) \/ j = Len(stops) + 1)
      BY <1>5, <2>1, <2>3
    <3> QED BY <1>1, <1>3, <1>4, <1>5, <1>6, <2>1, <2>3, <3>1, Zenon
  <2>4. ASSUME NEW i \in DOMAIN stops', NEW j \in DOMAIN queue' PROVE Before(stops[i], queue[j])'
    <3>1. i \in 1..Len(stops) \/ i = Len(stops) + 1
      BY <1>5, <2>1
    <3>2. ~Ordered(c, queue[j]) /\ j \in DOMAIN queue /\ queue'[j] = queue[j]
      BY <1>8, Zenon DEF Ordered, SameDevice
    <3>3. CASE i \in 1..Len(stops)
      BY <1>1, <1>4, <1>5, <1>6, <2>1, <3>2, <3>3, Zenon
    <3>4. CASE i = Len(stops) + 1
      BY <2>1, <3>2, <3>4, Zenon DEF Before, Ordered
    <3> QED BY <3>1, <3>3, <3>4
  <2> QED BY <1>2, <2>2, <2>3, <2>4, Zenon DEF SortedInv
<1>9. ASSUME Kind[c] = "stop", NEW p \in DOMAIN queue, LastFor(p, c),
             queue' = InsertBehind(queue, p, c), UNCHANGED stops
      PROVE  SortedInv'
  <2>0. InsertedAt(queue, p, c, queue')
    BY <1>0, <1>9, InsertShape, Zenon
  <2>1. /\ DOMAIN queue' = 1..(Len(queue) + 1) /\ p \in 1..Len(queue)
        /\ \A k \in 1..p : queue'[k] = queue[k]
        /\ queue'[p + 1] = c
        /\ \A k \in (p + 1)..Len(queue) : queue'[k + 1] = queue[k]
    BY <2>0, Zenon DEF InsertedAt
  <2>2. \A k \in (p + 1)..Len(queue) : ~Ordered(c, queue[k])
    <3> SUFFICES ASSUME NEW k \in (p + 1)..Len(queue), Ordered(c, queue[k]) PROVE FALSE
      BY Zenon
    <3>1. k \in SameDevice(c)
      BY <1>5, <2>1, <1>9 DEF Ordered, SameDevice
    <3>2. k <= p
      BY <1>9, <3>1, Zenon DEF LastFor
    <3> QED BY <1>5, <2>1, <3>2
  <2>3. ASSUME NEW j \in DOMAIN queue'
        PROVE  \/ j = p + 1 /\ queue'[j] = c
               \/ \E k \in DOMAIN queue : /\ queue'[j] = queue[k]
                                          /\ (j = k /\ k <= p) \/ (j = k + 1 /\ k >= p + 1)
    <3>1. CASE j <= p
      BY <1>5, <2>1, <3>1
    <3>2. CASE j = p + 1
      BY <2>1, <3>2
    <3>3. CASE j > p + 1
      <4>1. j - 1 \in (p + 1)..Len(queue) /\ j = (j - 1) + 1 /\ j - 1 \in DOMAIN queue
        BY <1>5, <2>1, <3>3
      <4>2. queue'[j] = queue[j - 1]
        BY <2>1, <4>1
      <4> QED BY <1>5, <2>1, <4>1, <4>2
    <3> QED BY <1>5, <2>1, <3>1, <3>2, <3>3
  <2>4. \A i, j \in DOMAIN stops' : i < j => Before(stops[i], stops[j])'
    BY <1>1, <1>4, <1>6, <1>9, Zenon
  <2>5. ASSUME NEW i \in DOMAIN stops', NEW j \in DOMAIN queue' PROVE Before(stops[i], queue[j])'
    <3>1. i \in DOMAIN stops /\ stops'[i] = stops[i]
      BY <1>9, Zenon
    <3>2. CASE queue'[j] = c
      BY <1>1, <1>3, <3>1, <3>2, Zenon
    <3>3. ASSUME NEW k \in DOMAIN queue, queue'[j] = queue[k] PROVE Before(stops[i], queue[j])'
      BY <1>1, <1>4, <1>6, <3>1, <3>3, Zenon
    <3> QED BY <2>3, <3>2, <3>3, Zenon
  <2>6. ASSUME NEW i \in DOMAIN queue', NEW j \in DOMAIN queue', i < j
        PROVE  Before(queue[i], queue[j])'
    <3>1. CASE queue'[i] = c /\ i = p + 1
      <4>1. PICK k \in DOMAIN queue : /\ queue'[j] = queue[k]
                                      /\ (j = k /\ k <= p) \/ (j = k + 1 /\ k >= p + 1)
        BY <1>5, <2>1, <2>3, <2>6, <3>1
      <4>2. k \in (p + 1)..Len(queue)
        BY <1>5, <2>1, <2>6, <3>1, <4>1
      <4> QED BY <2>2, <3>1, <4>1, <4>2, Zenon DEF Before, Ordered
    <3>2. CASE queue'[j] = c /\ j = p + 1
      <4>1. i \in DOMAIN queue /\ queue'[i] = queue[i]
        BY <1>5, <2>1, <2>6, <3>2
      <4> QED BY <1>1, <1>3, <3>2, <4>1, Zenon
    <3>3. CASE i # p + 1 /\ j # p + 1
      <4>1. PICK k \in DOMAIN queue : /\ queue'[i] = queue[k]
                                      /\ (i = k /\ k <= p) \/ (i = k + 1 /\ k >= p + 1)
        BY <2>3, <3>3, Zenon
      <4>2. PICK m \in DOMAIN queue : /\ queue'[j] = queue[m]
                                      /\ (j = m /\ m <= p) \/ (j = m + 1 /\ m >= p + 1)
        BY <2>3, <3>3, Zenon
      <4>3. k < m
        BY <1>5, <2>1, <2>6, <4>1, <4>2
      <4> QED BY <1>1, <1>4, <1>6, <4>1, <4>2, <4>3, Zenon
    <3> QED BY <2>1, <3>1, <3>2, <3>3, Zenon
  <2> QED BY <1>2, <2>4, <2>5, <2>6, Zenon DEF SortedInv
<1> QED BY <1>0, <1>7, <1>8, <1>9, Zenon DEF Put

\* What is taken out of the queue comes before all of its device that stays there.
LEMMA SortedGet ==
    ASSUME stops \in Seq(Commands), queue \in Seq(Commands), SortedInv, NEW c, Get(c),
           UNCHANGED <<rank, ticket>>
    PROVE  SortedInv' /\ \A d \in Commands : Waiting(d)' => Before(c, d)
<1>0. /\ \A i, j \in DOMAIN stops : i < j => Before(stops[i], stops[j])
      /\ \A i, j \in DOMAIN queue : i < j => Before(queue[i], queue[j])
      /\ \A i \in DOMAIN stops, j \in DOMAIN queue : Before(stops[i], queue[j])
  BY Zenon DEF SortedInv
<1>1. \A d \in Commands : rank'[d] < ticket'
  BY Zenon DEF SortedInv
<1>2. \A x, y : Before(x, y)' <=> Before(x, y)
  BY Zenon DEF Before, Ordered
<1>3. CASE stops # <<>> /\ c = Head(stops) /\ stops' = Tail(stops) /\ UNCHANGED queue
  <2>1. /\ DOMAIN stops = 1..Len(stops) /\ Len(stops) \in Nat /\ c = stops[1] /\ 1 \in DOMAIN stops
        /\ DOMAIN stops' = 1..(Len(stops) - 1)
        /\ \A i \in 1..(Len(stops) - 1) : stops'[i] = stops[i + 1]
    BY <1>3
  <2>2. \A i \in DOMAIN stops' : i + 1 \in DOMAIN stops /\ stops'[i] = stops[i + 1] /\ 1 < i + 1
    BY <2>1
  <2>3. \A i, j \in DOMAIN stops' : i < j => i + 1 < j + 1
    BY <2>1
  <2>4. SortedInv'
    BY <1>0, <1>1, <1>2, <1>3, <2>2, <2>3, Zenon DEF SortedInv
  <2>5. \A i \in DOMAIN stops' : Before(c, stops'[i])
    BY <1>0, <2>1, <2>2, Zenon
  <2>6. \A i \in DOMAIN queue' : Before(c, queue'[i])
    BY <1>0, <1>3, <2>1, Zenon
  <2> QED BY <2>4, <2>5, <2>6, Zenon DEF Waiting, Elements
<1>4. CASE stops = <<>> /\ queue # <<>> /\ c = Head(queue) /\ queue' = Tail(queue) /\ UNCHANGED stops
  <2>0. DOMAIN stops = {}
    BY <1>4
  <2>1. /\ DOMAIN queue = 1..Len(queue) /\ Len(queue) \in Nat /\ c = queue[1] /\ 1 \in DOMAIN queue
        /\ DOMAIN queue' = 1..(Len(queue) - 1)
        /\ \A i \in 1..(Len(queue) - 1) : queue'[i] = queue[i + 1]
    BY <1>4
  <2>2. \A i \in DOMAIN queue' : i + 1 \in DOMAIN queue /\ queue'[i] = queue[i + 1] /\ 1 < i + 1
    BY <2>1
  <2>3. \A i, j \in DOMAIN queue' : i < j => i + 1 < j + 1
    BY <2>1
  <2>4. SortedInv'
    BY <1>0, <1>1, <1>2, <1>4, <2>0, <2>2, <2>3, Zenon DEF SortedInv
  <2>5. \A i \in DOMAIN stops' : Before(c, stops'[i])
    BY <1>4, <2>0, Zenon
  <2>6. \A i \in DOMAIN queue' : Before(c, queue'[i])
    BY <1>0, <2>1, <2>2, Zenon
  <2> QED BY <2>4, <2>5, <2>6, Zenon DEF Waiting, Elements
<1> QED BY <1>3, <1>4, Zenon DEF Get

\* The two deques are always sorted.
LEMMA SortedAlways == PathSpec => []SortedInv
<1>1. PathInit => SortedInv
  BY DEF PathInit, SortedInv
<1>2. TypesInv /\ PlacesInv /\ SortedInv /\ [PathNext]_pathVars => SortedInv'
  <2> SUFFICES ASSUME TypesInv, PlacesInv, SortedInv, QueueMoves PROVE SortedInv'
    BY StepMovesQueue, Zenon
  <2>0. stops \in Seq(Commands) /\ queue \in Seq(Commands)
    BY Zenon DEF TypesInv, PathRangesOK
  <2>1. CASE UNCHANGED <<stops, queue, rank, ticket>>
    BY <2>1, Zenon DEF SortedInv, Before, Ordered
  <2>2. CASE stops' = <<>> /\ queue' = <<>> /\ UNCHANGED <<rank, ticket>>
    <3>1. DOMAIN stops' = {} /\ DOMAIN queue' = {} /\ \A c \in Commands : rank'[c] < ticket'
      BY <2>2 DEF SortedInv
    <3> QED BY <3>1, Zenon DEF SortedInv
  <2>3. CASE \E c : Get(c) /\ UNCHANGED <<rank, ticket>>
    BY <2>0, <2>3, SortedGet, Zenon
  <2>4. CASE \E c \in Commands : SendQueued(c)
    BY <2>4, SortedPut, Zenon
  <2> QED BY <2>1, <2>2, <2>3, <2>4, Zenon DEF QueueMoves
<1> QED BY <1>1, <1>2, TypesAlways, PlacesAlways, PTL DEF PathSpec

\* What waits after a step waited before it, or was numbered by it; a number is given
\* once.
LEMMA RanksMove ==
    ASSUME TypesInv, PlacesInv, QueueMoves
    PROVE  /\ \A c \in Commands : rank[c] # 0 => rank'[c] = rank[c]
           /\ \A c \in Commands : Waiting(c)' => Waiting(c) \/ (rank[c] = 0 /\ rank'[c] = ticket)
<1>0. stops \in Seq(Commands) /\ queue \in Seq(Commands) /\ rank \in [Commands -> Nat]
  BY Zenon DEF TypesInv, PathRangesOK
<1>1. CASE UNCHANGED <<stops, queue, rank, ticket>>
  BY <1>1, Zenon DEF Waiting
<1>2. CASE stops' = <<>> /\ queue' = <<>> /\ UNCHANGED <<rank, ticket>>
  BY <1>2, DrainedPlaces, Zenon
<1>3. CASE \E c : Get(c) /\ UNCHANGED <<rank, ticket>>
  BY <1>0, <1>3, GetPlaces, Zenon DEF PlacesInv
<1>4. ASSUME NEW c \in Commands, SendQueued(c)
      PROVE  /\ \A d \in Commands : rank[d] # 0 => rank'[d] = rank[d]
             /\ \A d \in Commands : Waiting(d)' => Waiting(d) \/ (rank[d] = 0 /\ rank'[d] = ticket)
  <2>1. Put(c) /\ rank' = [rank EXCEPT ![c] = ticket] /\ rank[c] = 0
    BY <1>4, Zenon DEF SendQueued, Untouched
  <2>2. ~Waiting(c)
    BY <2>1, Zenon DEF PlacesInv, CommandsPlaced
  <2>3. \A d : Waiting(d)' <=> Waiting(d) \/ d = c
    BY <1>0, <2>1, <2>2, PutPlaces, Zenon DEF PlacesInv
  <2>4. rank'[c] = ticket /\ \A d \in Commands : d # c => rank'[d] = rank[d]
    BY <1>0, <2>1
  <2> QED BY <2>1, <2>3, <2>4, Zenon
<1> QED BY <1>1, <1>2, <1>3, <1>4, Zenon DEF QueueMoves

\* A worker comes to hold a command only by taking it out of the queue.
LEMMA HandsMove ==
    ASSUME TypesInv, [PathNext]_pathVars, NEW v \in Workers, Working(v)'
    PROVE  (Working(v) /\ item'[v] = item[v]) \/ Dequeue(v)
<1>0. pc \in [Workers -> {"new", "get", "open", "send", "answer", "backoff", "stopped"}]
      /\ item \in [Workers -> Commands \cup {None}]
  BY Zenon DEF TypesInv, PathRangesOK
<1> USE DEF Working, InDelivery, Goto, Release
<1>1. CASE UNCHANGED <<pc, item>>
  BY <1>1
<1>2. CASE UNCHANGED pathVars \/ CloseListener \/ EventAuthFailure \/ CloseFinish
           \/ \E c \in Commands : Send(c)
  <2>1. UNCHANGED <<pc, item>>
    BY <1>2, Zenon DEF pathVars, CloseListener, EventAuthFailure, CloseFinish, Send,
                       SendCoalesced, SendRefused, SendQueued, workerVars
  <2> QED BY <1>1, <2>1
<1>3. ASSUME NEW w \in Workers, WorkerStep(w) \/ GatewayDropsSession(w)
      PROVE  (Working(v) /\ item'[v] = item[v]) \/ Dequeue(v)
  <2>1. CASE StartWorker(w) \/ IdleTimeout(w) \/ DequeueExpired(w) \/ GatewayDropsSession(w)
    BY <1>0, <2>1 DEF StartWorker, IdleTimeout, DequeueExpired, GatewayDropsSession, NextRound
  <2>2. CASE Dequeue(w)
    <3>1. CASE w = v
      BY <2>2, <3>1
    <3>2. CASE w # v
      BY <1>0, <2>2, <3>2 DEF Dequeue
    <3> QED BY <3>1, <3>2
  <2>3. CASE Opened(w) \/ Write(w) \/ RetryAttempt(w)
    BY <1>0, <2>3 DEF Opened, Write, RetryAttempt
  <2>4. CASE Answered(w) \/ WakeFromBackoff(w)
    BY <1>0, <2>4 DEF Answered, WakeFromBackoff, NextRound
  <2>5. CASE GiveUp(w)
    BY <1>0, <2>5 DEF GiveUp, BackoffOrStop
  <2>6. CASE CommandAuthFailure(w) \/ Cancelled(w)
    BY <1>0, <2>6 DEF CommandAuthFailure, Cancelled
  <2> QED BY <1>3, <2>1, <2>2, <2>3, <2>4, <2>5, <2>6, Zenon
          DEF WorkerStep, LastAttemptFails, UnexpectedError
<1> QED BY <1>2, <1>3, Zenon DEF PathNext

\* A frame that came before something stays before it.
LEMMA StaysBefore ==
    ASSUME TypesInv, PlacesInv, SortedInv, QueueMoves, NEW x \in Commands, rank[x] # 0,
           \A d \in Commands : Waiting(d) => NotAfter(x, d)
    PROVE  /\ \A d \in Commands : Waiting(d)' => NotAfter(x, d)'
           /\ \A d \in Commands : rank[d] # 0 /\ NotAfter(x, d) => NotAfter(x, d)'
<1>1. ASSUME NEW d \in Commands, rank[d] # 0, NotAfter(x, d) PROVE NotAfter(x, d)'
  BY <1>1, RanksMove, Zenon DEF NotAfter, Ordered
<1>2. ASSUME NEW d \in Commands, Waiting(d)' PROVE NotAfter(x, d)'
  <2>1. CASE Waiting(d)
    BY <1>1, <2>1, Zenon DEF PlacesInv, CommandsPlaced
  <2>2. CASE rank'[d] = ticket
    <3>1. rank'[x] = rank[x] /\ rank[x] < ticket /\ rank[x] \in Nat /\ ticket \in Nat
      BY RanksMove DEF SortedInv, TypesInv, PathRangesOK
    <3> QED BY <2>2, <3>1 DEF NotAfter
  <2> QED BY <1>2, <2>1, <2>2, RanksMove, Zenon
<1> QED BY <1>1, <1>2, Zenon

\* Dequeue takes c, which waited.
LEMMA DequeueTakes ==
    ASSUME TypesInv, PlacesInv, NEW w \in Workers, Dequeue(w)
    PROVE  /\ item'[w] \in Commands /\ Waiting(item'[w]) /\ Get(item'[w])
           /\ UNCHANGED <<rank, ticket, bus>>
<1>1. PICK c : Get(c) /\ item' = [item EXCEPT ![w] = c]
  BY Zenon DEF Dequeue
<1>2. item'[w] = c
  BY <1>1 DEF TypesInv, PathRangesOK
<1>3. c \in Commands /\ Waiting(c)
  BY <1>1, GetPlaces, Zenon DEF TypesInv, PathRangesOK, PlacesInv
<1> QED BY <1>1, <1>2, <1>3, Zenon DEF Dequeue

\* BusInv is preserved while one worker sends.
LEMMA BusInvStep ==
    ASSUME \A v, w \in Workers : v = w, TypesInv, PlacesInv, SortedInv, BusInv,
           [PathNext]_pathVars
    PROVE  BusInv'
<1>0. QueueMoves /\ stops \in Seq(Commands) /\ queue \in Seq(Commands) /\ rank \in [Commands -> Nat]
  BY StepMovesQueue, Zenon DEF TypesInv, PathRangesOK
<1>1. \A w \in Workers : Working(w) => item[w] \in Commands /\ rank[item[w]] # 0
  BY Zenon DEF TypesInv, Holding, PlacesInv, WorkersPlaced, Working, Open
<1>2. \A c \in Commands : rank[c] # 0 => rank'[c] = rank[c]
  BY <1>0, RanksMove, Zenon
<1>3. \A x \in Commands :
        rank[x] # 0 /\ (\A d \in Commands : Waiting(d) => NotAfter(x, d))
            => /\ \A d \in Commands : Waiting(d)' => NotAfter(x, d)'
               /\ \A d \in Commands : rank[d] # 0 /\ NotAfter(x, d) => NotAfter(x, d)'
  BY <1>0, StaysBefore, Zenon
<1>4. \A v \in Workers : Working(v)' =>
        \/ Working(v) /\ item'[v] = item[v]
        \/ Dequeue(v) /\ item'[v] \in Commands /\ Waiting(item'[v]) /\ Get(item'[v]) /\ UNCHANGED <<rank, ticket>>
  BY HandsMove, DequeueTakes, Zenon
<1>5. ASSUME NEW x \in Seen
      PROVE  x \in Commands /\ rank'[x] # 0
             /\ \A c \in Commands : Waiting(c)' \/ InFlight(c)' => NotAfter(x, c)'
  <2>1. /\ x \in Commands /\ rank[x] # 0
        /\ \A c \in Commands : Waiting(c) \/ InFlight(c) => NotAfter(x, c)
    BY Zenon DEF BusInv
  <2>2. ASSUME NEW v \in Workers, Working(v)', item'[v] \in Commands
        PROVE  Ordered(x, item'[v]) => rank'[x] <= rank'[item'[v]]
    <3> DEFINE c == item'[v]
    <3>1. rank[c] # 0 /\ (Waiting(c) \/ InFlight(c))
      BY <1>1, <1>4, <2>2, Zenon DEF InFlight, Working, PlacesInv, CommandsPlaced
    <3>2. NotAfter(x, c)
      BY <2>1, <2>2, <3>1, Zenon
    <3> HIDE DEF c
    <3>3. \A d \in Commands : rank[d] # 0 /\ NotAfter(x, d) => rank'[x] <= rank'[d] \/ ~Ordered(x, d)
      BY <1>3, <2>1, Zenon DEF NotAfter, Ordered
    <3>4. Ordered(x, c) => rank'[x] <= rank'[c]
      BY <2>2, <3>1, <3>2, <3>3, Zenon DEF c
    <3> QED BY <3>4, Zenon DEF c
  <2>3. \A c \in Commands : InFlight(c)' => NotAfter(x, c)'
    <3> SUFFICES ASSUME NEW c \in Commands, NEW v \in Workers, Working(v)', item'[v] = c
                 PROVE  Ordered(x, c) => rank'[x] <= rank'[c]
      BY Zenon DEF InFlight, Working, NotAfter, Ordered
    <3> QED BY <2>2, Zenon
  <2> QED BY <1>2, <1>3, <2>1, <2>3, Zenon
<1>6. ASSUME NEW w \in Workers, Write(w)
      PROVE  item[w] \in Commands /\ rank'[item[w]] # 0
             /\ \A c \in Commands : Waiting(c)' \/ InFlight(c)' =>
                    (Ordered(item[w], c) => rank'[item[w]] <= rank'[c])
  <2>1. Working(w) /\ item' = item
    BY <1>6 DEF Write, Working, InDelivery
  <2>2. item[w] \in Commands /\ rank[item[w]] # 0 /\ \A d \in Commands : Waiting(d) => NotAfter(item[w], d)
    BY <1>1, <2>1, Zenon DEF BusInv
  <2>3. \A c \in Commands : Waiting(c)' => (Ordered(item[w], c) => rank'[item[w]] <= rank'[c])
    BY <1>3, <2>2, Zenon DEF NotAfter, Ordered
  <2>4. \A c \in Commands : InFlight(c)' => c = item[w]
    BY <2>1, Zenon DEF InFlight
  <2>5. rank'[item[w]] <= rank'[item[w]]
    <3>1. rank'[item[w]] = rank[item[w]] /\ rank[item[w]] \in Nat
      BY <1>0, <1>2, <2>2, Zenon
    <3> QED BY <3>1
  <2> QED BY <1>2, <2>2, <2>3, <2>4, <2>5, Zenon
<1>7. Seen' = Seen \/ \E w \in Workers : Write(w) /\ Seen' = Seen \cup {item[w]}
  <2>1. CASE bus' = bus
    BY <2>1, Zenon DEF Seen
  <2>2. ASSUME NEW w \in Workers, Write(w),
               Elements(bus') = Elements(bus) \cup {<<item[w], attempt[w]>>}
        PROVE  Seen' = Seen \cup {item[w]}
    <3>1. /\ Seen' = {e[1] : e \in Elements(bus')} /\ Seen = {e[1] : e \in Elements(bus)}
      BY Zenon DEF Seen
    <3>2. <<item[w], attempt[w]>>[1] = item[w]
      OBVIOUS
    <3> QED BY <2>2, <3>1, <3>2
  <2> QED BY <2>1, <2>2, BusGrows, Zenon
<1>8. \A x \in Seen' : /\ x \in Commands /\ rank'[x] # 0
                       /\ \A c \in Commands : Waiting(c)' \/ InFlight(c)' => NotAfter(x, c)'
  BY <1>5, <1>6, <1>7, Zenon DEF NotAfter, Ordered
<1>9. ASSUME NEW w \in Workers, NEW c \in Commands, Working(w)', Waiting(c)'
      PROVE  NotAfter(item[w], c)'
  <2>1. CASE Working(w) /\ item'[w] = item[w]
    <3>1. \A d \in Commands : Waiting(d) => NotAfter(item[w], d)
      BY <2>1, Zenon DEF BusInv
    <3>2. Ordered(item[w], c) => rank'[item[w]] <= rank'[c]
      BY <1>1, <1>3, <1>9, <2>1, <3>1, Zenon DEF NotAfter, Ordered
    <3> QED BY <2>1, <3>2, Zenon DEF NotAfter, Ordered
  <2>2. CASE item'[w] \in Commands /\ Get(item'[w]) /\ UNCHANGED <<rank, ticket>>
    <3>1. \A d \in Commands : Waiting(d)' => Before(item'[w], d)
      BY <1>0, <2>2, SortedGet, Zenon
    <3>2. Ordered(item'[w], c) => rank[item'[w]] < rank[c]
      BY <1>9, <3>1, Zenon DEF Before
    <3>3. rank[item'[w]] \in Nat /\ rank[c] \in Nat
      BY <1>0, <2>2, Zenon
    <3>4. Ordered(item'[w], c) => rank'[item'[w]] <= rank'[c]
      BY <2>2, <3>2, <3>3
    <3> QED BY <3>4, Zenon DEF NotAfter, Ordered
  <2> QED BY <1>4, <1>9, <2>1, <2>2, Zenon
<1> QED BY <1>8, <1>9, Zenon DEF BusInv

\* A copy that is written comes after every frame of its device on the bus.
LEMMA InOrderStep ==
    ASSUME TypesInv, BusInv, SameDeviceInOrder, [PathNext]_pathVars,
           \A x \in Commands : rank[x] # 0 => rank'[x] = rank[x]
    PROVE  SameDeviceInOrder'
<1>0. /\ bus \in Seq(Commands \X Attempts) /\ rank \in [Commands -> Nat]
      /\ Len(bus) \in Nat /\ DOMAIN bus = 1..Len(bus)
  BY LenProperties DEF TypesInv, PathRangesOK
<1>1. \A i \in DOMAIN bus : bus[i][1] \in Seen /\ bus[i][1] \in Commands /\ rank'[bus[i][1]] = rank[bus[i][1]]
  BY <1>0 DEF BusInv, Seen, Elements
<1>2. \A i, j \in DOMAIN bus :
        i < j /\ Ordered(bus[i][1], bus[j][1]) => rank'[bus[i][1]] <= rank'[bus[j][1]]
  BY <1>1, Zenon DEF SameDeviceInOrder
<1>3. CASE bus' = bus
  BY <1>2, <1>3, Zenon DEF SameDeviceInOrder, Ordered
<1>4. ASSUME NEW w \in Workers, Write(w), session[w] = "open" PROVE SameDeviceInOrder'
  <2>1. item[w] \in Commands /\ attempt[w] \in Attempts /\ InFlight(item[w])
    BY <1>4 DEF Write, TypesInv, PathRangesOK, Holding, InFlight, InDelivery
  <2>2. bus' = Append(bus, <<item[w], attempt[w]>>) /\ rank' = rank
    BY <1>4, Zenon DEF Write, queueVars
  <2>3. /\ DOMAIN bus' = 1..(Len(bus) + 1)
        /\ \A i \in 1..Len(bus) : bus'[i] = bus[i]
        /\ bus'[Len(bus) + 1] = <<item[w], attempt[w]>>
    BY <1>0, <2>2
  <2>4. bus'[Len(bus) + 1][1] = item[w]
    BY <2>3
  <2>5. \A i \in DOMAIN bus : Ordered(bus[i][1], item[w]) => rank'[bus[i][1]] <= rank'[item[w]]
    BY <1>1, <2>1, <2>2, Zenon DEF BusInv, NotAfter
  <2> SUFFICES ASSUME NEW i \in DOMAIN bus', NEW j \in DOMAIN bus', i < j,
                      Ordered(bus'[i][1], bus'[j][1])
               PROVE  rank'[bus'[i][1]] <= rank'[bus'[j][1]]
    BY Zenon DEF SameDeviceInOrder, Ordered
  <2>6. i \in 1..Len(bus) /\ (j \in 1..Len(bus) \/ j = Len(bus) + 1)
    BY <1>0, <2>3
  <2> QED BY <1>0, <1>2, <2>3, <2>4, <2>5, <2>6, Zenon
<1>5. bus' = bus \/ \E w \in Workers : Write(w) /\ session[w] = "open"
  BY BusGrows, Zenon
<1> QED BY <1>3, <1>4, <1>5, Zenon

\* With one sending worker the frames of one device reach the bus in the order they
\* were asked for: through the stop priority, the retry and the drops, a stop never
\* gets ahead of the movement it must end (_CommandQueue: "one worker").
THEOREM OneWorkerKeepsOrder ==
    ASSUME \A v, w \in Workers : v = w
    PROVE  PathSpec => []SameDeviceInOrder
<1>1. PathInit => BusInv /\ SameDeviceInOrder
  <2> SUFFICES ASSUME PathInit PROVE BusInv /\ SameDeviceInOrder
    OBVIOUS
  <2>1. DOMAIN bus = {} /\ Seen = {} /\ \A w \in Workers : ~Working(w)
    BY DEF PathInit, Seen, Elements, Working, InDelivery
  <2> QED BY <2>1, Zenon DEF BusInv, SameDeviceInOrder
<1>2. TypesInv /\ PlacesInv /\ SortedInv /\ BusInv /\ SameDeviceInOrder /\ [PathNext]_pathVars
        => BusInv' /\ SameDeviceInOrder'
  <2> SUFFICES ASSUME TypesInv, PlacesInv, SortedInv, BusInv, SameDeviceInOrder,
                      [PathNext]_pathVars
               PROVE  BusInv' /\ SameDeviceInOrder'
    OBVIOUS
  <2>1. BusInv'
    BY BusInvStep, Zenon
  <2>2. \A x \in Commands : rank[x] # 0 => rank'[x] = rank[x]
    BY StepMovesQueue, RanksMove, Zenon
  <2>3. SameDeviceInOrder'
    BY <2>2, InOrderStep, Zenon
  <2> QED BY <2>1, <2>3
<1> QED BY <1>1, <1>2, TypesAlways, PlacesAlways, SortedAlways, PTL DEF PathSpec

--------------------------------------------------------------------------
(* A coalesced status request *)

\* The frame of d is the k-th on the bus, or a later one.
OnBusFrom(d, k) == \E i \in DOMAIN bus : i >= k /\ bus[i][1] = d

\* d answers a request that was coalesced when k - 1 frames had reached the bus: it is
\* still to be sent, was lost, or was written late enough, and no worker waits for the
\* answer to a copy that was written too early.
Serves(d, k) ==
    /\ \/ Waiting(d) \/ InFlight(d) \/ Dropped \in Elements(calls[d])
       \/ OnBusFrom(d, k)
    /\ \A w \in Workers : pc[w] = "answer" /\ session[w] = "open" /\ item[w] = d => OnBusFrom(d, k)

FreshInv ==
    \A c \in Commands : merged[c] # 0 =>
        /\ merged[c] <= Len(bus) + 1
        /\ \E d \in Commands : /\ Kind[d] = "status" /\ Device[d] = Device[c] /\ rank[d] # 0
                               /\ Serves(d, merged[c])

\* A frame on the bus stays there, and the bus only grows.
LEMMA BusStays ==
    ASSUME TypesInv, [PathNext]_pathVars
    PROVE  /\ Len(bus) \in Nat /\ Len(bus') \in Nat /\ Len(bus) <= Len(bus')
           /\ \A d, k : OnBusFrom(d, k) => OnBusFrom(d, k)'
<1>0. bus \in Seq(Commands \X Attempts) /\ Len(bus) \in Nat /\ DOMAIN bus = 1..Len(bus)
  BY LenProperties DEF TypesInv, PathRangesOK
<1>1. CASE bus' = bus
  BY <1>0, <1>1 DEF OnBusFrom
<1>2. ASSUME NEW w \in Workers, Write(w), session[w] = "open"
      PROVE  /\ Len(bus) \in Nat /\ Len(bus') \in Nat /\ Len(bus) <= Len(bus')
             /\ \A d, k : OnBusFrom(d, k) => OnBusFrom(d, k)'
  <2>1. bus' = Append(bus, <<item[w], attempt[w]>>)
    BY <1>2, Zenon DEF Write
  <2>2. /\ Len(bus') = Len(bus) + 1 /\ DOMAIN bus' = 1..(Len(bus) + 1)
        /\ \A i \in 1..Len(bus) : bus'[i] = bus[i]
    BY <1>0, <2>1
  <2>3. \A i \in DOMAIN bus : i \in DOMAIN bus' /\ bus'[i] = bus[i]
    BY <1>0, <2>2
  <2>4. \A d, k : OnBusFrom(d, k) => OnBusFrom(d, k)'
    BY <2>3, Zenon DEF OnBusFrom
  <2> QED BY <1>0, <2>2, <2>4
<1> QED BY <1>1, <1>2, BusGrows, Zenon

\* A write on a session that the gateway still has is on the bus from any place that
\* was not taken before it.
LEMMA WriteFrom ==
    ASSUME TypesInv, NEW w \in Workers, Write(w), session[w] = "open",
           NEW k \in Nat, k <= Len(bus) + 1
    PROVE  OnBusFrom(item[w], k)'
<1>1. bus \in Seq(Commands \X Attempts) /\ Len(bus) \in Nat
  BY LenProperties DEF TypesInv, PathRangesOK
<1>2. bus' = Append(bus, <<item[w], attempt[w]>>) /\ item' = item
  BY Zenon DEF Write
<1>3. Len(bus) + 1 \in DOMAIN bus' /\ bus'[Len(bus) + 1] = <<item[w], attempt[w]>> /\ Len(bus) + 1 >= k
  BY <1>1, <1>2
<1>4. bus'[Len(bus) + 1][1] = item'[w]
  BY <1>2, <1>3
<1> QED BY <1>3, <1>4, Zenon DEF OnBusFrom

\* Only send_status_request coalesces: with a frame that still waits.
LEMMA MergeStep ==
    ASSUME TypesInv, [PathNext]_pathVars, NEW c \in Commands, merged'[c] # merged[c]
    PROVE  /\ merged'[c] = Len(bus) + 1
           /\ \E d \in Commands : Kind[d] = "status" /\ Device[d] = Device[c] /\ Waiting(d)
           /\ UNCHANGED <<stops, queue, pc, item, session, bus, rank>>
<1>0. stops \in Seq(Commands) /\ queue \in Seq(Commands) /\ merged \in [Commands -> Nat]
  BY Zenon DEF TypesInv, PathRangesOK
<1>1. CASE UNCHANGED merged
  BY <1>1
<1>2. CASE UNCHANGED pathVars \/ CloseListener \/ EventAuthFailure \/ CloseFinish
  BY <1>1, <1>2, Zenon DEF pathVars, CloseListener, EventAuthFailure, CloseFinish,
                           DiscardQueuedAnd, queueVars
<1>3. ASSUME NEW w \in Workers, WorkerStep(w) \/ GatewayDropsSession(w) PROVE UNCHANGED merged
  BY <1>3, Zenon DEF WorkerStep, StartWorker, IdleTimeout, Dequeue, DequeueExpired, Opened, Write,
                     Answered, RetryAttempt, LastAttemptFails, UnexpectedError, GiveUp,
                     WakeFromBackoff, CommandAuthFailure, DiscardQueuedAnd, Cancelled,
                     GatewayDropsSession, queueVars
<1>4. ASSUME NEW b \in Commands, Send(b), ~SendCoalesced(b) PROVE UNCHANGED merged
  BY <1>4, Zenon DEF Send, SendRefused, SendQueued, queueVars
<1>5. ASSUME NEW b \in Commands, SendCoalesced(b)
      PROVE  /\ merged'[c] = Len(bus) + 1
             /\ \E d \in Commands : Kind[d] = "status" /\ Device[d] = Device[c] /\ Waiting(d)
             /\ UNCHANGED <<stops, queue, pc, item, session, bus, rank>>
  <2>1. b = c /\ merged'[c] = Len(bus) + 1
    BY <1>0, <1>5 DEF SendCoalesced
  <2>2. PICK d \in Elements(Pending) : Kind[d] = "status" /\ Device[d] = Device[c]
    BY <1>5, <2>1, Zenon DEF SendCoalesced, Coalesces, HasPendingStatus
  <2>3. Waiting(d)
    BY <1>0, PendingWaits, Zenon
  <2>4. d \in Commands
    BY <1>0, <2>3 DEF Waiting, Elements
  <2>5. UNCHANGED <<stops, queue, pc, item, session, bus, rank>>
    BY <1>5, Zenon DEF SendCoalesced, workerVars
  <2> QED BY <2>1, <2>2, <2>3, <2>4, <2>5, Zenon
<1> QED BY <1>1, <1>2, <1>3, <1>4, <1>5, Zenon DEF PathNext

\* A command is settled as lost, or by the answer to its copy; and what its caller has
\* heard stays.
LEMMA SettledHow ==
    ASSUME TypesInv, [PathNext]_pathVars, NEW d \in Commands
    PROVE  /\ Dropped \in Elements(calls[d]) => Dropped \in Elements(calls'[d])
           /\ ~settled[d] /\ settled'[d] =>
                \/ Dropped \in Elements(calls'[d])
                \/ \E w \in Workers : pc[w] = "answer" /\ session[w] = "open" /\ item[w] = d
<1>0. calls[d] \in Seq(Reports) /\ settled \in [Commands -> BOOLEAN]
  BY DEF TypesInv, CallsOK, PathFlagsOK
<1>1. CASE UNCHANGED settleVars
  BY <1>1, Zenon DEF settleVars
<1>2. ASSUME NEW S, NEW report \in Reports, Settle(S, report)
      PROVE  /\ Dropped \in Elements(calls[d]) => Dropped \in Elements(calls'[d])
             /\ ~settled[d] /\ settled'[d] => d \in S /\ report \in Elements(calls'[d])
  <2>1. calls'[d] = IF d \in S /\ ~settled[d] THEN Append(calls[d], report) ELSE calls[d]
    BY <1>2 DEF Settle
  <2>2. settled'[d] <=> settled[d] \/ d \in S
    BY <1>0, <1>2, SettleMarks, Zenon
  <2>3. Elements(Append(calls[d], report)) = Elements(calls[d]) \cup {report}
    BY <1>0, <1>2, ElementsAppend
  <2> QED BY <2>1, <2>2, <2>3, Zenon
<1>3. Dropped \in Reports
  BY DEF Reports
<1>4. ASSUME NEW w \in Workers PROVE Delivered(attempt[w]) \in Reports
  BY DEF TypesInv, PathRangesOK, Reports
<1>5. CASE \E S : Settle(S, Dropped)
  BY <1>2, <1>3, <1>5, Zenon
<1>6. ASSUME NEW w \in Workers, pc[w] = "answer", session[w] = "open",
             Settle({item[w]}, Delivered(attempt[w]))
      PROVE  /\ Dropped \in Elements(calls[d]) => Dropped \in Elements(calls'[d])
             /\ ~settled[d] /\ settled'[d] => item[w] = d
  <2>1. /\ Dropped \in Elements(calls[d]) => Dropped \in Elements(calls'[d])
        /\ ~settled[d] /\ settled'[d] => d \in {item[w]}
    BY <1>2, <1>4, <1>6
  <2> QED BY <2>1
<1> QED BY <1>1, <1>5, <1>6, StepSettles, Zenon DEF SettlesSome

\* FreshInv is preserved.
LEMMA FreshStep ==
    ASSUME TypesInv, PlacesInv, PlacesInv', FreshInv, [PathNext]_pathVars
    PROVE  FreshInv'
<1> SUFFICES ASSUME NEW c \in Commands, merged'[c] # 0
             PROVE  /\ merged'[c] <= Len(bus') + 1
                    /\ \E d \in Commands : /\ Kind[d] = "status" /\ Device[d] = Device[c]
                                           /\ rank'[d] # 0 /\ Serves(d, merged[c])'
  BY Zenon DEF FreshInv
<1>0. merged[c] \in Nat
  BY DEF TypesInv, PathRangesOK
<1>1. CASE merged'[c] # merged[c]
  <2>1. /\ merged'[c] = Len(bus) + 1
        /\ UNCHANGED <<stops, queue, pc, item, session, bus, rank>>
    BY <1>1, MergeStep, Zenon
  <2>2. PICK d \in Commands : Kind[d] = "status" /\ Device[d] = Device[c] /\ Waiting(d)
    BY <1>1, MergeStep, Zenon
  <2>3. rank[d] # 0 /\ \A w \in Workers : pc[w] = "answer" => item[w] # d
    <3>1. \A w \in Workers : pc[w] = "answer" => Working(w)
      BY DEF Working, InDelivery
    <3> QED BY <2>2, <3>1, Zenon DEF PlacesInv, CommandsPlaced, WorkersPlaced, Open
  <2>4. Waiting(d)' /\ \A w \in Workers : pc'[w] = "answer" => item'[w] # d
    BY <2>1, <2>2, <2>3, Zenon DEF Waiting
  <2>5. Serves(d, merged[c])'
    BY <2>4, Zenon DEF Serves
  <2>6. merged'[c] <= Len(bus') + 1
    BY <2>1, BusStays
  <2> QED BY <2>1, <2>2, <2>3, <2>5, <2>6, Zenon
<1>2. CASE merged'[c] = merged[c]
  <2> DEFINE k == merged[c]
  <2>1. PICK d \in Commands : /\ Kind[d] = "status" /\ Device[d] = Device[c] /\ rank[d] # 0
                              /\ Serves(d, k)
    BY <1>2, Zenon DEF FreshInv
  <2>2. k \in Nat /\ k <= Len(bus) + 1
    BY <1>0, <1>2, Zenon DEF FreshInv
  <2>3. rank'[d] # 0
    BY <2>1, StepMovesQueue, RanksMove, Zenon
  <2>4. OnBusFrom(d, k) => \E i \in DOMAIN bus' : i >= k /\ bus'[i][1] = d
    <3>1. \A e, j : OnBusFrom(e, j) => \E i \in DOMAIN bus' : i >= j /\ bus'[i][1] = e
      BY BusStays, Zenon DEF OnBusFrom
    <3> QED BY <3>1
  <2>5. ASSUME NEW w \in Workers, pc'[w] = "answer", session'[w] = "open", item'[w] = d
        PROVE  \E i \in DOMAIN bus' : i >= k /\ bus'[i][1] = d
    <3>1. CASE pc[w] = "answer" /\ session[w] = "open" /\ item'[w] = item[w]
      BY <2>1, <2>4, <2>5, <3>1, Zenon DEF Serves
    <3>2. CASE Write(w)
      <4>1. session[w] = "open" /\ item'[w] = item[w]
        BY <2>5, <3>2, Zenon DEF Write
      <4>2. \A j \in Nat : j <= Len(bus) + 1 => \E i \in DOMAIN bus' : i >= j /\ bus'[i][1] = item'[w]
        BY <3>2, <4>1, WriteFrom, Zenon DEF OnBusFrom
      <4> QED BY <2>2, <2>5, <4>2, Zenon
    <3> QED BY <2>5, <3>1, <3>2, AnswerHeld, Zenon
  <2>6. \/ Waiting(d)' \/ InFlight(d)' \/ Dropped \in Elements(calls'[d])
        \/ \E i \in DOMAIN bus' : i >= k /\ bus'[i][1] = d
    <3>1. CASE Dropped \in Elements(calls[d])
      BY <3>1, SettledHow, Zenon
    <3>2. CASE OnBusFrom(d, k)
      BY <2>4, <3>2
    <3>3. CASE Waiting(d) \/ InFlight(d)
      <4>1. ~settled[d]
        <5>1. Waiting(d) => ~settled[d]
          BY Zenon DEF PlacesInv, CommandsPlaced
        <5>2. InFlight(d) => ~settled[d]
          BY Zenon DEF PlacesInv, WorkersPlaced, Open, InFlight, Working
        <5> QED BY <3>3, <5>1, <5>2
      <4>2. CASE ~settled'[d]
        BY <2>3, <4>2, Zenon DEF PlacesInv, CommandsPlaced
      <4>3. CASE settled'[d]
        <5>1. \/ Dropped \in Elements(calls'[d])
              \/ \E w \in Workers : pc[w] = "answer" /\ session[w] = "open" /\ item[w] = d
          BY <4>1, <4>3, SettledHow, Zenon
        <5> QED BY <2>1, <2>4, <5>1, Zenon DEF Serves
      <4> QED BY <4>2, <4>3
    <3> QED BY <2>1, <3>1, <3>2, <3>3, Zenon DEF Serves
  <2>7. \A w \in Workers : pc'[w] = "answer" /\ session'[w] = "open" /\ item'[w] = d
                               => \E i \in DOMAIN bus' : i >= k /\ bus'[i][1] = d
    BY <2>5, Zenon
  <2>8. Serves(d, merged[c])'
    BY <1>2, <2>6, <2>7, Zenon DEF Serves, OnBusFrom
  <2>9. merged'[c] <= Len(bus') + 1
    BY <1>2, <2>2, BusStays
  <2> QED BY <2>1, <2>3, <2>8, <2>9, Zenon
<1> QED BY <1>1, <1>2

\* A coalesced status request is answered by a frame that reaches the bus after the
\* request was made, unless that frame is itself lost: never by one that a worker had
\* already taken, or that was on the bus.
THEOREM MergedRequestsAreFresh == PathSpec => []MergedRequestIsFresh
<1>1. PathInit => FreshInv
  BY DEF PathInit, FreshInv
<1>2. TypesInv /\ PlacesInv /\ PlacesInv' /\ FreshInv /\ [PathNext]_pathVars => FreshInv'
  BY FreshStep
<1>3. FreshInv => MergedRequestIsFresh
  BY Zenon DEF FreshInv, Serves, OnBusFrom, MergedRequestIsFresh
<1> QED BY <1>1, <1>2, <1>3, TypesAlways, PlacesAlways, PTL DEF PathSpec

--------------------------------------------------------------------------
(* The counters *)

\* The commands whose caller has been told are finitely many, whatever Commands is,
\* and they are what the counters count.
Done == {c \in Commands : settled[c]}
CountInv ==
    /\ IsFiniteSet(Done)
    /\ sent + dropped <= Cardinality(Done)
    /\ closing = "no" => sent + dropped = Cardinality(Done)

\* A sequence without repetitions has as many elements as places.
LEMMA OnceCounts ==
    ASSUME NEW T, NEW s \in Seq(T), Once(s)
    PROVE  IsFiniteSet(Elements(s)) /\ Cardinality(Elements(s)) = Len(s)
<1>1. Len(s) \in Nat /\ s \in [1..Len(s) -> T]
  BY LenProperties
<1>2. s \in Bijection(1..Len(s), Elements(s))
  BY <1>1 DEF Once, Elements, Bijection, Injection, Surjection, IsInjective
<1>3. ExistsBijection(1..Len(s), Elements(s))
  BY <1>2, Zenon DEF ExistsBijection
<1>4. IsFiniteSet(Elements(s))
  BY <1>1, <1>3, FS_NatBijection
<1> QED BY <1>1, <1>3, <1>4, FS_CountingElements, Zenon

\* What waits in the two deques is as much as their lengths say.
LEMMA PendingCounts ==
    ASSUME stops \in Seq(Commands), queue \in Seq(Commands), Apart
    PROVE  /\ IsFiniteSet(Elements(Pending))
           /\ Cardinality(Elements(Pending)) = Len(stops) + Len(queue)
<1>1. Elements(Pending) = Elements(stops) \cup Elements(queue)
  BY PendingWaits, Zenon DEF Waiting
<1>2. /\ IsFiniteSet(Elements(stops)) /\ Cardinality(Elements(stops)) = Len(stops)
      /\ IsFiniteSet(Elements(queue)) /\ Cardinality(Elements(queue)) = Len(queue)
  BY OnceCounts, Zenon DEF Apart
<1>3. Cardinality(Elements(stops) \cap Elements(queue)) = 0
  BY FS_EmptySet, Zenon DEF Apart
<1>4. Len(stops) \in Nat /\ Len(queue) \in Nat
  BY LenProperties
<1>5. /\ IsFiniteSet(Elements(stops) \cup Elements(queue))
      /\ Cardinality(Elements(stops) \cup Elements(queue))
            = Cardinality(Elements(stops)) + Cardinality(Elements(queue))
              - Cardinality(Elements(stops) \cap Elements(queue))
  BY <1>2, FS_Union, Zenon
<1>6. Cardinality(Elements(stops) \cup Elements(queue)) = Len(stops) + Len(queue) - 0
  BY <1>2, <1>3, <1>5, Zenon
<1> QED BY <1>1, <1>4, <1>5, <1>6

\* Settling open commands adds each of them to the commands that are done.
LEMMA SettleCounts ==
    ASSUME settled \in [Commands -> BOOLEAN], IsFiniteSet(Done), NEW S \in SUBSET Commands,
           IsFiniteSet(S), \A c \in S : ~settled[c], NEW report, Settle(S, report)
    PROVE  IsFiniteSet(Done') /\ Cardinality(Done') = Cardinality(Done) + Cardinality(S)
<1>1. Done' = Done \cup S /\ Done \cap S = {}
  <2>1. \A c \in Commands : settled'[c] <=> settled[c] \/ c \in S
    BY SettleMarks, Zenon
  <2> QED BY <2>1, Zenon DEF Done
<1>2. /\ Cardinality(Done) \in Nat /\ Cardinality(S) \in Nat
      /\ Cardinality(Done \cap S) = 0
  BY <1>1, FS_CardinalityType, FS_EmptySet, Zenon
<1>3. /\ IsFiniteSet(Done \cup S)
      /\ Cardinality(Done \cup S) = Cardinality(Done) + Cardinality(S) - Cardinality(Done \cap S)
  BY FS_Union, Zenon
<1>4. Cardinality(Done') = Cardinality(Done) + Cardinality(S) - 0
  BY <1>1, <1>2, <1>3, Zenon
<1> QED BY <1>1, <1>2, <1>3, <1>4

\* How a step moves the counters: it settles nothing, it settles and counts one open
\* command, it drops and counts what waits and what one worker holds, or it is a
\* cancelled worker, which counts nothing.
CountsMove ==
    \/ /\ UNCHANGED <<settled, sent, dropped>>
       /\ closing' = "no" => closing = "no"
    \/ /\ \E c \in Commands : ~settled[c] /\ \E report : Settle({c}, report)
       /\ \/ sent' = sent + 1 /\ UNCHANGED dropped
          \/ dropped' = dropped + 1 /\ UNCHANGED sent
       /\ UNCHANGED closing
    \/ /\ \/ DiscardQueuedAnd({})
          \/ \E c \in Commands : ~settled[c] /\ ~Waiting(c) /\ DiscardQueuedAnd({c})
       /\ closing' = "no" => closing = "no"
    \/ /\ \E w \in Workers : Settle({item[w]} \ {None}, Dropped)
       /\ UNCHANGED <<sent, dropped>>
       /\ closing' # "no"

\* Every step moves the counters in one of these ways.
LEMMA StepCounts ==
    ASSUME TypesInv, PlacesInv, [PathNext]_pathVars
    PROVE  CountsMove
<1>1. CASE UNCHANGED pathVars \/ CloseListener \/ EventAuthFailure \/ CloseFinish
  BY <1>1 DEF pathVars, CloseListener, EventAuthFailure, CloseFinish, settleVars, countVars,
              CountsMove
<1>2. ASSUME NEW c \in Commands, Send(c) PROVE CountsMove
  BY <1>2, Zenon DEF Send, SendCoalesced, SendRefused, SendQueued, Untouched, settleVars,
                     countVars, controlVars, CountsMove
<1>3. ASSUME NEW w \in Workers, Working(w)
      PROVE  item[w] \in Commands /\ ~settled[item[w]] /\ ~Waiting(item[w])
  BY <1>3, Zenon DEF Working, TypesInv, Holding, PlacesInv, WorkersPlaced, Open
<1>4. ASSUME NEW w \in Workers, WorkerStep(w) \/ GatewayDropsSession(w) PROVE CountsMove
  <2>1. CASE StartWorker(w) \/ IdleTimeout(w) \/ Dequeue(w) \/ Opened(w) \/ Write(w)
             \/ RetryAttempt(w) \/ WakeFromBackoff(w) \/ GatewayDropsSession(w)
    BY <2>1, Zenon DEF StartWorker, IdleTimeout, Dequeue, Opened, Write, RetryAttempt,
                       WakeFromBackoff, GatewayDropsSession, settleVars, countVars, controlVars,
                       CountsMove
  <2>2. CASE DequeueExpired(w)
    <3>1. PICK c : Get(c) /\ Settle({c}, Dropped)
      BY <2>2, Zenon DEF DequeueExpired
    <3>2. c \in Commands /\ Waiting(c)
      BY <3>1, GetPlaces, Zenon DEF TypesInv, PathRangesOK, PlacesInv
    <3>3. ~settled[c]
      BY <3>2, Zenon DEF PlacesInv, CommandsPlaced
    <3> QED BY <2>2, <3>1, <3>2, <3>3, Zenon DEF DequeueExpired, controlVars, CountsMove
  <2>3. CASE Answered(w)
    <3>1. Working(w)
      BY <2>3 DEF Answered, Working, InDelivery
    <3> QED BY <1>3, <2>3, <3>1, Zenon DEF Answered, controlVars, CountsMove
  <2>4. CASE GiveUp(w)
    <3>1. Working(w)
      BY <2>4 DEF GiveUp, Working, InDelivery
    <3> QED BY <1>3, <2>4, <3>1, Zenon DEF GiveUp, controlVars, CountsMove
  <2>5. CASE CommandAuthFailure(w)
    <3>1. Working(w)
      BY <2>5 DEF CommandAuthFailure, Working, InDelivery
    <3> QED BY <1>3, <2>5, <3>1, Zenon DEF CommandAuthFailure, CountsMove
  <2>6. CASE Cancelled(w)
    <3>1. closing' = "cancelling"
      BY <2>6, Zenon DEF Cancelled, controlVars
    <3>2. closing' # "no"
      BY <3>1
    <3> QED BY <2>6, <3>2, Zenon DEF Cancelled, CountsMove
  <2> QED BY <1>4, <2>1, <2>2, <2>3, <2>4, <2>5, <2>6, Zenon
          DEF WorkerStep, LastAttemptFails, UnexpectedError
<1> QED BY <1>1, <1>2, <1>4, Zenon DEF PathNext

\* The counters follow what is settled.
LEMMA CountStep ==
    ASSUME TypesInv, PlacesInv, CountInv, CountsMove
    PROVE  CountInv'
<1>0. /\ settled \in [Commands -> BOOLEAN]
      /\ stops \in Seq(Commands) /\ queue \in Seq(Commands)
  BY Zenon DEF TypesInv, PathFlagsOK, PathRangesOK
<1>1. /\ sent \in Nat /\ dropped \in Nat /\ IsFiniteSet(Done) /\ Cardinality(Done) \in Nat
      /\ Len(stops) \in Nat /\ Len(queue) \in Nat
  BY <1>0, FS_CardinalityType, LenProperties DEF CountInv, TypesInv, PathRangesOK
<1>2. Cardinality({}) = 0 /\ IsFiniteSet({})
  BY FS_EmptySet, Zenon
<1>3. CASE UNCHANGED <<settled, sent, dropped>> /\ (closing' = "no" => closing = "no")
  <2>1. Done' = Done
    BY <1>3, Zenon DEF Done
  <2> QED BY <1>3, <2>1, Zenon DEF CountInv
<1>4. ASSUME NEW c \in Commands, ~settled[c], NEW report, Settle({c}, report),
             sent' + dropped' = sent + dropped + 1, UNCHANGED closing
      PROVE  CountInv'
  <2>1. IsFiniteSet({c}) /\ Cardinality({c}) = 1
    BY FS_Singleton, Zenon
  <2>2. IsFiniteSet(Done') /\ Cardinality(Done') = Cardinality(Done) + Cardinality({c})
    BY <1>0, <1>1, <1>4, <2>1, SettleCounts, Zenon
  <2> QED BY <1>1, <1>4, <2>1, <2>2 DEF CountInv
<1>5. ASSUME NEW S \in SUBSET Commands, IsFiniteSet(S), \A c \in S : ~settled[c] /\ ~Waiting(c),
             DiscardQueuedAnd(S), closing' = "no" => closing = "no"
      PROVE  CountInv'
  <2> DEFINE P == Elements(Pending)
             n == Cardinality(S)
  <2>1. IsFiniteSet(P) /\ Cardinality(P) = Len(stops) + Len(queue)
    BY <1>0, PendingCounts, Zenon DEF PlacesInv
  <2>2. P \in SUBSET Commands
    <3>1. Elements(stops) \subseteq Commands /\ Elements(queue) \subseteq Commands
      BY <1>0 DEF Elements
    <3> QED BY <1>0, <3>1, PendingWaits, Zenon DEF Waiting
  <2>3. P \cap S = {} /\ \A c \in P \cup S : ~settled[c]
    <3>1. \A c \in P : Waiting(c)
      BY <1>0, PendingWaits, Zenon
    <3>2. \A c \in P : ~settled[c]
      BY <2>2, <3>1, Zenon DEF PlacesInv, CommandsPlaced
    <3> QED BY <1>5, <3>1, <3>2, Zenon
  <2>4. /\ Settle(P \cup S, Dropped) /\ dropped' = dropped + Len(stops) + Len(queue) + n
        /\ sent' = sent
    BY <1>5, Zenon DEF DiscardQueuedAnd
  <2> HIDE DEF P
  <2>5. IsFiniteSet(P \cup S) /\ Cardinality(P \cup S) = Cardinality(P) + n - 0
    <3>1. Cardinality(P \cap S) = 0
      BY <1>2, <2>3, Zenon
    <3>2. /\ IsFiniteSet(P \cup S)
          /\ Cardinality(P \cup S) = Cardinality(P) + n - Cardinality(P \cap S)
      BY <1>5, <2>1, FS_Union, Zenon
    <3> QED BY <3>1, <3>2, Zenon
  <2>6. /\ IsFiniteSet(Done')
        /\ Cardinality(Done') = Cardinality(Done) + Cardinality(P \cup S)
    BY <1>0, <1>1, <2>2, <2>3, <2>4, <2>5, SettleCounts, Zenon
  <2>7. n \in Nat
    BY <1>5, FS_CardinalityType
  <2> QED BY <1>1, <1>2, <1>5, <2>1, <2>4, <2>5, <2>6, <2>7 DEF CountInv
<1>6. ASSUME NEW w \in Workers, Settle({item[w]} \ {None}, Dropped), UNCHANGED <<sent, dropped>>,
             closing' # "no"
      PROVE  CountInv'
  <2> DEFINE S == {c \in Commands : c = item[w] /\ ~settled[c]}
  <2>1. Done' = Done \cup S /\ S \subseteq {item[w]}
    <3>1. \A c \in Commands : settled'[c] <=> settled[c] \/ c \in {item[w]} \ {None}
      BY <1>0, <1>6, SettleMarks, Zenon
    <3>2. None \notin Commands
      BY PathAssumption DEF PathAssumption
    <3> QED BY <3>1, <3>2, Zenon DEF Done
  <2>2. IsFiniteSet(S)
    BY <2>1, FS_Singleton, FS_Subset, Zenon
  <2>3. IsFiniteSet(Done')
    BY <1>1, <2>1, <2>2, FS_Union, Zenon
  <2>4. Cardinality(Done) <= Cardinality(Done')
    BY <2>1, <2>3, FS_Subset, Zenon
  <2>5. Cardinality(Done') \in Nat
    BY <2>3, FS_CardinalityType
  <2> QED BY <1>1, <1>6, <2>3, <2>4, <2>5 DEF CountInv
<1>7. ASSUME NEW c \in Commands, ~settled[c], ~Waiting(c), DiscardQueuedAnd({c}),
             closing' = "no" => closing = "no"
      PROVE  CountInv'
  BY <1>5, <1>7, FS_Singleton, Zenon
<1>8. ASSUME DiscardQueuedAnd({}), closing' = "no" => closing = "no" PROVE CountInv'
  BY <1>2, <1>5, <1>8, Zenon
<1>9. (sent' = sent + 1 /\ UNCHANGED dropped) \/ (dropped' = dropped + 1 /\ UNCHANGED sent)
        => sent' + dropped' = sent + dropped + 1
  BY <1>1
<1> QED BY <1>3, <1>4, <1>6, <1>7, <1>8, <1>9, Zenon DEF CountsMove

\* While the handler runs, commands_sent and commands_dropped count every command
\* whose caller was told, once; a shutdown adds nothing for those it interrupts.
THEOREM CountersAreRight == PathSpec => []Accounting
<1>1. PathInit => CountInv
  <2> SUFFICES ASSUME PathInit PROVE CountInv
    OBVIOUS
  <2>1. Done = {}
    BY DEF PathInit, Done
  <2> QED BY <2>1, FS_EmptySet DEF PathInit, CountInv
<1>2. TypesInv /\ PlacesInv /\ CountInv /\ [PathNext]_pathVars => CountInv'
  BY StepCounts, CountStep
<1>3. CountInv => Accounting
  BY Zenon DEF CountInv, Accounting, Done
<1> QED BY <1>1, <1>2, <1>3, TypesAlways, PlacesAlways, PTL DEF PathSpec
==========================================================================
