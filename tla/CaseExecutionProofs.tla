------------------------ MODULE CaseExecutionProofs ------------------------
(* Proofs that an execution keeps its inductive invariant IInv.            *)
EXTENDS CaseExecution, TLAPS

-----------------------------------------------------------------------------
(* The subscriber queue                                                    *)

LEMMA Concatenated ==
  ASSUME NEW S, NEW s \in Seq(S), NEW t \in Seq(S)
  PROVE  /\ s \o t \in Seq(S) /\ Len(s \o t) = Len(s) + Len(t)
         /\ \A i \in 1 .. Len(s) : (s \o t)[i] = s[i]
         /\ \A i \in 1 .. Len(t) : (s \o t)[Len(s) + i] = t[i]
OBVIOUS

LEMMA FreshEvents ==
  ASSUME NEW k \in Nat, events \in Seq(EventKinds)
  PROVE  /\ Fresh(k) \in Seq(Nat) /\ Len(Fresh(k)) = k
         /\ \A i \in 1 .. k : Fresh(k)[i] = Len(events) + i
<1>1. Len(events) \in Nat
  OBVIOUS
<1>2. \A i \in 1 .. k : Len(events) + i \in Nat
  BY <1>1
<1>3. QED
  BY <1>2 DEF Fresh

(* Newest keeps the end of a sequence: all but the first d.                *)
LEMMA NewestKeepsEnd ==
  ASSUME NEW s \in Seq(Nat)
  PROVE  \E d \in Nat :
           /\ Newest(s) \in Seq(Nat) /\ Len(Newest(s)) = Len(s) - d /\ Len(Newest(s)) <= Buffer
           /\ d = 0 \/ Len(Newest(s)) = Buffer
           /\ \A i \in 1 .. Len(Newest(s)) : Newest(s)[i] = s[d + i]
<1>1. CASE Len(s) <= Buffer
  <2>1. Newest(s) = s
    BY <1>1 DEF Newest
  <2>2. QED
    BY <1>1, <2>1
<1>2. CASE ~(Len(s) <= Buffer)
  <2> DEFINE d == Len(s) - Buffer
  <2>1. d \in Nat /\ Len(s) \in Nat
    BY <1>2, ExecutionAssumption
  <2>2. Newest(s) = SubSeq(s, d + 1, Len(s))
    BY <1>2 DEF Newest
  <2>3. /\ Newest(s) \in Seq(Nat) /\ Len(Newest(s)) = Buffer
        /\ \A i \in 1 .. Buffer : Newest(s)[i] = s[d + i]
    BY <2>1, <2>2, ExecutionAssumption
  <2>4. /\ Newest(s) \in Seq(Nat) /\ Len(Newest(s)) = Len(s) - d /\ Len(Newest(s)) <= Buffer
        /\ Len(Newest(s)) = Buffer
        /\ \A i \in 1 .. Len(Newest(s)) : Newest(s)[i] = s[d + i]
    BY <2>1, <2>3, ExecutionAssumption
  <2> HIDE DEF d
  <2>5. QED
    BY <2>1, <2>4
<1>3. QED
  BY <1>1, <1>2

(* Received and queued events stay what they should be when k more are     *)
(* queued and the oldest dropped.                                          *)
LEMMA QueueGrows ==
  ASSUME NEW g \in Seq(Nat), NEW q \in Seq(Nat), NEW from \in Nat, NEW k \in Nat \ {0},
         events \in Seq(EventKinds),
         InOrder(g \o q, from, Len(events)), UpToDate(g \o q, from, Len(events))
  PROVE  LET new == Newest(q \o Fresh(k)) IN
         /\ new \in Seq(Nat) /\ Len(new) <= Buffer
         /\ InOrder(g \o new, from, Len(events) + k)
         /\ UpToDate(g \o new, from, Len(events) + k)
<1> DEFINE n == Len(events)
<1> DEFINE seen == g \o q
<1> DEFINE full == q \o Fresh(k)
<1> DEFINE new == Newest(full)
<1> DEFINE next == g \o new
<1>1. n \in Nat /\ Len(q) \in Nat /\ Len(g) \in Nat
  OBVIOUS
<1>2. /\ seen \in Seq(Nat) /\ Len(seen) = Len(g) + Len(q)
      /\ \A i \in 1 .. Len(g) : seen[i] = g[i]
      /\ \A i \in 1 .. Len(q) : seen[Len(g) + i] = q[i]
  BY Concatenated
<1>3. /\ full \in Seq(Nat) /\ Len(full) = Len(q) + k
      /\ \A i \in 1 .. Len(q) : full[i] = q[i]
      /\ \A i \in 1 .. k : full[Len(q) + i] = n + i
  <2>1. k \in Nat
    OBVIOUS
  <2>2. /\ Fresh(k) \in Seq(Nat) /\ Len(Fresh(k)) = k
        /\ \A i \in 1 .. k : Fresh(k)[i] = n + i
    BY <2>1, FreshEvents
  <2>3. /\ full \in Seq(Nat) /\ Len(full) = Len(q) + Len(Fresh(k))
        /\ \A i \in 1 .. Len(q) : full[i] = q[i]
        /\ \A i \in 1 .. Len(Fresh(k)) : full[Len(q) + i] = Fresh(k)[i]
    <3> DEFINE f == Fresh(k)
    <3>1. f \in Seq(Nat)
      BY <2>2
    <3> HIDE DEF f
    <3>2. /\ q \o f \in Seq(Nat) /\ Len(q \o f) = Len(q) + Len(f)
          /\ \A i \in 1 .. Len(q) : (q \o f)[i] = q[i]
          /\ \A i \in 1 .. Len(f) : (q \o f)[Len(q) + i] = f[i]
      BY <3>1, Concatenated
    <3>3. QED
      BY <3>2 DEF f
  <2> HIDE DEF full
  <2>4. QED
    BY <2>2, <2>3
<1> HIDE DEF full
<1>4. PICK d \in Nat :
        /\ new \in Seq(Nat) /\ Len(new) = Len(full) - d /\ Len(new) <= Buffer
        /\ d = 0 \/ Len(new) = Buffer
        /\ \A i \in 1 .. Len(new) : new[i] = full[d + i]
  BY <1>3, NewestKeepsEnd
<1> HIDE DEF new
<1>5. /\ next \in Seq(Nat) /\ Len(next) = Len(g) + Len(new)
      /\ \A i \in 1 .. Len(g) : next[i] = g[i]
      /\ \A i \in 1 .. Len(new) : next[Len(g) + i] = new[i]
  <2>1. new \in Seq(Nat)
    BY <1>4
  <2>2. QED
    BY <2>1, Concatenated
<1>6. /\ \A i \in 1 .. Len(seen) : from < seen[i] /\ seen[i] <= n
      /\ \A i, j \in 1 .. Len(seen) : i < j => seen[i] < seen[j]
  <2>1. DOMAIN seen = 1 .. Len(seen)
    BY <1>2
  <2>2. QED
    BY <2>1 DEF InOrder, seen
<1> HIDE DEF seen, next
<1>7. \A i \in 1 .. Len(next) :
        \/ i <= Len(g) /\ i \in 1 .. Len(seen) /\ next[i] = seen[i]
        \/ i > Len(g) /\ i + d \in 1 .. Len(seen) /\ next[i] = seen[i + d]
        \/ i > Len(g) /\ i + d > Len(seen) /\ next[i] = n + (i + d - Len(seen))
  <2> SUFFICES ASSUME NEW i \in 1 .. Len(next)
               PROVE  \/ i <= Len(g) /\ i \in 1 .. Len(seen) /\ next[i] = seen[i]
                      \/ i > Len(g) /\ i + d \in 1 .. Len(seen) /\ next[i] = seen[i + d]
                      \/ i > Len(g) /\ i + d > Len(seen) /\ next[i] = n + (i + d - Len(seen))
    OBVIOUS
  <2>1. CASE i <= Len(g)
    BY <1>1, <1>2, <1>5, <2>1
  <2>2. CASE i > Len(g)
    <3> DEFINE j == i - Len(g)
    <3>1. j \in 1 .. Len(new) /\ i = Len(g) + j
      <4>1. Len(new) \in Nat /\ Len(next) = Len(g) + Len(new) /\ i \in Nat
        BY <1>4, <1>5
      <4>2. QED
        BY <1>1, <2>2, <4>1
    <3>2. next[i] = full[d + j]
      BY <1>4, <1>5, <3>1
    <3>3. d + j \in 1 .. Len(q) + k
      BY <1>1, <1>3, <1>4, <3>1
    <3>4. CASE d + j <= Len(q)
      <4>0. d + j \in 1 .. Len(q)
        BY <1>1, <3>3, <3>4
      <4>1. full[d + j] = q[d + j] /\ seen[Len(g) + (d + j)] = q[d + j]
        BY <1>2, <1>3, <4>0
      <4>2. Len(g) + (d + j) = i + d /\ i + d \in 1 .. Len(seen)
        BY <1>1, <1>2, <3>1, <3>3, <3>4
      <4>3. QED
        BY <2>2, <3>2, <4>1, <4>2
    <3>5. CASE d + j > Len(q)
      <4> DEFINE m == d + j - Len(q)
      <4>1. m \in 1 .. k /\ d + j = Len(q) + m /\ m = i + d - Len(seen) /\ i + d > Len(seen)
        BY <1>1, <1>2, <3>1, <3>3, <3>5
      <4>2. full[d + j] = n + m
        BY <1>3, <4>1
      <4>3. QED
        BY <2>2, <3>2, <4>1, <4>2
    <3>6. QED
      BY <1>1, <3>3, <3>4, <3>5
  <2>3. QED
    BY <1>1, <2>1, <2>2
<1>8. Len(next) + d = Len(seen) + k /\ Len(next) \in Nat /\ Len(seen) \in Nat
  BY <1>1, <1>2, <1>3, <1>4, <1>5
<1>9. /\ \A i \in 1 .. Len(next) : from < next[i] /\ next[i] <= n + k
      /\ \A i, j \in 1 .. Len(next) : i < j => next[i] < next[j]
  <2>1. \A i \in 1 .. Len(seen) : seen[i] \in Nat
    BY <1>2 DEF seen
  <2>2. from <= n
    BY DEF InOrder, seen
  <2>3. \A i \in 1 .. Len(next) : from < next[i] /\ next[i] <= n + k
    <3> SUFFICES ASSUME NEW i \in 1 .. Len(next)
                 PROVE  from < next[i] /\ next[i] <= n + k
      OBVIOUS
    <3>1. CASE i \in 1 .. Len(seen) /\ next[i] = seen[i]
      BY <1>1, <1>6, <2>1, <3>1
    <3>2. CASE i + d \in 1 .. Len(seen) /\ next[i] = seen[i + d]
      BY <1>1, <1>6, <2>1, <3>2
    <3>3. CASE i + d > Len(seen) /\ next[i] = n + (i + d - Len(seen))
      <4>1. i + d - Len(seen) \in 1 .. k
        BY <1>8, <3>3
      <4>2. QED
        BY <1>1, <2>2, <3>3, <4>1
    <3>4. QED
      BY <1>7, <3>1, <3>2, <3>3
  <2>4. \A i, j \in 1 .. Len(next) : i < j => next[i] < next[j]
    <3> SUFFICES ASSUME NEW i \in 1 .. Len(next), NEW j \in 1 .. Len(next), i < j
                 PROVE  next[i] < next[j]
      OBVIOUS
    <3>1. CASE i <= Len(g) /\ i \in 1 .. Len(seen) /\ next[i] = seen[i]
      <4>1. CASE j \in 1 .. Len(seen) /\ next[j] = seen[j]
        BY <1>6, <3>1, <4>1
      <4>2. CASE j + d \in 1 .. Len(seen) /\ next[j] = seen[j + d]
        <5>1. i < j + d
          BY <1>4
        <5>2. QED
          BY <1>6, <3>1, <4>2, <5>1
      <4>3. CASE j + d > Len(seen) /\ next[j] = n + (j + d - Len(seen))
        <5>1. seen[i] <= n /\ seen[i] \in Nat
          BY <1>6, <2>1, <3>1
        <5>2. j + d - Len(seen) \in 1 .. k
          BY <1>8, <4>3
        <5>3. QED
          BY <1>1, <3>1, <4>3, <5>1, <5>2
      <4>4. QED
        BY <1>7, <4>1, <4>2, <4>3
    <3>2. CASE i > Len(g) /\ i + d \in 1 .. Len(seen) /\ next[i] = seen[i + d]
      <4>1. CASE j + d \in 1 .. Len(seen) /\ next[j] = seen[j + d]
        <5>1. i + d < j + d
          BY <1>4
        <5>2. QED
          BY <1>6, <3>2, <4>1, <5>1
      <4>2. CASE j + d > Len(seen) /\ next[j] = n + (j + d - Len(seen))
        <5>1. seen[i + d] <= n /\ seen[i + d] \in Nat
          BY <1>6, <2>1, <3>2
        <5>2. j + d - Len(seen) \in 1 .. k
          BY <1>8, <4>2
        <5>3. QED
          BY <1>1, <3>2, <4>2, <5>1, <5>2
      <4>3. ~(j <= Len(g))
        BY <1>1, <3>2
      <4>4. QED
        BY <1>7, <4>1, <4>2, <4>3
    <3>3. CASE i > Len(g) /\ i + d > Len(seen) /\ next[i] = n + (i + d - Len(seen))
      <4>1. j + d > Len(seen) /\ ~(j <= Len(g)) /\ j + d \notin 1 .. Len(seen)
        BY <1>1, <1>4, <1>8, <3>3
      <4>2. next[j] = n + (j + d - Len(seen))
        BY <1>7, <4>1
      <4>3. QED
        BY <1>1, <1>4, <1>8, <3>3, <4>2
    <3>4. QED
      BY <1>7, <3>1, <3>2, <3>3
  <2>5. QED
    BY <2>3, <2>4
<1>10. InOrder(next, from, n + k)
  <2>1. from <= n + k
    BY <1>1 DEF InOrder, seen
  <2>2. DOMAIN next = 1 .. Len(next)
    BY <1>5
  <2>3. QED
    BY <1>9, <2>1, <2>2 DEF InOrder
<1>11. next # <<>> /\ next[Len(next)] = n + k
  <2>1. Len(new) > 0
    BY <1>1, <1>3, <1>4, ExecutionAssumption
  <2>2. Len(next) \in 1 .. Len(next) /\ Len(next) > Len(g)
    BY <1>1, <1>5, <1>8, <2>1
  <2>3. Len(next) + d > Len(seen) /\ Len(next) + d - Len(seen) = k
    BY <1>8
  <2>4. next[Len(next)] = n + k
    <3>1. ~(Len(next) <= Len(g)) /\ Len(next) + d \notin 1 .. Len(seen)
      BY <1>1, <1>8, <2>2, <2>3
    <3>2. next[Len(next)] = n + (Len(next) + d - Len(seen))
      BY <1>7, <2>2, <3>1
    <3>3. QED
      BY <2>3, <3>2
  <2>5. QED
    BY <2>2, <2>4
<1>12. ASSUME n + k - from <= Buffer
       PROVE  Len(next) = n + k - from /\ \A i \in 1 .. Len(next) : next[i] = from + i
  <2>1. n - from <= Buffer
    BY <1>1, <1>12, ExecutionAssumption
  <2>2. Len(seen) = n - from /\ \A i \in 1 .. Len(seen) : seen[i] = from + i
    <3>1. DOMAIN seen = 1 .. Len(seen)
      BY <1>2
    <3>2. Len(seen) = n - from /\ \A i \in DOMAIN seen : seen[i] = from + i
      BY <2>1 DEF UpToDate, seen
    <3>3. QED
      BY <3>1, <3>2
  <2>3. Len(full) <= Buffer
    BY <1>1, <1>2, <1>3, <1>12, <2>2, ExecutionAssumption
  <2>4. d = 0
    BY <1>1, <1>3, <1>4, <2>3, ExecutionAssumption
  <2>5. Len(next) = n + k - from
    BY <1>1, <1>8, <2>2, <2>4
  <2>6. ASSUME NEW i \in 1 .. Len(next)
        PROVE  next[i] = from + i
    <3>1. CASE i + d \in 1 .. Len(seen)
      <4>1. next[i] = seen[i]
        BY <1>7, <2>4, <3>1
      <4>2. QED
        BY <2>2, <2>4, <3>1, <4>1
    <3>2. CASE i + d \notin 1 .. Len(seen)
      BY <1>1, <1>7, <1>8, <2>2, <2>4, <3>2
    <3>3. QED
      BY <3>1, <3>2
  <2>7. QED
    BY <2>5, <2>6
<1>13. UpToDate(next, from, n + k)
  BY <1>5, <1>11, <1>12 DEF UpToDate
<1>14. QED
  BY <1>4, <1>10, <1>13 DEF full, new, next

-----------------------------------------------------------------------------
(* The transcript and its clients                                          *)

(* What a step that emits does to the events.                              *)
LEMMA Transcribed ==
  ASSUME TypeOK, NEW kinds \in Seq(EventKinds), Emit(kinds)
  PROVE  /\ kind = "comparison" => events' = events /\ queue' = queue
         /\ kind = "run" =>
              /\ events' = events \o kinds /\ Len(events') = Len(events) + Len(kinds)
              /\ \A i \in 1 .. Len(events) : events'[i] = events[i]
              /\ \A i \in 1 .. Len(kinds) : events'[Len(events) + i] = kinds[i]
         /\ events' \in Seq(EventKinds)
<1>1. kind \in {"run", "comparison"} /\ events \in Seq(EventKinds)
  BY DEF TypeOK
<1>2. CASE kind = "comparison"
  BY <1>1, <1>2 DEF Emit
<1>3. CASE kind = "run"
  <2>1. events' = events \o kinds
    BY <1>3 DEF Emit
  <2>2. QED
    BY <1>1, <1>3, <2>1, Concatenated
<1>4. QED
  BY <1>1, <1>2, <1>3

(* A longer transcript only makes what is in order older.                  *)
LEMMA StaysInOrder ==
  ASSUME NEW seen \in Seq(Nat), NEW from \in Nat, NEW n \in Nat, NEW m \in Nat, n <= m,
         InOrder(seen, from, n)
  PROVE  InOrder(seen, from, m)
<1>1. \A i \in DOMAIN seen : seen[i] \in Nat
  OBVIOUS
<1>2. QED
  BY <1>1 DEF InOrder

(* A step of the running task that emits keeps the streams.                *)
LEMMA Emitted ==
  ASSUME TypeOK, StreamInv, NEW kinds \in Seq(EventKinds), kinds # <<>>, Emit(kinds),
         UNCHANGED <<kind, clients>>, pc # "done"
  PROVE  /\ StreamInv'
         /\ queue' \in [Clients -> Seq(Nat)] /\ \A c \in Clients : Len(queue'[c]) <= Buffer
<1>1. /\ kind \in {"run", "comparison"} /\ events \in Seq(EventKinds)
      /\ queue \in [Clients -> Seq(Nat)] /\ got \in [Clients -> Seq(Nat)]
      /\ since \in [Clients -> Nat] /\ \A c \in Clients : Len(queue[c]) <= Buffer
  BY DEF TypeOK
<1>2. client' = client /\ got' = got /\ since' = since
  BY DEF clients
<1>3. \A c \in Clients : client[c] # "ended"
  BY DEF StreamInv
<1>4. CASE kind = "comparison"
  <2>1. events' = events /\ queue' = queue
    BY <1>4 DEF Emit
  <2>2. QED
    BY <1>1, <1>2, <1>3, <2>1 DEF StreamInv
<1>5. CASE kind = "run"
  <2> DEFINE k == Len(kinds)
  <2>1. k \in Nat \ {0} /\ Len(events) \in Nat
    BY <1>1
  <2>2. Len(events') = Len(events) + k
    BY <1>5, Transcribed
  <2>3. queue' = [c \in Clients |->
                    IF client[c] = "streaming" THEN Newest(queue[c] \o Fresh(k)) ELSE queue[c]]
    BY <1>5 DEF Emit
  <2> HIDE DEF k
  <2>4. ASSUME NEW c \in Clients
        PROVE  /\ queue'[c] \in Seq(Nat) /\ Len(queue'[c]) <= Buffer
               /\ client[c] # "streaming" => queue'[c] = <<>>
               /\ client[c] \in {"idle", "refused"} => got[c] = <<>>
               /\ InOrder(got[c] \o queue'[c], since[c], Len(events'))
               /\ client[c] = "streaming" =>
                    UpToDate(got[c] \o queue'[c], since[c], Len(events'))
    <3>1. got[c] \in Seq(Nat) /\ queue[c] \in Seq(Nat) /\ since[c] \in Nat
      BY <1>1
    <3>2. InOrder(got[c] \o queue[c], since[c], Len(events))
      BY DEF StreamInv
    <3>3. CASE client[c] = "streaming"
      <4>1. UpToDate(got[c] \o queue[c], since[c], Len(events))
        BY <3>3 DEF StreamInv
      <4>2. queue'[c] = Newest(queue[c] \o Fresh(k))
        BY <2>3, <3>3
      <4>3. QED
        BY <1>1, <2>1, <2>2, <3>1, <3>2, <3>3, <4>1, <4>2, QueueGrows
    <3>4. CASE client[c] # "streaming"
      <4>1. queue'[c] = queue[c]
        BY <2>3, <3>4
      <4>2. got[c] \o queue[c] \in Seq(Nat)
        BY <3>1, Concatenated
      <4>3. InOrder(got[c] \o queue[c], since[c], Len(events) + k)
        <5> DEFINE seen == got[c] \o queue[c]
        <5>1. seen \in Seq(Nat) /\ InOrder(seen, since[c], Len(events))
          BY <3>2, <4>2
        <5>2. Len(events) + k \in Nat /\ Len(events) <= Len(events) + k
          BY <2>1
        <5> HIDE DEF seen
        <5>3. InOrder(seen, since[c], Len(events) + k)
          BY <2>1, <3>1, <5>1, <5>2, StaysInOrder
        <5>4. QED
          BY <5>3 DEF seen
      <4>4. QED
        BY <1>1, <2>2, <3>1, <3>4, <4>1, <4>3 DEF StreamInv
    <3>5. QED
      BY <3>3, <3>4
  <2>5. queue' \in [Clients -> Seq(Nat)]
    BY <2>3, <2>4
  <2>6. QED
    BY <1>2, <1>3, <2>4, <2>5 DEF StreamInv
<1>6. QED
  BY <1>1, <1>4, <1>5

(* A step that emits one event.                                            *)
LEMMA EmittedOne ==
  ASSUME TypeOK, StreamInv, NEW e \in EventKinds, Emit(<<e>>),
         UNCHANGED <<kind, clients>>, pc # "done"
  PROVE  /\ StreamInv'
         /\ queue' \in [Clients -> Seq(Nat)] /\ \A c \in Clients : Len(queue'[c]) <= Buffer
         /\ events' \in Seq(EventKinds)
         /\ kind = "comparison" => events' = events
         /\ kind = "run" =>
              /\ Len(events') = Len(events) + 1 /\ events'[Len(events) + 1] = e
              /\ \A i \in 1 .. Len(events) : events'[i] = events[i]
<1> DEFINE kinds == <<e>>
<1>1. /\ kinds \in Seq(EventKinds) /\ kinds # <<>> /\ Len(kinds) = 1 /\ kinds[1] = e
      /\ Emit(kinds)
  OBVIOUS
<1> HIDE DEF kinds
<1>2. /\ StreamInv'
      /\ queue' \in [Clients -> Seq(Nat)] /\ \A c \in Clients : Len(queue'[c]) <= Buffer
  BY <1>1, Emitted
<1>3. /\ events' \in Seq(EventKinds)
      /\ kind = "comparison" => events' = events
      /\ kind = "run" =>
           /\ Len(events') = Len(events) + Len(kinds)
           /\ \A i \in 1 .. Len(events) : events'[i] = events[i]
           /\ \A i \in 1 .. Len(kinds) : events'[Len(events) + i] = kinds[i]
  BY <1>1, Transcribed
<1>4. kind = "run" => Len(events') = Len(events) + 1 /\ events'[Len(events) + 1] = e
  <2>1. 1 \in 1 .. Len(kinds)
    BY <1>1
  <2>2. QED
    BY <1>1, <1>3, <2>1
<1>5. QED
  BY <1>2, <1>3, <1>4

(* So does one that does not.                                              *)
LEMMA Silenced ==
  ASSUME TypeOK, StreamInv, Silent, UNCHANGED clients, pc = "done" => pc' = "done"
  PROVE  /\ StreamInv'
         /\ queue' \in [Clients -> Seq(Nat)] /\ \A c \in Clients : Len(queue'[c]) <= Buffer
         /\ events' \in Seq(EventKinds)
BY DEF TypeOK, StreamInv, Silent, clients

-----------------------------------------------------------------------------
(* The task                                                                *)

(* A task that goes on has no result to be wrong and nothing to hide.      *)
LEMMA Underway ==
  ASSUME TaskInv', pc' # "done"
  PROVE  EnvironmentIsRolledBack' /\ ResultIsTranscript'
BY DEF TaskInv, EnvironmentIsRolledBack, ResultIsTranscript

(* The types that a step of the task has to see to.                        *)
TaskTypeOK ==
  /\ pc \in {"validate", "create", "seed", "turn", "capture", "report", "cleanup", "done"}
  /\ left \in 0 .. 2 * MaxCases /\ spoken \in 0 .. MaxTurnEvents /\ answered \in BOOLEAN
  /\ env \in {"none", "open", "closed", "broken"}
  /\ error \in Codes /\ code \in Codes /\ result \in Seq(EventKinds)
  /\ status \in {"running", "completed", "failed"}

LEMMA TaskTyped ==
  ASSUME TypeOK, TaskTypeOK', UNCHANGED <<kind, clients>>, events' \in Seq(EventKinds),
         queue' \in [Clients -> Seq(Nat)], \A c \in Clients : Len(queue'[c]) <= Buffer
  PROVE  TypeOK'
BY DEF TypeOK, TaskTypeOK, clients

LEMMA KeepsValidate ==
  ASSUME IInv, NEW accepted \in BOOLEAN, Validate(accepted)
  PROVE  IInv'
<1> USE DEF Validate, handle
<1>1. TypeOK /\ TaskInv /\ TranscriptInv /\ StreamInv /\ UNCHANGED <<kind, clients>> /\ pc # "done"
  BY DEF IInv
<1>2. /\ StreamInv' /\ events' = events /\ events' \in Seq(EventKinds)
      /\ queue' \in [Clients -> Seq(Nat)] /\ \A c \in Clients : Len(queue'[c]) <= Buffer
  BY <1>1, Silenced DEF Silent
<1>3. TaskTypeOK'
  BY <1>1 DEF TypeOK, TaskTypeOK, Fail, Codes
<1>4. TypeOK'
  BY <1>1, <1>2, <1>3, TaskTyped
<1>5. TaskInv'
  BY <1>1 DEF TaskInv, Fail
<1>6. TranscriptInv'
  BY <1>1, <1>2 DEF TranscriptInv, Fail
<1>7. EnvironmentIsRolledBack' /\ ResultIsTranscript'
  BY <1>1, <1>5, Underway DEF TaskInv, Fail, EnvironmentIsRolledBack, ResultIsTranscript
<1>8. QED
  BY <1>2, <1>4, <1>5, <1>6, <1>7 DEF IInv

LEMMA KeepsCreate ==
  ASSUME IInv, NEW outcome \in {"created", "unverified", "unreachable"}, Create(outcome)
  PROVE  IInv'
<1> USE DEF Create, handle, Raise
<1>1. TypeOK /\ TaskInv /\ TranscriptInv /\ StreamInv /\ UNCHANGED <<kind, clients>> /\ pc # "done"
  BY DEF IInv
<1>2. CASE outcome = "created"
  <2>1. "environment.created" \in EventKinds /\ Emit(<<"environment.created">>)
    BY <1>2 DEF EventKinds
  <2>2. /\ StreamInv' /\ events' \in Seq(EventKinds)
        /\ queue' \in [Clients -> Seq(Nat)] /\ \A c \in Clients : Len(queue'[c]) <= Buffer
        /\ kind = "comparison" => events' = events
        /\ kind = "run" =>
             Len(events') = Len(events) + 1 /\ events'[Len(events) + 1] = "environment.created"
    BY <1>1, <2>1, EmittedOne
  <2>4. TaskTypeOK'
    BY <1>1, <1>2 DEF TypeOK, TaskTypeOK
  <2>5. TypeOK'
    BY <1>1, <2>2, <2>4, TaskTyped
  <2>6. TaskInv'
    BY <1>1, <1>2 DEF TaskInv
  <2>7. kind = "run" => events = <<>> /\ left <= 1
    BY <1>1 DEF TranscriptInv
  <2>8. TranscriptInv'
    <3>1. kind = "run" => Len(events') = 1 /\ events'[1] = "environment.created"
      BY <2>2, <2>7
    <3>2. QED
      BY <1>1, <1>2, <2>2, <2>7, <3>1 DEF TranscriptInv, TypeOK
  <2>9. QED
    BY <1>2, <2>2, <2>5, <2>6, <2>8, Underway DEF IInv
<1>3. CASE outcome # "created"
  <2>1. /\ StreamInv' /\ events' = events /\ events' \in Seq(EventKinds)
        /\ queue' \in [Clients -> Seq(Nat)] /\ \A c \in Clients : Len(queue'[c]) <= Buffer
    BY <1>1, <1>3, Silenced DEF Silent
  <2>2. TaskTypeOK'
    BY <1>1, <1>3 DEF TypeOK, TaskTypeOK, Codes
  <2>3. TypeOK'
    BY <1>1, <2>1, <2>2, TaskTyped
  <2>4. TaskInv'
    BY <1>1, <1>3 DEF TaskInv
  <2>5. TranscriptInv'
    BY <1>1, <1>3, <2>1 DEF TranscriptInv
  <2>6. QED
    BY <1>3, <2>1, <2>3, <2>4, <2>5, Underway DEF IInv
<1>4. QED
  BY <1>2, <1>3

LEMMA KeepsSeed ==
  ASSUME IInv, NEW loaded \in BOOLEAN, Seed(loaded)
  PROVE  IInv'
<1> USE DEF Seed, handle, Raise
<1>1. TypeOK /\ TaskInv /\ TranscriptInv /\ StreamInv /\ UNCHANGED <<kind, clients>> /\ pc # "done"
  BY DEF IInv
<1>2. TaskTypeOK'
  <2>1. 0 \in 0 .. MaxTurnEvents
    BY ExecutionAssumption
  <2>2. pc' \in {"turn", "cleanup"} /\ error' \in Codes
    BY <1>1 DEF TypeOK, Codes
  <2>3. QED
    BY <1>1, <2>1, <2>2 DEF TypeOK, TaskTypeOK
<1>3. TaskInv'
  BY <1>1 DEF TaskInv
<1>4. CASE loaded
  <2>1. "environment.seeded" \in EventKinds /\ Emit(<<"environment.seeded">>)
    BY <1>4 DEF EventKinds
  <2>2. /\ StreamInv' /\ events' \in Seq(EventKinds)
        /\ queue' \in [Clients -> Seq(Nat)] /\ \A c \in Clients : Len(queue'[c]) <= Buffer
        /\ kind = "comparison" => events' = events
        /\ kind = "run" =>
             /\ Len(events') = Len(events) + 1 /\ events'[Len(events) + 1] = "environment.seeded"
             /\ \A i \in 1 .. Len(events) : events'[i] = events[i]
    BY <1>1, <2>1, EmittedOne
  <2>3. TypeOK'
    BY <1>1, <1>2, <2>2, TaskTyped
  <2>4. kind = "run" => Len(events) = 1 /\ events[1] = "environment.created" /\ left <= 1
    BY <1>1 DEF TranscriptInv
  <2>5. kind = "run" => Began(Len(events))'
    <3>1. kind = "run" =>
            Len(events') = 2 /\ events'[1] = events[1] /\ events'[2] = "environment.seeded"
      <4> SUFFICES ASSUME kind = "run"
                   PROVE  /\ Len(events') = 2 /\ events'[1] = events[1]
                          /\ events'[2] = "environment.seeded"
        OBVIOUS
      <4> DEFINE n == Len(events)
      <4>1. n = 1
        BY <2>4
      <4>2. /\ Len(events') = n + 1 /\ events'[n + 1] = "environment.seeded"
            /\ \A i \in 1 .. n : events'[i] = events[i]
        BY <2>2
      <4> HIDE DEF n
      <4>3. 1 + 1 = 2 /\ 1 \in 1 .. 1
        OBVIOUS
      <4>4. QED
        BY <4>1, <4>2, <4>3
    <3>2. QED
      BY <2>4, <3>1 DEF Began
  <2>6. TranscriptInv'
    BY <1>1, <1>4, <2>2, <2>4, <2>5 DEF TranscriptInv, TypeOK
  <2>7. QED
    BY <1>3, <1>4, <2>2, <2>3, <2>6, Underway DEF IInv
<1>5. CASE ~loaded
  <2>1. /\ StreamInv' /\ events' = events /\ events' \in Seq(EventKinds)
        /\ queue' \in [Clients -> Seq(Nat)] /\ \A c \in Clients : Len(queue'[c]) <= Buffer
    BY <1>1, <1>5, Silenced DEF Silent
  <2>2. TypeOK'
    BY <1>1, <1>2, <2>1, TaskTyped
  <2>3. TranscriptInv'
    BY <1>1, <1>5, <2>1 DEF TranscriptInv
  <2>4. QED
    BY <1>3, <1>5, <2>1, <2>2, <2>3, Underway DEF IInv
<1>6. QED
  BY <1>4, <1>5

LEMMA KeepsTurnEvent ==
  ASSUME IInv, TurnEvent
  PROVE  IInv'
<1> USE DEF TurnEvent, handle
<1>1. TypeOK /\ TaskInv /\ TranscriptInv /\ StreamInv /\ UNCHANGED <<kind, clients>> /\ pc # "done"
  BY DEF IInv
<1>2. /\ StreamInv' /\ events' \in Seq(EventKinds)
      /\ queue' \in [Clients -> Seq(Nat)] /\ \A c \in Clients : Len(queue'[c]) <= Buffer
      /\ kind = "comparison" => events' = events
      /\ kind = "run" =>
           /\ Len(events') = Len(events) + 1 /\ events'[Len(events) + 1] = "turn"
           /\ \A i \in 1 .. Len(events) : events'[i] = events[i]
  <2>1. "turn" \in EventKinds /\ Emit(<<"turn">>)
    BY DEF EventKinds
  <2>2. QED
    BY <1>1, <2>1, EmittedOne
<1>3. TaskTypeOK'
  BY <1>1, ExecutionAssumption DEF TypeOK, TaskTypeOK
<1>4. TypeOK'
  BY <1>1, <1>2, <1>3, TaskTyped
<1>5. TaskInv'
  BY <1>1 DEF TaskInv
<1>6. kind = "run" => Began(Len(events)) /\ left <= 1 /\ Len(events) \in Nat
  BY <1>1 DEF TranscriptInv, TypeOK
<1>7. kind = "run" => Began(Len(events))'
  <2>1. SUFFICES ASSUME kind = "run"
                 PROVE  Began(Len(events))'
    OBVIOUS
  <2> DEFINE n == Len(events)
  <2>2. n \in Nat /\ n >= 2 /\ Len(events') = n + 1
    BY <1>2, <1>6, <2>1 DEF Began
  <2>3. events'[1] = events[1] /\ events'[2] = events[2]
    BY <1>2, <2>1, <2>2
  <2>4. ASSUME NEW i \in 3 .. n + 1
        PROVE  events'[i] \in {"turn", "evaluator.result"}
    <3>1. CASE i \in 1 .. n
      BY <1>2, <1>6, <2>1, <2>2, <3>1 DEF Began
    <3>2. CASE i = n + 1
      BY <1>2, <2>1, <3>2
    <3>3. QED
      BY <2>2, <3>1, <3>2
  <2>5. QED
    BY <1>6, <2>1, <2>2, <2>3, <2>4 DEF Began
<1>8. TranscriptInv'
  BY <1>1, <1>2, <1>6, <1>7 DEF TranscriptInv, TypeOK
<1>9. QED
  BY <1>1, <1>2, <1>4, <1>5, <1>8, Underway DEF IInv

(* The two steps of the turn and its measurement that may fail.            *)
LEMMA KeepsTurnEnds ==
  ASSUME IInv, NEW outcome \in {"answered", "aborted", "domain_error", "model_run_error"},
         TurnEnds(outcome)
  PROVE  IInv'
<1> USE DEF TurnEnds, handle, Raise
<1>1. TypeOK /\ TaskInv /\ TranscriptInv /\ StreamInv /\ UNCHANGED <<kind, clients>> /\ pc # "done"
  BY DEF IInv
<1>2. /\ StreamInv' /\ events' = events /\ events' \in Seq(EventKinds)
      /\ queue' \in [Clients -> Seq(Nat)] /\ \A c \in Clients : Len(queue'[c]) <= Buffer
  BY <1>1, Silenced DEF Silent
<1>3. TaskTypeOK'
  BY <1>1 DEF TypeOK, TaskTypeOK, Codes
<1>4. TypeOK'
  BY <1>1, <1>2, <1>3, TaskTyped
<1>5. TaskInv'
  BY <1>1 DEF TaskInv
<1>6. TranscriptInv'
  BY <1>1, <1>2 DEF TranscriptInv, TaskInv, Began
<1>7. QED
  BY <1>2, <1>4, <1>5, <1>6, Underway DEF IInv

LEMMA KeepsCapture ==
  ASSUME IInv, NEW read \in BOOLEAN, Capture(read)
  PROVE  IInv'
<1> USE DEF Capture, handle, Raise
<1>1. TypeOK /\ TaskInv /\ TranscriptInv /\ StreamInv /\ UNCHANGED <<kind, clients>> /\ pc # "done"
  BY DEF IInv
<1>2. /\ StreamInv' /\ events' = events /\ events' \in Seq(EventKinds)
      /\ queue' \in [Clients -> Seq(Nat)] /\ \A c \in Clients : Len(queue'[c]) <= Buffer
  BY <1>1, Silenced DEF Silent
<1>3. TaskTypeOK'
  BY <1>1 DEF TypeOK, TaskTypeOK, Codes
<1>4. TypeOK'
  BY <1>1, <1>2, <1>3, TaskTyped
<1>5. TaskInv'
  BY <1>1 DEF TaskInv
<1>6. TranscriptInv'
  BY <1>1, <1>2 DEF TranscriptInv, TaskInv, Began
<1>7. QED
  BY <1>2, <1>4, <1>5, <1>6, Underway DEF IInv

LEMMA KeepsReport ==
  ASSUME IInv, NEW evaluated \in BOOLEAN, Report(evaluated)
  PROVE  IInv'
<1> USE DEF Report, handle, Raise
<1>1. TypeOK /\ TaskInv /\ TranscriptInv /\ StreamInv /\ UNCHANGED <<kind, clients>> /\ pc # "done"
  BY DEF IInv
<1>2. TaskTypeOK'
  BY <1>1 DEF TypeOK, TaskTypeOK, Codes
<1>3. TaskInv'
  BY <1>1 DEF TaskInv
<1>4. CASE evaluated
  <2> DEFINE k == IF answered THEN Evaluators ELSE 0
  <2> DEFINE results == Repeat("evaluator.result", k)
  <2> DEFINE kinds == results \o <<"run.completed">>
  <2>1. k \in Nat
    BY ExecutionAssumption
  <2>2. Emit(kinds)
    BY <1>4
  <2> HIDE DEF k
  <2>3. /\ results \in Seq(EventKinds) /\ Len(results) = k
        /\ \A i \in 1 .. k : results[i] = "evaluator.result"
    BY <2>1 DEF Repeat, EventKinds
  <2> HIDE DEF results
  <2>4. <<"run.completed">> \in Seq(EventKinds)
    BY DEF EventKinds
  <2>5. /\ kinds \in Seq(EventKinds) /\ Len(kinds) = k + 1 /\ kinds[k + 1] = "run.completed"
        /\ \A i \in 1 .. k : kinds[i] = "evaluator.result"
    BY <2>1, <2>3, <2>4
  <2>6. kinds # <<>>
    BY <2>1, <2>5
  <2> HIDE DEF kinds
  <2>7. /\ StreamInv'
        /\ queue' \in [Clients -> Seq(Nat)] /\ \A c \in Clients : Len(queue'[c]) <= Buffer
    BY <1>1, <2>2, <2>5, <2>6, Emitted
  <2>8. /\ kind = "comparison" => events' = events
        /\ kind = "run" =>
             /\ Len(events') = Len(events) + Len(kinds)
             /\ \A i \in 1 .. Len(events) : events'[i] = events[i]
             /\ \A i \in 1 .. Len(kinds) : events'[Len(events) + i] = kinds[i]
        /\ events' \in Seq(EventKinds)
    BY <1>1, <2>2, <2>5, Transcribed
  <2>9. TypeOK'
    BY <1>1, <1>2, <2>7, <2>8, TaskTyped
  <2>10. ASSUME kind = "run"
         PROVE  /\ events'[Len(events')] = "run.completed" /\ left <= 1
                /\ (Began(Len(events) - 1))'
    <3> DEFINE n == Len(events)
    <3>1. Began(n) /\ left <= 1 /\ n \in Nat
      BY <1>1, <2>10 DEF TranscriptInv, TypeOK
    <3>2. Len(events') = n + (k + 1)
      BY <2>5, <2>8, <2>10
    <3>3. events'[n + (k + 1)] = "run.completed"
      <4>1. k + 1 \in 1 .. Len(kinds)
        BY <2>1, <2>5
      <4>2. QED
        BY <2>5, <2>8, <2>10, <4>1
    <3>4. ASSUME NEW i \in 1 .. n
          PROVE  events'[i] = events[i]
      BY <2>8, <2>10
    <3>5. ASSUME NEW i \in 3 .. n + k
          PROVE  events'[i] \in {"turn", "evaluator.result"}
      <4>1. CASE i \in 1 .. n
        BY <3>1, <3>4, <4>1 DEF Began
      <4>2. CASE i \notin 1 .. n
        <5>1. i - n \in 1 .. k /\ i - n \in 1 .. Len(kinds) /\ n + (i - n) = i
          BY <2>1, <2>5, <3>1, <4>2
        <5>2. events'[n + (i - n)] = kinds[i - n] /\ kinds[i - n] = "evaluator.result"
          BY <2>5, <2>8, <2>10, <5>1
        <5>3. QED
          BY <5>1, <5>2
      <4>3. QED
        BY <4>1, <4>2
    <3>6. n >= 2 /\ events'[1] = "environment.created" /\ events'[2] = "environment.seeded"
      BY <3>1, <3>4 DEF Began
    <3>7. Len(events') - 1 = n + k /\ n + k >= 2
      BY <2>1, <3>1, <3>2, <3>6
    <3> HIDE DEF n
    <3>8. (Began(Len(events) - 1))'
      BY <3>5, <3>6, <3>7 DEF Began
    <3>9. QED
      BY <3>1, <3>2, <3>3, <3>8
  <2>11. TranscriptInv'
    BY <1>1, <1>4, <2>8, <2>10 DEF TranscriptInv, TypeOK
  <2>12. QED
    BY <1>3, <1>4, <2>7, <2>9, <2>11, Underway DEF IInv
<1>5. CASE ~evaluated
  <2>1. /\ StreamInv' /\ events' = events /\ events' \in Seq(EventKinds)
        /\ queue' \in [Clients -> Seq(Nat)] /\ \A c \in Clients : Len(queue'[c]) <= Buffer
    BY <1>1, <1>5, Silenced DEF Silent
  <2>2. TypeOK'
    BY <1>1, <1>2, <2>1, TaskTyped
  <2>3. TranscriptInv'
    BY <1>1, <1>5, <2>1 DEF TranscriptInv
  <2>4. QED
    BY <1>3, <1>5, <2>1, <2>2, <2>3, Underway DEF IInv
<1>6. QED
  BY <1>4, <1>5

(* How a bundle run returns: nothing went wrong and there are more, it was *)
(* the last one, or something did.                                         *)
LEMMA Returned ==
  ASSUME TypeOK, TaskInv, NEW v \in Codes, pc # "done", Return(v), error' = "none",
         env' # "open", v = "none" => env' \in {"none", "closed"}, events' \in Seq(EventKinds)
  PROVE  /\ pc' \in {"validate", "done"} /\ left' \in 0 .. 2 * MaxCases /\ left' <= left
         /\ code' \in Codes /\ status' \in {"running", "completed", "failed"}
         /\ result' \in Seq(EventKinds)
         /\ TaskInv'
         /\ pc' = "validate" => v = "none" /\ left > 1
         /\ status' = "completed" => v = "none" /\ result' = events'
         /\ env' = "broken" => status' = "failed"
         /\ code' # "none" => code' = v
<1>1. CASE v # "none"
  BY <1>1 DEF Return, Fail, TypeOK, TaskInv
<1>2. CASE v = "none" /\ left > 1
  <2>1. left - 1 \in 0 .. 2 * MaxCases /\ left - 1 <= left /\ left - 1 > 0
    BY <1>2, ExecutionAssumption DEF TypeOK
  <2>2. /\ pc' = "validate" /\ left' = left - 1
        /\ status' = "running" /\ code' = "none" /\ result' = result
    BY <1>2 DEF Return, handle, TaskInv
  <2>3. QED
    BY <1>2, <2>1, <2>2 DEF TypeOK, TaskInv, Codes
<1>3. CASE v = "none" /\ ~(left > 1)
  <2>1. 0 \in 0 .. 2 * MaxCases /\ 0 <= left
    BY ExecutionAssumption DEF TypeOK
  <2>2. QED
    BY <1>3, <2>1 DEF Return, TypeOK, TaskInv, Codes
<1>4. QED
  BY <1>1, <1>2, <1>3

LEMMA KeepsDestroy ==
  ASSUME IInv, NEW rolledBack \in BOOLEAN, NEW closed \in BOOLEAN, Destroy(rolledBack, closed)
  PROVE  IInv'
<1> USE DEF Destroy
<1> DEFINE cleaned == rolledBack /\ closed
<1> DEFINE v == Verdict(cleaned)
<1>1. /\ TypeOK /\ TaskInv /\ TranscriptInv /\ StreamInv /\ UNCHANGED <<kind, clients>>
      /\ pc = "cleanup" /\ pc # "done"
  BY DEF IInv
<1>2. /\ v \in Codes /\ env' # "open" /\ env' \in {"closed", "broken"}
      /\ v = "none" => cleaned /\ error = "none" /\ env' = "closed"
      /\ v = "cleanup_failure" => ~cleaned /\ error = "none"
  BY <1>1 DEF Verdict, TypeOK, TaskInv, Codes
<1>3. Return(v) /\ error' = "none"
  OBVIOUS
<1>4. /\ StreamInv' /\ events' \in Seq(EventKinds)
      /\ queue' \in [Clients -> Seq(Nat)] /\ \A c \in Clients : Len(queue'[c]) <= Buffer
      /\ kind = "comparison" => events' = events
      /\ kind = "run" /\ cleaned =>
           /\ Len(events') = Len(events) + 1
           /\ events'[Len(events) + 1] = "environment.destroyed"
           /\ \A i \in 1 .. Len(events) : events'[i] = events[i]
      /\ ~cleaned => events' = events
  <2>1. CASE cleaned
    <3>1. "environment.destroyed" \in EventKinds /\ Emit(<<"environment.destroyed">>)
      BY <2>1 DEF EventKinds
    <3>2. QED
      BY <1>1, <2>1, <3>1, EmittedOne
  <2>2. CASE ~cleaned
    BY <1>1, <2>2, Silenced DEF Silent
  <2>3. QED
    BY <2>1, <2>2
<1> HIDE DEF v
<1>5. /\ pc' \in {"validate", "done"} /\ left' \in 0 .. 2 * MaxCases /\ left' <= left
      /\ code' \in Codes /\ status' \in {"running", "completed", "failed"}
      /\ result' \in Seq(EventKinds)
      /\ TaskInv'
      /\ pc' = "validate" => v = "none" /\ left > 1
      /\ status' = "completed" => v = "none" /\ result' = events'
      /\ env' = "broken" => status' = "failed"
      /\ code' # "none" => code' = v
  <2>1. v = "none" => env' \in {"none", "closed"}
    BY <1>2
  <2>2. QED
    BY <1>1, <1>2, <1>3, <1>4, <2>1, Returned
<1>6. TypeOK'
  <2>1. TaskTypeOK'
    BY <1>1, <1>2, <1>3, <1>5 DEF TypeOK, TaskTypeOK, Codes
  <2>2. QED
    BY <1>1, <1>4, <2>1, TaskTyped
<1>7. kind = "run" => left <= 1 /\ pc' = "done"
  <2>1. kind = "run" => left <= 1
    BY <1>1 DEF TranscriptInv
  <2>2. left \in Int
    BY <1>1 DEF TypeOK
  <2>3. QED
    BY <1>5, <2>1, <2>2
<1>8. TranscriptInv'
  <2>1. left \in Int /\ left' \in Int
    BY <1>1, <1>5 DEF TypeOK
  <2>2. QED
    BY <1>1, <1>4, <1>5, <1>7, <2>1 DEF TranscriptInv, TypeOK
<1>9. kind = "run" /\ error = "none" =>
        /\ Began(Len(events) - 1) /\ events[Len(events)] = "run.completed"
        /\ Len(events) \in Nat /\ Len(events) >= 3
  BY <1>1 DEF TranscriptInv, TypeOK, Began
<1>10. EnvironmentIsRolledBack'
  <2>1. ASSUME code' = "cleanup_failure", kind = "run"
        PROVE  events' # <<>> /\ events'[Len(events')] = "run.completed"
    <3>1. ~cleaned /\ error = "none"
      BY <1>2, <1>5, <2>1
    <3>2. QED
      BY <1>4, <1>9, <2>1, <3>1
  <2>2. QED
    BY <1>1, <1>2, <1>5, <2>1 DEF EnvironmentIsRolledBack
<1>11. ResultIsTranscript'
  <2>1. SUFFICES ASSUME status' = "completed", kind = "run"
                 PROVE  ResultIsTranscript'
    BY <1>1 DEF ResultIsTranscript
  <2> DEFINE n == Len(events)
  <2>2. cleaned /\ error = "none" /\ result' = events'
    BY <1>2, <1>5, <2>1
  <2>3. /\ Began(n - 1) /\ events[n] = "run.completed" /\ n \in Nat /\ n >= 3
    BY <1>9, <2>1, <2>2
  <2>4. /\ Len(events') = n + 1 /\ events'[n + 1] = "environment.destroyed"
        /\ \A i \in 1 .. n : events'[i] = events[i]
    BY <1>4, <2>1, <2>2
  <2> HIDE DEF n
  <2>5. /\ n + 1 >= 4 /\ n + 1 - 1 = n /\ n + 1 - 2 = n - 1
        /\ 1 \in 1 .. n /\ 2 \in 1 .. n /\ n \in 1 .. n /\ 3 .. n - 1 \subseteq 1 .. n
    BY <2>3
  <2>6. /\ events'[1] = "environment.created" /\ events'[2] = "environment.seeded"
        /\ events'[n] = "run.completed"
        /\ \A i \in 3 .. n - 1 : events'[i] \in {"turn", "evaluator.result"}
    BY <2>3, <2>4, <2>5 DEF Began
  <2>7. QED
    BY <2>2, <2>4, <2>5, <2>6 DEF ResultIsTranscript
<1>12. QED
  BY <1>4, <1>5, <1>6, <1>8, <1>10, <1>11 DEF IInv

LEMMA KeepsDestroyNothing ==
  ASSUME IInv, DestroyNothing
  PROVE  IInv'
<1> USE DEF DestroyNothing
<1>1. /\ TypeOK /\ TaskInv /\ TranscriptInv /\ StreamInv /\ UNCHANGED <<kind, clients>>
      /\ pc = "cleanup" /\ pc # "done"
  BY DEF IInv
<1>2. /\ error \in Codes /\ error # "none" /\ error # "cleanup_failure"
      /\ env' # "open" /\ env' \in {"none", "closed"}
  BY <1>1 DEF TypeOK, TaskInv
<1>3. /\ StreamInv' /\ events' = events /\ events' \in Seq(EventKinds)
      /\ queue' \in [Clients -> Seq(Nat)] /\ \A c \in Clients : Len(queue'[c]) <= Buffer
  BY <1>1, Silenced DEF Silent
<1>4. /\ pc' \in {"validate", "done"} /\ left' \in 0 .. 2 * MaxCases
      /\ code' \in Codes /\ status' \in {"running", "completed", "failed"}
      /\ result' \in Seq(EventKinds)
      /\ TaskInv'
      /\ pc' # "validate" /\ status' # "completed"
      /\ code' # "none" => code' = error
  <2>1. Return(error) /\ error' = "none"
    OBVIOUS
  <2>2. QED
    BY <1>1, <1>2, <1>3, <2>1, Returned
<1>5. TypeOK'
  <2>1. TaskTypeOK'
    BY <1>1, <1>2, <1>4 DEF TypeOK, TaskTypeOK, Codes
  <2>2. QED
    BY <1>1, <1>3, <2>1, TaskTyped
<1>6. left' = left
  BY <1>2 DEF Return
<1>7. TranscriptInv'
  BY <1>1, <1>3, <1>4, <1>6 DEF TranscriptInv
<1>8. EnvironmentIsRolledBack' /\ ResultIsTranscript'
  BY <1>2, <1>4 DEF EnvironmentIsRolledBack, ResultIsTranscript
<1>9. QED
  BY <1>3, <1>4, <1>5, <1>7, <1>8 DEF IInv

-----------------------------------------------------------------------------
(* The clients                                                             *)

(* A client's share of the invariant.                                      *)
StreamOf(c) ==
  /\ client[c] \in {"idle", "streaming", "ended", "left", "refused"}
  /\ queue[c] \in Seq(Nat) /\ Len(queue[c]) <= Buffer /\ got[c] \in Seq(Nat) /\ since[c] \in Nat
  /\ client[c] # "streaming" => queue[c] = <<>>
  /\ client[c] \in {"idle", "refused"} => got[c] = <<>>
  /\ client[c] = "ended" => pc = "done"
  /\ InOrder(got[c] \o queue[c], since[c], Len(events))
  /\ client[c] \in {"streaming", "ended"} =>
       UpToDate(got[c] \o queue[c], since[c], Len(events))

LEMMA OneChanged ==
  ASSUME NEW f, DOMAIN f = Clients, NEW g, NEW c \in Clients, \E x : g = [f EXCEPT ![c] = x]
  PROVE  g = [e \in Clients |-> g[e]] /\ \A e \in Clients : e # c => g[e] = f[e]
<1>1. PICK x : g = [f EXCEPT ![c] = x]
  OBVIOUS
<1>2. QED
  BY <1>1

(* A step of one client disturbs neither the task nor the others.          *)
LEMMA ClientKeeps ==
  ASSUME IInv, NEW c \in Clients, UNCHANGED <<task, events>>, StreamOf(c)',
         \E x : client' = [client EXCEPT ![c] = x], \E x : queue' = [queue EXCEPT ![c] = x],
         \E x : got' = [got EXCEPT ![c] = x], \E x : since' = [since EXCEPT ![c] = x]
  PROVE  IInv'
<1>1. TypeOK /\ StreamInv
  BY DEF IInv
<1>2. /\ client' = [e \in Clients |-> client'[e]] /\ queue' = [e \in Clients |-> queue'[e]]
      /\ got' = [e \in Clients |-> got'[e]] /\ since' = [e \in Clients |-> since'[e]]
      /\ \A e \in Clients : e # c => /\ client'[e] = client[e] /\ queue'[e] = queue[e]
                                     /\ got'[e] = got[e] /\ since'[e] = since[e]
  <2>1. /\ DOMAIN client = Clients /\ DOMAIN queue = Clients
        /\ DOMAIN got = Clients /\ DOMAIN since = Clients
    BY <1>1 DEF TypeOK
  <2>2. client' = [e \in Clients |-> client'[e]] /\ \A e \in Clients : e # c => client'[e] = client[e]
    BY <2>1, OneChanged
  <2>3. queue' = [e \in Clients |-> queue'[e]] /\ \A e \in Clients : e # c => queue'[e] = queue[e]
    BY <2>1, OneChanged
  <2>4. got' = [e \in Clients |-> got'[e]] /\ \A e \in Clients : e # c => got'[e] = got[e]
    BY <2>1, OneChanged
  <2>5. since' = [e \in Clients |-> since'[e]] /\ \A e \in Clients : e # c => since'[e] = since[e]
    BY <2>1, OneChanged
  <2>6. QED
    BY <2>2, <2>3, <2>4, <2>5
<1>4. events' = events /\ pc' = pc
  BY DEF task
<1>5. ASSUME NEW e \in Clients
      PROVE  StreamOf(e)'
  <2>1. CASE e = c
    BY <2>1
  <2>2. CASE e # c
    BY <1>1, <1>2, <1>4, <2>2 DEF TypeOK, StreamInv, StreamOf
  <2>3. QED
    BY <2>1, <2>2
<1>6. StreamInv'
  BY <1>5 DEF StreamInv, StreamOf
<1>7. /\ client' \in [Clients -> {"idle", "streaming", "ended", "left", "refused"}]
      /\ queue' \in [Clients -> Seq(Nat)] /\ got' \in [Clients -> Seq(Nat)]
      /\ since' \in [Clients -> Nat]
      /\ \A e \in Clients : Len(queue'[e]) <= Buffer
  BY <1>2, <1>5 DEF StreamOf
<1>8. TypeOK'
  BY <1>1, <1>7 DEF TypeOK, task
<1>9. TaskInv' /\ TranscriptInv' /\ EnvironmentIsRolledBack' /\ ResultIsTranscript'
  BY DEF IInv, task, TaskInv, TranscriptInv, Began, EnvironmentIsRolledBack, ResultIsTranscript
<1>10. QED
  BY <1>6, <1>8, <1>9 DEF IInv

LEMMA StreamNow ==
  ASSUME IInv, NEW c \in Clients
  PROVE  /\ StreamOf(c)
         /\ client = [client EXCEPT ![c] = client[c]] /\ queue = [queue EXCEPT ![c] = queue[c]]
         /\ got = [got EXCEPT ![c] = got[c]] /\ since = [since EXCEPT ![c] = since[c]]
         /\ c \in DOMAIN client /\ c \in DOMAIN queue /\ c \in DOMAIN got /\ c \in DOMAIN since
         /\ Len(events) \in Nat
<1>1. TypeOK /\ StreamInv
  BY DEF IInv
<1>2. StreamOf(c)
  BY <1>1 DEF TypeOK, StreamInv, StreamOf
<1>3. QED
  BY <1>1, <1>2 DEF TypeOK

(* Sequences with nothing behind them.                                     *)
LEMMA NothingQueued ==
  ASSUME NEW s \in Seq(Nat)
  PROVE  s \o <<>> = s
OBVIOUS

LEMMA KeepsConnect ==
  ASSUME IInv, NEW c \in Clients, Connect(c)
  PROVE  IInv'
<1> USE DEF Connect
<1> DEFINE n == Len(events)
<1>1. /\ StreamOf(c) /\ client[c] = "idle" /\ got[c] = <<>> /\ queue[c] = <<>>
      /\ events' = events /\ pc' = pc /\ queue' = queue /\ n \in Nat
  BY StreamNow DEF StreamOf, task
<1>2. since'[c] = IF pc = "done" THEN 0 ELSE n
  BY StreamNow
<1>3. ASSUME kind = "comparison"
      PROVE  StreamOf(c)'
  <2>1. client'[c] = "refused" /\ got' = got
    BY <1>3, StreamNow
  <2>2. since'[c] \in Nat /\ since'[c] <= n
    BY <1>1, <1>2
  <2>3. InOrder(<<>>, since'[c], n)
    BY <2>2 DEF InOrder
  <2>4. got'[c] \o queue'[c] = <<>>
    BY <1>1, <2>1, NothingQueued
  <2>5. QED
    BY <1>1, <2>1, <2>2, <2>3, <2>4 DEF StreamOf
<1>4. ASSUME kind # "comparison" /\ pc = "done"
      PROVE  StreamOf(c)'
  <2> DEFINE all == [i \in 1 .. n |-> i]
  <2>1. client'[c] = "ended" /\ got'[c] = all /\ since'[c] = 0
    BY <1>2, <1>4, StreamNow
  <2>2. all \in Seq(Nat) /\ Len(all) = n /\ DOMAIN all = 1 .. n /\ \A i \in 1 .. n : all[i] = i
    BY <1>1
  <2> HIDE DEF all
  <2>3. InOrder(all, 0, n) /\ UpToDate(all, 0, n)
    BY <1>1, <2>2 DEF InOrder, UpToDate
  <2>4. got'[c] \o queue'[c] = all /\ got'[c] \in Seq(Nat)
    BY <1>1, <2>1, <2>2, NothingQueued
  <2>5. QED
    BY <1>1, <1>4, <2>1, <2>3, <2>4 DEF StreamOf
<1>5. ASSUME kind # "comparison" /\ pc # "done"
      PROVE  StreamOf(c)'
  <2>1. client'[c] = "streaming" /\ got' = got /\ since'[c] = n
    BY <1>2, <1>5, StreamNow
  <2>2. InOrder(<<>>, n, n) /\ UpToDate(<<>>, n, n)
    BY <1>1 DEF InOrder, UpToDate
  <2>3. got'[c] \o queue'[c] = <<>>
    BY <1>1, <2>1, NothingQueued
  <2>4. QED
    BY <1>1, <2>1, <2>2, <2>3 DEF StreamOf
<1> HIDE DEF n
<1>6. StreamOf(c)'
  BY <1>3, <1>4, <1>5
<1>7. (\E x : client' = [client EXCEPT ![c] = x]) /\ (\E x : since' = [since EXCEPT ![c] = x])
  BY DEF n
<1>8. (\E x : got' = [got EXCEPT ![c] = x]) /\ (\E x : queue' = [queue EXCEPT ![c] = x])
  BY StreamNow
<1>9. UNCHANGED <<task, events>>
  OBVIOUS
<1> HIDE DEF Connect
<1>10. QED
  BY <1>6, <1>7, <1>8, <1>9, ClientKeeps

LEMMA HandedOver ==
  ASSUME NEW g \in Seq(Nat), NEW q \in Seq(Nat), q # <<>>
  PROVE  /\ Append(g, Head(q)) \in Seq(Nat) /\ Tail(q) \in Seq(Nat) /\ Len(Tail(q)) = Len(q) - 1
         /\ Append(g, Head(q)) \o Tail(q) = g \o q
OBVIOUS

LEMMA KeepsReceive ==
  ASSUME IInv, NEW c \in Clients, Receive(c)
  PROVE  IInv'
<1> USE DEF Receive
<1>1. /\ StreamOf(c) /\ client[c] = "streaming" /\ queue[c] # <<>>
      /\ events' = events /\ pc' = pc /\ client' = client /\ since' = since
  BY StreamNow DEF task
<1>2. got'[c] = Append(got[c], Head(queue[c])) /\ queue'[c] = Tail(queue[c])
  BY StreamNow
<1>3. /\ got'[c] \in Seq(Nat) /\ queue'[c] \in Seq(Nat) /\ Len(queue'[c]) = Len(queue[c]) - 1
      /\ got'[c] \o queue'[c] = got[c] \o queue[c]
  BY <1>1, <1>2, HandedOver DEF StreamOf
<1>4. Len(queue'[c]) <= Buffer
  <2>1. Len(queue[c]) \in Nat /\ Len(queue[c]) <= Buffer
    BY <1>1 DEF StreamOf
  <2>2. QED
    BY <1>3, <2>1, ExecutionAssumption
<1>5. StreamOf(c)'
  BY <1>1, <1>3, <1>4 DEF StreamOf
<1>6. QED
  BY <1>5, StreamNow, ClientKeeps

LEMMA KeepsEndStream ==
  ASSUME IInv, NEW c \in Clients, EndStream(c)
  PROVE  IInv'
<1> USE DEF EndStream
<1>1. /\ StreamOf(c) /\ client[c] = "streaming" /\ queue[c] = <<>> /\ pc = "done"
      /\ events' = events /\ pc' = pc /\ queue' = queue /\ got' = got /\ since' = since
      /\ client'[c] = "ended"
  BY StreamNow DEF task
<1>2. StreamOf(c)'
  BY <1>1 DEF StreamOf
<1>3. QED
  BY <1>2, StreamNow, ClientKeeps

LEMMA KeepsLeave ==
  ASSUME IInv, NEW c \in Clients, Leave(c)
  PROVE  IInv'
<1> USE DEF Leave
<1>1. /\ StreamOf(c) /\ client[c] = "streaming"
      /\ events' = events /\ pc' = pc /\ got' = got /\ since' = since
      /\ client'[c] = "left" /\ queue'[c] = <<>>
  BY StreamNow DEF task
<1>2. InOrder(got[c], since[c], Len(events))
  <2> DEFINE g == got[c]
  <2> DEFINE q == queue[c]
  <2>1. g \in Seq(Nat) /\ q \in Seq(Nat) /\ InOrder(g \o q, since[c], Len(events))
    BY <1>1 DEF StreamOf
  <2> HIDE DEF g, q
  <2> DEFINE seen == g \o q
  <2>2. seen \in Seq(Nat) /\ Len(seen) = Len(g) + Len(q) /\ \A i \in 1 .. Len(g) : seen[i] = g[i]
    BY <2>1, Concatenated
  <2>3. Len(q) \in Nat /\ Len(g) \in Nat /\ DOMAIN g = 1 .. Len(g)
    BY <2>1
  <2> HIDE DEF seen
  <2>4. DOMAIN seen = 1 .. Len(seen)
    BY <2>2
  <2>5. DOMAIN g \subseteq DOMAIN seen /\ \A i \in DOMAIN g : seen[i] = g[i]
    BY <2>2, <2>3, <2>4
  <2>6. InOrder(g, since[c], Len(events))
    BY <2>1, <2>5 DEF InOrder, seen
  <2>7. QED
    BY <2>6 DEF g
<1>3. StreamOf(c)'
  <2>1. got[c] \in Seq(Nat) /\ got[c] \o <<>> = got[c]
    BY <1>1, NothingQueued DEF StreamOf
  <2>2. InOrder(got'[c] \o queue'[c], since'[c], Len(events'))
    BY <1>1, <1>2, <2>1
  <2>3. <<>> \in Seq(Nat) /\ Len(<<>>) <= Buffer
    BY ExecutionAssumption
  <2>4. QED
    BY <1>1, <2>2, <2>3 DEF StreamOf
<1>4. QED
  BY <1>3, StreamNow, ClientKeeps

-----------------------------------------------------------------------------
(* The theorems                                                            *)

LEMMA Start ==
  ASSUME Init
  PROVE  IInv
<1> USE DEF Init
<1>1. left \in 0 .. 2 * MaxCases /\ left > 0 /\ (kind = "run" => left = 1)
  <2>1. CASE kind = "run"
    BY <2>1, ExecutionAssumption
  <2>2. CASE kind # "run"
    <3>1. PICK m \in 1 .. MaxCases : left = 2 * m
      BY <2>2
    <3>2. QED
      BY <2>2, <3>1, ExecutionAssumption
  <2>3. QED
    BY <2>1, <2>2
<1>2. <<>> \in Seq(EventKinds) /\ <<>> \in Seq(Nat) /\ Len(<<>>) = 0 /\ 0 <= Buffer
  BY ExecutionAssumption
<1>3. TypeOK
  <2>1. /\ queue \in [Clients -> Seq(Nat)] /\ got \in [Clients -> Seq(Nat)]
        /\ since \in [Clients -> Nat] /\ \A c \in Clients : Len(queue[c]) <= Buffer
        /\ client \in [Clients -> {"idle", "streaming", "ended", "left", "refused"}]
    BY <1>2
  <2>2. 0 \in 0 .. MaxTurnEvents
    BY ExecutionAssumption
  <2>3. QED
    BY <1>1, <1>2, <2>1, <2>2 DEF TypeOK, Codes
<1>4. TaskInv /\ TranscriptInv /\ EnvironmentIsRolledBack /\ ResultIsTranscript
  BY <1>1 DEF TaskInv, TranscriptInv, EnvironmentIsRolledBack, ResultIsTranscript
<1>5. StreamInv
  <2>1. InOrder(<<>>, 0, 0)
    BY DEF InOrder
  <2>2. <<>> \o <<>> = <<>>
    BY <1>2, NothingQueued
  <2>3. QED
    BY <1>2, <2>1, <2>2 DEF StreamInv
<1>6. QED
  BY <1>3, <1>4, <1>5 DEF IInv

LEMMA Stutter ==
  ASSUME IInv, UNCHANGED vars
  PROVE  IInv'
BY DEF IInv, vars, TypeOK, TaskInv, TranscriptInv, Began, StreamInv, EnvironmentIsRolledBack,
       ResultIsTranscript

(* The inductive invariant holds in every state of every execution.        *)
THEOREM Invariance == Spec => []IInv
<1>1. IInv /\ [Next]_vars => IInv'
  <2> SUFFICES ASSUME IInv, [Next]_vars
               PROVE  IInv'
    OBVIOUS
  <2>1. CASE RunStep
    BY <2>1, KeepsValidate, KeepsCreate, KeepsSeed, KeepsTurnEvent, KeepsTurnEnds, KeepsCapture,
       KeepsReport, KeepsDestroy, KeepsDestroyNothing DEF RunStep
  <2>2. ASSUME NEW c \in Clients, Connect(c) \/ ClientStep(c) \/ Leave(c)
        PROVE  IInv'
    BY <2>2, KeepsConnect, KeepsReceive, KeepsEndStream, KeepsLeave DEF ClientStep
  <2>3. CASE UNCHANGED vars
    BY <2>3, Stutter
  <2>4. QED
    BY <2>1, <2>2, <2>3 DEF Next
<1>2. QED
  BY <1>1, Start, PTL DEF Spec

(* The variables have their types, and no subscriber queue of the          *)
(* collector ever holds more than its buffer.                              *)
THEOREM TypeCorrect == Spec => []TypeOK
<1>1. IInv => TypeOK
  BY DEF IInv
<1>2. QED
  BY <1>1, Invariance, PTL

(* Wherever run_bundle stopped, its transaction is gone or the execution   *)
(* has failed, and a failed cleanup hides no other error.                  *)
THEOREM EnvironmentsRolledBack == Spec => []EnvironmentIsRolledBack
<1>1. IInv => EnvironmentIsRolledBack
  BY DEF IInv
<1>2. QED
  BY <1>1, Invariance, PTL

(* The result of a completed run holds the whole transcript.               *)
THEOREM ResultsAreTranscripts == Spec => []ResultIsTranscript
<1>1. IInv => ResultIsTranscript
  BY DEF IInv
<1>2. QED
  BY <1>1, Invariance, PTL

(* Streams of any number of clients, with a buffer of any size, are in     *)
(* order, and one that ends by itself has delivered the end of the run and *)
(* all that fits the buffer.                                               *)
THEOREM StreamsDelivered == Spec => []StreamIsDelivered
<1>1. ASSUME IInv
      PROVE  StreamIsDelivered
  <2> SUFFICES ASSUME NEW c \in Clients
               PROVE  LET seen == got[c] \o queue[c] IN
                      /\ \A i, j \in DOMAIN seen : i < j => seen[i] < seen[j]
                      /\ client[c] = "ended" =>
                           /\ \/ since[c] = Len(events)
                              \/ got[c] # <<>> /\ got[c][Len(got[c])] = Len(events)
                           /\ Len(events) - since[c] <= Buffer =>
                                got[c] = [i \in 1 .. Len(events) - since[c] |-> since[c] + i]
    BY DEF StreamIsDelivered
  <2>1. StreamOf(c)
    BY <1>1, StreamNow
  <2>2. \A i, j \in DOMAIN (got[c] \o queue[c]) :
          i < j => (got[c] \o queue[c])[i] < (got[c] \o queue[c])[j]
    BY <2>1 DEF StreamOf, InOrder
  <2>3. ASSUME client[c] = "ended"
        PROVE  got[c] \in Seq(Nat) /\ UpToDate(got[c], since[c], Len(events))
    <3>1. got[c] \o queue[c] = got[c]
      BY <2>1, <2>3, NothingQueued DEF StreamOf
    <3>2. QED
      BY <2>1, <2>3, <3>1 DEF StreamOf
  <2>4. ASSUME client[c] = "ended", Len(events) - since[c] <= Buffer
        PROVE  got[c] = [i \in 1 .. Len(events) - since[c] |-> since[c] + i]
    BY <2>3, <2>4 DEF UpToDate
  <2>5. QED
    BY <2>2, <2>3, <2>4 DEF UpToDate
<1>2. QED
  BY <1>1, Invariance, PTL
=============================================================================
