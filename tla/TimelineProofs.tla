---------------------------- MODULE TimelineProofs ----------------------------
(* Proofs about the live timeline of the workbench, for any number of runs,    *)
(* events, queries and keys.                                                   *)
EXTENDS LabCommandsProofs

-----------------------------------------------------------------------------
(* What is picked of a sequence.                                               *)

(* f lists what is picked of the first n entries, for each n.                  *)
Picks(s, kept, f) ==
    f = [n \in 0..Len(s) |-> IF n = 0 THEN <<>>
                             ELSE f[n - 1] \o (IF s[n] \in kept THEN <<s[n]>> ELSE <<>>)]

(* What is picked of a sequence exists, and is made of its kept entries.       *)
LEMMA PicksExist ==
  ASSUME NEW X, NEW s \in Seq(X), NEW kept
  PROVE  \E f : Picks(s, kept, f)
<1> DEFINE Upto(k, f) == f = [n \in 0..k |-> IF n = 0 THEN <<>>
                             ELSE f[n - 1] \o (IF s[n] \in kept THEN <<s[n]>> ELSE <<>>)]
           S == {k \in Nat : \E f : Upto(k, f)}
<1>1. 0 \in S
  <2>1. Upto(0, [n \in 0..0 |-> <<>>])
    OBVIOUS
  <2>2. QED
    BY <2>1
<1>2. ASSUME NEW k \in S \cap Nat
      PROVE  k + 1 \in S
  <2>1. PICK f : Upto(k, f)
    BY <1>2
  <2> DEFINE More(n) == IF s[n] \in kept THEN <<s[n]>> ELSE <<>>
             g == [n \in 0..k + 1 |-> IF n <= k THEN f[n] ELSE f[k] \o More(n)]
  <2> HIDE DEF More
  <2>2. ASSUME NEW n \in 0..k + 1
        PROVE  g[n] = IF n = 0 THEN <<>> ELSE g[n - 1] \o More(n)
    <3>1. CASE n = 0
      BY <2>1, <3>1
    <3>2. CASE n # 0 /\ n <= k
      <4>1. n \in 0..k /\ n - 1 \in 0..k
        BY <3>2
      <4>2. f[n] = f[n - 1] \o More(n)
        BY <2>1, <3>2, <4>1 DEF More
      <4>3. g[n] = f[n] /\ g[n - 1] = f[n - 1]
        BY <3>2, <4>1
      <4> HIDE DEF g
      <4>4. QED
        BY <3>2, <4>2, <4>3
    <3>3. CASE n = k + 1
      BY <3>3
    <3>4. QED
      BY <3>1, <3>2, <3>3
  <2>3. g = [n \in 0..k + 1 |-> IF n = 0 THEN <<>> ELSE g[n - 1] \o More(n)]
    BY <2>2
  <2>4. Upto(k + 1, g)
    BY <2>3 DEF More
  <2>5. \E h : Upto(k + 1, h)
    <3> HIDE DEF Upto
    <3>1. QED
      BY <2>4
  <2>6. QED
    BY <2>5
<1>3. Len(s) \in S
  <2> HIDE DEF S
  <2>1. QED
    BY <1>1, <1>2, Induction
<1>4. QED
  BY <1>3 DEF Picks

(* So the last of them is what is picked of the whole.                         *)
LEMMA PickedPicks ==
  ASSUME NEW X, NEW s \in Seq(X), NEW kept
  PROVE  \E f : Picks(s, kept, f) /\ Picked(s, kept) = f[Len(s)]
<1> DEFINE g == CHOOSE f : Picks(s, kept, f)
<1>1. Picks(s, kept, g)
  BY PicksExist
<1>2. Picked(s, kept) = g[Len(s)]
  BY DEF Picked, Picks
<1>3. QED
  BY <1>1, <1>2

(* What two sequences have in common in front is picked alike.                 *)
Alike(s, kept, t, also, m) == \A n \in 1..m : s[n] = t[n] /\ (s[n] \in kept <=> t[n] \in also)
LEMMA PicksAgree ==
  ASSUME NEW s, NEW t, NEW kept, NEW also, Len(s) \in Nat, Len(t) \in Nat, NEW f, NEW g,
         Picks(s, kept, f), Picks(t, also, g),
         NEW m \in Nat, m <= Len(s), m <= Len(t),
         Alike(s, kept, t, also, m)
  PROVE  f[m] = g[m]
<1> DEFINE S == {n \in Nat : n <= m => f[n] = g[n]}
<1>1. 0 \in S
  BY DEF Picks
<1>2. ASSUME NEW n \in S \cap Nat
      PROVE  n + 1 \in S
  <2>1. SUFFICES ASSUME n + 1 <= m
                 PROVE  f[n + 1] = g[n + 1]
    OBVIOUS
  <2> DEFINE k == n + 1
             MoreS == IF s[k] \in kept THEN <<s[k]>> ELSE <<>>
             MoreT == IF t[k] \in also THEN <<t[k]>> ELSE <<>>
  <2>2. k \in 0..Len(s) /\ k \in 0..Len(t) /\ k # 0 /\ k \in 1..m /\ k - 1 = n
    BY <2>1
  <2>3. f[n] = g[n]
    BY <1>2, <2>1
  <2>4. MoreS = MoreT
    BY <2>2 DEF Alike
  <2>5. f[k] = f[k - 1] \o MoreS
    BY <2>2 DEF Picks
  <2>6. g[k] = g[k - 1] \o MoreT
    BY <2>2 DEF Picks
  <2>7. QED
    BY <2>2, <2>3, <2>4, <2>5, <2>6
<1>3. m \in S
  <2> HIDE DEF S
  <2>1. QED
    BY <1>1, <1>2, Induction
<1>4. QED
  BY <1>3

(* Sets that hold the same entries of a sequence pick the same.                *)
LEMMA PickedSame ==
  ASSUME NEW X, NEW s \in Seq(X), NEW kept, NEW also,
         \A n \in 1..Len(s) : s[n] \in kept <=> s[n] \in also
  PROVE  Picked(s, kept) = Picked(s, also)
<1>1. PICK f : Picks(s, kept, f) /\ Picked(s, kept) = f[Len(s)]
  BY PickedPicks
<1>2. PICK g : Picks(s, also, g) /\ Picked(s, also) = g[Len(s)]
  BY PickedPicks
<1>3. Len(s) \in Nat /\ Len(s) <= Len(s) /\ Alike(s, kept, s, also, Len(s))
  BY DEF Alike
<1>4. f[Len(s)] = g[Len(s)]
  BY <1>1, <1>2, <1>3, PicksAgree
<1>5. QED
  BY <1>1, <1>2, <1>4

(* Nothing is picked of no entries.                                            *)
LEMMA PickedNone == \A kept : Picked(<<>>, kept) = <<>>
<1> SUFFICES ASSUME NEW kept PROVE Picked(<<>>, kept) = <<>>
  OBVIOUS
<1>1. <<>> \in Seq(Nat) /\ Len(<<>>) = 0
  OBVIOUS
<1>2. PICK f : Picks(<<>>, kept, f) /\ Picked(<<>>, kept) = f[0]
  BY <1>1, PickedPicks
<1>3. QED
  BY <1>1, <1>2 DEF Picks

(* One more entry is the last one picked, if it is kept.                       *)
LEMMA PickedMore ==
  ASSUME NEW X, NEW s \in Seq(X), NEW e \in X, NEW kept
  PROVE  Picked(Append(s, e), kept) = Picked(s, kept) \o (IF e \in kept THEN <<e>> ELSE <<>>)
<1> DEFINE t == Append(s, e)
           k == Len(s) + 1
<1>1. t \in Seq(X) /\ Len(t) = k /\ t[k] = e /\ \A n \in 1..Len(s) : t[n] = s[n]
  OBVIOUS
<1> HIDE DEF t
<1>2. PICK f : Picks(s, kept, f) /\ Picked(s, kept) = f[Len(s)]
  BY PickedPicks
<1>3. PICK g : Picks(t, kept, g) /\ Picked(t, kept) = g[Len(t)]
  BY <1>1, PickedPicks
<1>4. /\ Len(s) \in Nat /\ Len(t) \in Nat /\ Len(s) <= Len(s) /\ Len(s) <= Len(t)
      /\ k \in 0..Len(t) /\ k # 0 /\ k - 1 = Len(s)
      /\ Alike(s, kept, t, kept, Len(s))
  BY <1>1 DEF Alike
<1>5. g[k] = g[k - 1] \o (IF t[k] \in kept THEN <<t[k]>> ELSE <<>>)
  BY <1>3, <1>4 DEF Picks
<1>6. f[Len(s)] = g[Len(s)]
  BY <1>2, <1>3, <1>4, PicksAgree
<1>7. Picked(t, kept) = Picked(s, kept) \o (IF e \in kept THEN <<e>> ELSE <<>>)
  BY <1>1, <1>2, <1>3, <1>4, <1>5, <1>6
<1>8. QED
  BY <1>7 DEF t

(* What is picked is a sequence of the same kind of entries, all of them kept. *)
LEMMA PickedSeq ==
  ASSUME NEW X, NEW s \in Seq(X), NEW kept
  PROVE  Picked(s, kept) \in Seq(X \cap kept)
<1> DEFINE S == {n \in Nat : n <= Len(s) => \A f : Picks(s, kept, f) => f[n] \in Seq(X \cap kept)}
<1>1. 0 \in S
  <2>1. \A f : Picks(s, kept, f) => f[0] = <<>>
    BY DEF Picks
  <2>2. <<>> \in Seq(X \cap kept)
    OBVIOUS
  <2>3. QED
    BY <2>1, <2>2
<1>2. ASSUME NEW n \in S \cap Nat
      PROVE  n + 1 \in S
  <2>1. SUFFICES ASSUME n + 1 <= Len(s), NEW f, Picks(s, kept, f)
                 PROVE  f[n + 1] \in Seq(X \cap kept)
    OBVIOUS
  <2> DEFINE k == n + 1
             more == IF s[k] \in kept THEN <<s[k]>> ELSE <<>>
  <2>2. f[n] \in Seq(X \cap kept)
    BY <1>2, <2>1
  <2>3. k \in 0..Len(s) /\ k # 0 /\ k - 1 = n /\ k \in 1..Len(s)
    BY <2>1
  <2>4. f[k] = f[k - 1] \o more
    BY <2>1, <2>3 DEF Picks
  <2>5. s[k] \in X
    BY <2>3, ElementOfSeq
  <2>6. more \in Seq(X \cap kept)
    <3>1. \A Y, y : y \in Y => <<y>> \in Seq(Y)
      OBVIOUS
    <3>2. <<>> \in Seq(X \cap kept)
      OBVIOUS
    <3>3. CASE s[k] \in kept
      BY <2>5, <3>1, <3>3
    <3>4. CASE s[k] \notin kept
      BY <3>2, <3>4
    <3>5. QED
      BY <3>3, <3>4
  <2> HIDE DEF more, k
  <2>7. f[k] \in Seq(X \cap kept)
    BY <2>2, <2>3, <2>4, <2>6
  <2>8. QED
    BY <2>7 DEF k
<1>3. Len(s) \in S
  <2> HIDE DEF S
  <2>1. QED
    BY <1>1, <1>2, Induction
<1>4. QED
  BY <1>3, PickedPicks

(* An entry at the front is picked first, if it is kept.                       *)
LEMMA PickedFirst ==
  ASSUME NEW X, NEW kept
  PROVE  \A s \in Seq(X) : s # <<>> =>
           Picked(s, kept) = (IF Head(s) \in kept THEN <<Head(s)>> ELSE <<>>) \o Picked(Tail(s), kept)
<1> DEFINE First(e) == IF e \in kept THEN <<e>> ELSE <<>>
           P(s) == Picked(s, kept) = First(Head(s)) \o Picked(Tail(s), kept)
           S == {n \in Nat : \A s \in Seq(X) : Len(s) = n /\ s # <<>> => P(s)}
<1>1. 0 \in S
  BY EmptySeq
<1>2. ASSUME NEW n \in S \cap Nat
      PROVE  n + 1 \in S
  <2>1. SUFFICES ASSUME NEW t \in Seq(X), Len(t) = n + 1, t # <<>> PROVE P(t)
    OBVIOUS
  <2>2. PICK s \in Seq(X), e \in X : t = Append(s, e)
    BY <2>1, SequenceEmptyOrAppend
  <2>3. Len(s) = n
    BY <2>1, <2>2
  <2>4. /\ Head(t) = IF s = <<>> THEN e ELSE Head(s)
        /\ Tail(t) = IF s = <<>> THEN <<>> ELSE Append(Tail(s), e)
    BY <2>2, HeadTailAppend
  <2>5. Picked(t, kept) = Picked(s, kept) \o First(e)
    BY <2>2, PickedMore
  <2>6. /\ \A x \in X : First(x) \in Seq(X)
        /\ \A r \in Seq(X), x \in X : Picked(Append(r, x), kept) = Picked(r, kept) \o First(x)
    <3>1. \A x \in X : First(x) \in Seq(X)
      OBVIOUS
    <3>2. ASSUME NEW r \in Seq(X), NEW x \in X
          PROVE  Picked(Append(r, x), kept) = Picked(r, kept) \o First(x)
      BY PickedMore
    <3> HIDE DEF First
    <3>3. QED
      BY <3>1, <3>2
  <2> HIDE DEF First
  <2>7. CASE s = <<>>
    <3>1. Picked(t, kept) = First(e) /\ Picked(Tail(t), kept) = <<>>
      BY <2>4, <2>5, <2>6, <2>7, PickedNone, ConcatEmptySeq
    <3>2. First(Head(t)) \o <<>> = First(e)
      BY <2>4, <2>6, <2>7, ConcatEmptySeq
    <3>3. QED
      BY <3>1, <3>2
  <2>8. CASE s # <<>>
    <3>1. Head(s) \in X /\ Tail(s) \in Seq(X)
      BY <2>8, HeadTailProperties
    <3> DEFINE p == Picked(Tail(s), kept)
    <3>2. p \in Seq(X)
      <4>1. p \in Seq(X \cap kept) /\ X \cap kept \subseteq X
        BY <3>1, PickedSeq
      <4> HIDE DEF p
      <4>2. QED
        BY <4>1, SeqMonotonic
    <3>3. Picked(s, kept) = First(Head(s)) \o p
      BY <1>2, <2>3, <2>8
    <3>4. Picked(Tail(t), kept) = p \o First(e)
      BY <2>4, <2>6, <2>8, <3>1
    <3> HIDE DEF p
    <3>5. (First(Head(s)) \o p) \o First(e) = First(Head(s)) \o (p \o First(e))
      <4>1. First(Head(s)) \in Seq(X) /\ First(e) \in Seq(X)
        BY <2>6, <3>1
      <4>2. QED
        BY <3>2, <4>1, ConcatAssociative
    <3>6. QED
      BY <2>4, <2>5, <2>8, <3>3, <3>4, <3>5
  <2>9. QED
    BY <2>7, <2>8
<1>3. Nat \subseteq S
  <2> HIDE DEF S
  <2>1. QED
    BY <1>1, <1>2, Induction
<1>4. ASSUME NEW s \in Seq(X), s # <<>> PROVE P(s)
  BY <1>3, <1>4
<1>5. QED
  BY <1>4

(* Nothing is picked where nothing is kept.                                    *)
LEMMA PickedNothing ==
  ASSUME NEW X, NEW s \in Seq(X), NEW kept, \A n \in 1..Len(s) : s[n] \notin kept
  PROVE  Picked(s, kept) = <<>>
<1>1. Picked(s, kept) = Picked(s, {})
  BY PickedSame
<1>2. Picked(s, {}) \in Seq({})
  BY PickedSeq
<1>3. QED
  BY <1>1, <1>2

-----------------------------------------------------------------------------
(* What arrives and what is displayed of it: lists of messages and of events.  *)

(* The types of what is posted and displayed.                                  *)
Happened == [run : Nat, seq : Nat, kind : EventKinds]
Message == [is : {"press"}, what : {"next", "back", "launch"}]
           \cup [is : {"changed"}, what : Queries \cup {""}]
           \cup [is : {"event"}, what : Happened]
BoxTypes == events \in Seq(Happened) /\ inbox \in Seq(Message)

(* The events that a list of messages brings.                                  *)
Values(s) == [n \in DOMAIN s |-> s[n].what]
Brought(box) == Values(Picked(box, {m \in ToSet(box) : m.is = "event"}))
ArrivedOf(list, box) == list \o Brought(box)

EventMessages == [is : {"event"}, what : Happened]
LEMMA ValuesAre ==
  ASSUME NEW s \in Seq(EventMessages), NEW t \in Seq(EventMessages)
  PROVE  /\ Values(s) \in Seq(Happened) /\ Len(Values(s)) = Len(s)
         /\ Values(s \o t) = Values(s) \o Values(t)
<1> HIDE DEF EventMessages, Happened
<1>0. ASSUME NEW r \in Seq(EventMessages)
      PROVE  /\ Values(r) \in Seq(Happened) /\ Len(Values(r)) = Len(r)
             /\ \A n \in 1..Len(r) : Values(r)[n] = r[n].what
  <2>1. r \in [1..Len(r) -> EventMessages] /\ Len(r) \in Nat
    OBVIOUS
  <2>2. \A m \in EventMessages : m.what \in Happened
    BY DEF EventMessages
  <2>3. Values(r) \in [1..Len(r) -> Happened]
    BY <2>1, <2>2 DEF Values
  <2>4. QED
    BY <2>1, <2>3 DEF Values
<1>1. /\ Values(s) \in Seq(Happened) /\ Values(t) \in Seq(Happened)
      /\ Len(Values(s)) = Len(s) /\ Len(Values(t)) = Len(t) /\ Len(s) \in Nat /\ Len(t) \in Nat
  BY <1>0
<1>2. /\ s \o t \in Seq(EventMessages) /\ Len(s \o t) = Len(s) + Len(t)
      /\ \A n \in 1..Len(s) + Len(t) : (s \o t)[n] = IF n <= Len(s) THEN s[n] ELSE t[n - Len(s)]
  BY ConcatProperties
<1>3. /\ Values(s \o t) \in Seq(Happened) /\ Len(Values(s \o t)) = Len(s) + Len(t)
      /\ \A n \in 1..Len(s) + Len(t) : Values(s \o t)[n] = (s \o t)[n].what
  BY <1>0, <1>2
<1>4. /\ Values(s) \o Values(t) \in Seq(Happened) /\ Len(Values(s) \o Values(t)) = Len(s) + Len(t)
      /\ \A n \in 1..Len(s) + Len(t) : (Values(s) \o Values(t))[n] =
                                       IF n <= Len(s) THEN Values(s)[n] ELSE Values(t)[n - Len(s)]
  <2>1. ASSUME NEW a \in Seq(Happened), NEW b \in Seq(Happened)
        PROVE  /\ a \o b \in Seq(Happened) /\ Len(a \o b) = Len(a) + Len(b)
               /\ \A n \in 1..Len(a) + Len(b) : (a \o b)[n] = IF n <= Len(a) THEN a[n] ELSE b[n - Len(a)]
    BY ConcatProperties
  <2> DEFINE v == Values(s)
             w == Values(t)
  <2>2. v \in Seq(Happened) /\ w \in Seq(Happened) /\ Len(v) = Len(s) /\ Len(w) = Len(t)
    BY <1>1
  <2> HIDE DEF v, w
  <2>3. /\ v \o w \in Seq(Happened) /\ Len(v \o w) = Len(v) + Len(w)
        /\ \A n \in 1..Len(v) + Len(w) : (v \o w)[n] = IF n <= Len(v) THEN v[n] ELSE w[n - Len(v)]
    BY <2>1, <2>2
  <2>4. QED
    BY <2>2, <2>3 DEF v, w
<1>5. \A n \in 1..Len(s) + Len(t) : Values(s \o t)[n] = (Values(s) \o Values(t))[n]
  <2> SUFFICES ASSUME NEW n \in 1..Len(s) + Len(t)
               PROVE  Values(s \o t)[n] = (Values(s) \o Values(t))[n]
    OBVIOUS
  <2>1. n \in Nat /\ 1 <= n /\ n <= Len(s) + Len(t)
    BY <1>1
  <2>2. CASE n <= Len(s)
    <3>1. n \in 1..Len(s)
      BY <2>1, <2>2, <1>1
    <3>2. Values(s)[n] = s[n].what
      BY <3>1, <1>0
    <3>3. QED
      BY <1>2, <1>3, <1>4, <2>2, <3>2
  <2>3. CASE ~(n <= Len(s))
    <3>1. n - Len(s) \in 1..Len(t)
      BY <2>1, <2>3, <1>1
    <3>2. Values(t)[n - Len(s)] = t[n - Len(s)].what
      BY <3>1, <1>0
    <3>3. QED
      BY <1>2, <1>3, <1>4, <2>3, <3>2
  <2>4. QED
    BY <2>2, <2>3
<1>6. Values(s \o t) = Values(s) \o Values(t)
  BY <1>3, <1>4, <1>5, SeqEqual
<1>7. QED
  BY <1>1, <1>6

(* A message posted brings its event last, one at the front brings it first.   *)
LEMMA BroughtAre ==
  ASSUME NEW box \in Seq(Message)
  PROVE  /\ Brought(box) \in Seq(Happened)
         /\ \A m \in Message :
              Brought(Append(box, m)) = Brought(box) \o (IF m.is = "event" THEN <<m.what>> ELSE <<>>)
         /\ box # <<>> => Brought(box) = (IF Head(box).is = "event" THEN <<Head(box).what>> ELSE <<>>)
                                         \o Brought(Tail(box))
<1> DEFINE E == EventMessages
           Only(m) == IF m \in E THEN <<m>> ELSE <<>>
<1>1. E \subseteq Message /\ \A m \in Message : m.is = "event" <=> m \in E
  BY DEF Message, EventMessages
<1>2. ASSUME NEW b \in Seq(Message)
      PROVE  Brought(b) = Values(Picked(b, E)) /\ Picked(b, E) \in Seq(E)
  <2>1. \A n \in 1..Len(b) : b[n] \in {m \in ToSet(b) : m.is = "event"} <=> b[n] \in E
    <3> SUFFICES ASSUME NEW n \in 1..Len(b)
                 PROVE  b[n] \in {m \in ToSet(b) : m.is = "event"} <=> b[n] \in E
      OBVIOUS
    <3>1. b[n] \in Message /\ b[n] \in ToSet(b)
      BY ElementOfSeq DEF ToSet
    <3>2. QED
      BY <1>1, <3>1
  <2>2. Picked(b, {m \in ToSet(b) : m.is = "event"}) = Picked(b, E)
    BY <2>1, PickedSame
  <2>3. Picked(b, E) \in Seq(Message \cap E) /\ Message \cap E \subseteq E
    BY PickedSeq
  <2>4. QED
    BY <2>2, <2>3, SeqMonotonic DEF Brought
<1>3. ASSUME NEW m \in Message
      PROVE  Only(m) \in Seq(E) /\ Values(Only(m)) = IF m.is = "event" THEN <<m.what>> ELSE <<>>
  <2>1. CASE m \in E
    <3>1. \A Y, y : y \in Y => <<y>> \in Seq(Y)
      OBVIOUS
    <3>2. Only(m) = <<m>> /\ Only(m) \in Seq(E)
      BY <2>1, <3>1
    <3>3. Values(<<m>>) = <<m.what>>
      BY DEF Values
    <3>4. QED
      BY <1>1, <2>1, <3>2, <3>3
  <2>2. CASE m \notin E
    <3>1. Only(m) = <<>> /\ <<>> \in Seq(E)
      BY <2>2
    <3>2. Values(<<>>) = <<>>
      BY DEF Values
    <3>3. QED
      BY <1>1, <2>2, <3>1, <3>2
  <2>3. QED
    BY <2>1, <2>2
<1> HIDE DEF E
<1>4. Brought(box) \in Seq(Happened)
  BY <1>2, ValuesAre DEF E
<1>5. ASSUME NEW m \in Message
      PROVE  Brought(Append(box, m)) = Brought(box) \o (IF m.is = "event" THEN <<m.what>> ELSE <<>>)
  <2>1. Append(box, m) \in Seq(Message)
    OBVIOUS
  <2>2. Picked(Append(box, m), E) = Picked(box, E) \o Only(m)
    BY PickedMore
  <2>3. Values(Picked(box, E) \o Only(m)) = Values(Picked(box, E)) \o Values(Only(m))
    BY <1>2, <1>3, ValuesAre DEF E
  <2> HIDE DEF Only
  <2>4. QED
    BY <1>2, <1>3, <2>1, <2>2, <2>3
<1>6. ASSUME box # <<>>
      PROVE  Brought(box) = (IF Head(box).is = "event" THEN <<Head(box).what>> ELSE <<>>) \o Brought(Tail(box))
  <2>1. Head(box) \in Message /\ Tail(box) \in Seq(Message)
    BY <1>6, HeadTailProperties
  <2>2. Picked(box, E) = Only(Head(box)) \o Picked(Tail(box), E)
    BY <1>6, PickedFirst
  <2>3. Values(Only(Head(box)) \o Picked(Tail(box), E)) = Values(Only(Head(box))) \o Values(Picked(Tail(box), E))
    BY <1>2, <1>3, <2>1, ValuesAre DEF E
  <2> HIDE DEF Only
  <2>4. QED
    BY <1>2, <1>3, <2>1, <2>2, <2>3
<1>7. QED
  BY <1>4, <1>5, <1>6

(* What arrived, and the messages that still bring events, after each kind of  *)
(* step.                                                                       *)
LEMMA ArrivedSteps ==
  ASSUME NEW list \in Seq(Happened), NEW box \in Seq(Message)
  PROVE  /\ ArrivedOf(list, box) \in Seq(Happened)
         /\ \A n \in 1..Len(list) : ArrivedOf(list, box)[n] = list[n] /\ n \in 1..Len(ArrivedOf(list, box))
         /\ \A m \in Message :
              ArrivedOf(list, Append(box, m)) = IF m.is = "event" THEN Append(ArrivedOf(list, box), m.what)
                                                ELSE ArrivedOf(list, box)
         /\ box # <<>> =>
              ArrivedOf(list, box) = ArrivedOf(IF Head(box).is = "event" THEN Append(list, Head(box).what) ELSE list, Tail(box))
<1> DEFINE b == Brought(box)
<1>1. b \in Seq(Happened) /\ \A m \in Message : m.is = "event" => m.what \in Happened
  BY BroughtAre DEF Message
<1> HIDE DEF Happened
<1>2. ASSUME NEW m \in Message
      PROVE  ArrivedOf(list, Append(box, m)) = IF m.is = "event" THEN Append(ArrivedOf(list, box), m.what)
                                               ELSE ArrivedOf(list, box)
  <2>1. Brought(Append(box, m)) = b \o (IF m.is = "event" THEN <<m.what>> ELSE <<>>)
    BY BroughtAre
  <2> HIDE DEF b
  <2>2. CASE m.is = "event"
    <3>1. <<m.what>> \in Seq(Happened) /\ m.what \in Happened /\ list \o b \in Seq(Happened)
      BY <1>1, <2>2
    <3>2. list \o (b \o <<m.what>>) = (list \o b) \o <<m.what>>
      BY <1>1, <3>1, ConcatAssociative
    <3>3. (list \o b) \o <<m.what>> = Append(list \o b, m.what)
      BY <3>1, AppendIsConcat
    <3>4. QED
      BY <2>1, <2>2, <3>2, <3>3 DEF ArrivedOf, b
  <2>3. CASE m.is # "event"
    <3>1. b \o <<>> = b
      BY <1>1, ConcatEmptySeq
    <3>2. QED
      BY <2>1, <2>3, <3>1 DEF ArrivedOf, b
  <2>4. QED
    BY <2>2, <2>3
<1>3. ASSUME box # <<>>
      PROVE  ArrivedOf(list, box) = ArrivedOf(IF Head(box).is = "event" THEN Append(list, Head(box).what) ELSE list, Tail(box))
  <2> DEFINE t == Brought(Tail(box))
             h == Head(box)
  <2>1. h \in Message /\ Tail(box) \in Seq(Message)
    BY <1>3, HeadTailProperties
  <2>2. b = (IF h.is = "event" THEN <<h.what>> ELSE <<>>) \o t
    BY <1>3, BroughtAre
  <2>3. t \in Seq(Happened)
    BY <2>1, BroughtAre
  <2> HIDE DEF b, t, h
  <2>4. CASE h.is = "event"
    <3>1. <<h.what>> \in Seq(Happened) /\ h.what \in Happened
      BY <1>1, <2>1, <2>4
    <3>2. list \o (<<h.what>> \o t) = (list \o <<h.what>>) \o t
      BY <2>3, <3>1, ConcatAssociative
    <3>3. list \o <<h.what>> = Append(list, h.what)
      BY <3>1, AppendIsConcat
    <3>4. QED
      BY <2>2, <2>4, <3>2, <3>3 DEF ArrivedOf, b, t, h
  <2>5. CASE h.is # "event"
    <3>1. <<>> \o t = t
      BY <2>3, ConcatEmptySeq
    <3>2. QED
      BY <2>2, <2>5, <3>1 DEF ArrivedOf, b, t, h
  <2>6. QED
    BY <2>4, <2>5
<1>4. /\ list \o b \in Seq(Happened)
      /\ \A n \in 1..Len(list) : (list \o b)[n] = list[n] /\ n \in 1..Len(list \o b)
  <2> HIDE DEF b
  <2>1. QED
    BY <1>1
<1>5. QED
  BY <1>2, <1>3, <1>4 DEF ArrivedOf

(* The events of one run: one more of them is the last.                        *)
LEMMA EventsMore ==
  ASSUME NEW list \in Seq(Happened), NEW e \in Happened, NEW i
  PROVE  /\ EventsOf(i, list) \in Seq(Happened)
         /\ EventsOf(i, Append(list, e)) = IF e.run = i THEN Append(EventsOf(i, list), e) ELSE EventsOf(i, list)
<1> DEFINE K == {x \in Happened : x.run = i}
<1> HIDE DEF Happened
<1>1. ASSUME NEW l \in Seq(Happened)
      PROVE  EventsOf(i, l) = Picked(l, K) /\ Picked(l, K) \in Seq(Happened)
  <2>1. \A n \in 1..Len(l) : l[n] \in {x \in ToSet(l) : x.run = i} <=> l[n] \in K
    BY ElementOfSeq DEF ToSet
  <2>2. EventsOf(i, l) = Picked(l, K)
    BY <2>1, PickedSame DEF EventsOf
  <2>3. Picked(l, K) \in Seq(Happened \cap K) /\ Happened \cap K \subseteq Happened
    BY PickedSeq
  <2> HIDE DEF K
  <2>4. QED
    BY <2>2, <2>3, SeqMonotonic
<1>2. e \in K <=> e.run = i
  OBVIOUS
<1> HIDE DEF K
<1>3. Picked(Append(list, e), K) = Picked(list, K) \o (IF e \in K THEN <<e>> ELSE <<>>)
  BY PickedMore
<1>4. Append(list, e) \in Seq(Happened)
  OBVIOUS
<1>5. /\ Picked(list, K) \o <<e>> = Append(Picked(list, K), e)
      /\ Picked(list, K) \o <<>> = Picked(list, K)
  BY <1>1, AppendIsConcat, ConcatEmptySeq
<1>6. QED
  BY <1>1, <1>2, <1>3, <1>4, <1>5

(* A run of which nothing arrived has no events there.                         *)
LEMMA EventsNone ==
  ASSUME NEW list \in Seq(Happened), NEW i, \A n \in DOMAIN list : list[n].run # i
  PROVE  EventsOf(i, list) = <<>>
<1>1. \A n \in 1..Len(list) : list[n] \notin {x \in ToSet(list) : x.run = i}
  OBVIOUS
<1>2. QED
  BY <1>1, PickedNothing DEF EventsOf

(* The display of a list of events, for what a category, a filter and a pause  *)
(* let through.                                                                *)
Displayed(list, c, q, hidden) == Picked(list, {e \in ToSet(list) : e \notin hidden /\ Matches(e, c, q)})
LEMMA DisplayedMore ==
  ASSUME NEW list \in Seq(Happened), NEW e \in Happened, NEW c, NEW q, NEW hidden
  PROVE  /\ Displayed(Append(list, e), c, q, hidden) =
              IF e \notin hidden /\ Matches(e, c, q) THEN Append(Displayed(list, c, q, hidden), e)
                                                    ELSE Displayed(list, c, q, hidden)
         /\ (\A n \in DOMAIN list : list[n] # e) =>
              Displayed(list, c, q, hidden \cup {e}) = Displayed(list, c, q, hidden)
<1> DEFINE K(hide) == {x \in Happened : x \notin hide /\ Matches(x, c, q)}
<1> HIDE DEF Happened
<1>1. ASSUME NEW l \in Seq(Happened), NEW hide
      PROVE  Displayed(l, c, q, hide) = Picked(l, K(hide))
  <2>1. \A n \in 1..Len(l) : l[n] \in {x \in ToSet(l) : x \notin hide /\ Matches(x, c, q)} <=> l[n] \in K(hide)
    BY ElementOfSeq DEF ToSet
  <2> HIDE DEF K
  <2>2. QED
    BY <2>1, PickedSame DEF Displayed
<1>2. e \in K(hidden) <=> e \notin hidden /\ Matches(e, c, q)
  OBVIOUS
<1>3. Picked(list, K(hidden)) \in Seq(Happened)
  <2>1. Picked(list, K(hidden)) \in Seq(Happened \cap K(hidden)) /\ Happened \cap K(hidden) \subseteq Happened
    BY PickedSeq
  <2> HIDE DEF K
  <2>2. QED
    BY <2>1, SeqMonotonic
<1>4. (\A n \in DOMAIN list : list[n] # e) => Picked(list, K(hidden \cup {e})) = Picked(list, K(hidden))
  <2> SUFFICES ASSUME \A n \in DOMAIN list : list[n] # e
               PROVE  Picked(list, K(hidden \cup {e})) = Picked(list, K(hidden))
    OBVIOUS
  <2>1. \A n \in 1..Len(list) : list[n] \in K(hidden \cup {e}) <=> list[n] \in K(hidden)
    OBVIOUS
  <2> HIDE DEF K
  <2>2. QED
    BY <2>1, PickedSame
<1> HIDE DEF K
<1>5. Picked(Append(list, e), K(hidden)) = Picked(list, K(hidden)) \o (IF e \in K(hidden) THEN <<e>> ELSE <<>>)
  BY PickedMore
<1>6. Append(list, e) \in Seq(Happened)
  OBVIOUS
<1>7. /\ Picked(list, K(hidden)) \o <<e>> = Append(Picked(list, K(hidden)), e)
      /\ Picked(list, K(hidden)) \o <<>> = Picked(list, K(hidden))
  BY <1>3, AppendIsConcat, ConcatEmptySeq
<1>8. QED
  BY <1>1, <1>2, <1>4, <1>5, <1>6, <1>7

(* Each run's events are numbered as they were emitted, and no number is used  *)
(* twice.                                                                      *)
Numbered(list, runs) ==
    /\ \A n \in DOMAIN list : list[n].run \in DOMAIN runs /\ list[n].seq <= runs[list[n].run].emitted
    /\ \A m, n \in DOMAIN list : list[m].run = list[n].run /\ list[m].seq = list[n].seq => m = n
AllOf(i, list, runs) ==
    /\ Len(EventsOf(i, list)) = runs[i].emitted
    /\ \A n \in 1..runs[i].emitted : EventsOf(i, list)[n].seq = n
Complete(list, runs) == Numbered(list, runs) /\ \A i \in DOMAIN runs : AllOf(i, list, runs)

(* Runs that emit nothing leave it so, whether they go on, end or begin.       *)
LEMMA CompleteStays ==
  ASSUME NEW list \in Seq(Happened), NEW runs \in Seq(OneFlow), NEW more \in Seq(OneFlow), Complete(list, runs),
         Len(runs) <= Len(more),
         \A i \in DOMAIN more : more[i].emitted = IF i \in DOMAIN runs THEN runs[i].emitted ELSE 0
  PROVE  Complete(list, more)
<1> HIDE DEF Happened, OneFlow
<1>1. DOMAIN runs \subseteq DOMAIN more
  OBVIOUS
<1>2. Numbered(list, more)
  BY <1>1 DEF Complete, Numbered
<1>3. ASSUME NEW i \in DOMAIN more
      PROVE  AllOf(i, list, more)
  <2>1. CASE i \in DOMAIN runs
    BY <2>1 DEF Complete, AllOf
  <2>2. CASE i \notin DOMAIN runs
    <3>1. \A n \in DOMAIN list : list[n].run # i
      BY <2>2 DEF Complete, Numbered
    <3>2. EventsOf(i, list) = <<>>
      BY <3>1, EventsNone
    <3>3. QED
      BY <2>2, <3>2 DEF AllOf
  <2>3. QED
    BY <2>1, <2>2
<1>4. QED
  BY <1>2, <1>3 DEF Complete

(* An event that a run emits has the next number.                              *)
LEMMA CompleteEmits ==
  ASSUME NEW list \in Seq(Happened), NEW runs \in Seq(OneFlow), NEW more \in Seq(OneFlow), Complete(list, runs),
         NEW i \in DOMAIN runs, NEW k \in EventKinds, NEW e, e = [run |-> i, seq |-> more[i].emitted, kind |-> k],
         Len(more) = Len(runs),
         \A j \in DOMAIN runs : more[j].emitted = IF j = i THEN runs[j].emitted + 1 ELSE runs[j].emitted
  PROVE  Complete(Append(list, e), more)
<1>0. \A j \in DOMAIN runs : runs[j].emitted \in Nat
  <2>1. \A j \in DOMAIN runs : runs[j] \in OneFlow
    BY ElementOfSeq
  <2>2. QED
    BY <2>1 DEF OneFlow
<1>1. e \in Happened /\ e.run = i /\ e.seq = runs[i].emitted + 1 /\ DOMAIN more = DOMAIN runs
  BY <1>0 DEF Happened
<1> HIDE DEF Happened, OneFlow
<1>2. /\ Append(list, e) \in Seq(Happened) /\ DOMAIN Append(list, e) = 1..Len(list) + 1
      /\ Append(list, e)[Len(list) + 1] = e /\ DOMAIN list = 1..Len(list) /\ Len(list) \in Nat
      /\ \A n \in DOMAIN list : Append(list, e)[n] = list[n]
  BY <1>1
<1>3. Numbered(Append(list, e), more)
  <2>1. ASSUME NEW n \in DOMAIN list
        PROVE  /\ list[n].run \in DOMAIN runs /\ list[n].seq \in Nat /\ list[n].seq <= runs[list[n].run].emitted
               /\ list[n].run = i => list[n].seq # e.seq
    <3>1. list[n] \in Happened
      BY <1>2, ElementOfSeq
    <3>2. list[n].seq \in Nat
      BY <3>1 DEF Happened
    <3>3. list[n].run \in DOMAIN runs /\ list[n].seq <= runs[list[n].run].emitted
      BY DEF Complete, Numbered
    <3>4. QED
      BY <1>0, <1>1, <3>2, <3>3
  <2>2. ASSUME NEW n \in 1..Len(list) + 1
        PROVE  /\ Append(list, e)[n].run \in DOMAIN more
               /\ Append(list, e)[n].seq <= more[Append(list, e)[n].run].emitted
    <3>1. CASE n \in DOMAIN list
      BY <1>0, <1>1, <1>2, <2>1, <3>1
    <3>2. CASE n = Len(list) + 1
      BY <1>0, <1>1, <1>2, <3>2
    <3>3. QED
      BY <1>2, <3>1, <3>2
  <2>3. ASSUME NEW m \in 1..Len(list) + 1, NEW n \in 1..Len(list) + 1,
               Append(list, e)[m].run = Append(list, e)[n].run, Append(list, e)[m].seq = Append(list, e)[n].seq
        PROVE  m = n
    <3>1. m \in DOMAIN list \/ m = Len(list) + 1
      BY <1>2
    <3>2. n \in DOMAIN list \/ n = Len(list) + 1
      BY <1>2
    <3>3. CASE m \in DOMAIN list /\ n \in DOMAIN list
      BY <1>2, <2>3, <3>3 DEF Complete, Numbered
    <3>4. QED
      BY <1>1, <1>2, <2>1, <2>3, <3>1, <3>2, <3>3
  <2>4. QED
    BY <1>2, <2>2, <2>3 DEF Numbered
<1>4. ASSUME NEW j \in DOMAIN more
      PROVE  AllOf(j, Append(list, e), more)
  <2>1. /\ EventsOf(j, list) \in Seq(Happened) /\ AllOf(j, list, runs)
        /\ EventsOf(j, Append(list, e)) = IF i = j THEN Append(EventsOf(j, list), e) ELSE EventsOf(j, list)
    BY <1>1, EventsMore DEF Complete
  <2>2. CASE j # i
    BY <1>1, <2>1, <2>2 DEF AllOf
  <2>3. CASE j = i
    <3> DEFINE s == EventsOf(i, list)
               t == Append(s, e)
               m == runs[i].emitted
    <3>1. s \in Seq(Happened) /\ Len(s) = m /\ m \in Nat /\ \A n \in 1..m : s[n].seq = n
      BY <1>0, <2>1, <2>3 DEF AllOf
    <3> HIDE DEF s, m
    <3>2. Len(t) = m + 1 /\ t[m + 1] = e /\ \A n \in 1..m : t[n] = s[n]
      BY <1>1, <3>1
    <3>3. e.seq = m + 1 /\ more[i].emitted = m + 1
      BY <1>1 DEF m
    <3>4. \A n \in 1..m + 1 : t[n].seq = n
      BY <3>1, <3>2, <3>3
    <3>5. EventsOf(i, Append(list, e)) = t
      BY <2>1, <2>3 DEF s
    <3> HIDE DEF t
    <3>6. QED
      BY <2>3, <3>2, <3>3, <3>4, <3>5 DEF AllOf
  <2>4. QED
    BY <2>2, <2>3
<1>5. QED
  BY <1>3, <1>4 DEF Complete

(* The last change of the filter that is still under way has its value.        *)
NoChange(box) == \A n \in DOMAIN box : box[n].is # "changed"
Settled(box, q) ==
    \A n \in DOMAIN box :
        box[n].is = "changed" /\ (\A m \in DOMAIN box : m > n => box[m].is # "changed")
          => box[n].what = q
LEMMA SettledSteps ==
  ASSUME NEW box \in Seq(Message), NEW q
  PROVE  /\ \A m \in Message : m.is # "changed" =>
              /\ Settled(box, q) => Settled(Append(box, m), q)
              /\ NoChange(Append(box, m)) => NoChange(box)
         /\ Changed(q) \in Message => Settled(Append(box, Changed(q)), q) /\ ~NoChange(Append(box, Changed(q)))
         /\ box # <<>> /\ Settled(box, q) =>
              /\ Settled(Tail(box), q)
              /\ NoChange(Tail(box)) => NoChange(box) \/ (Head(box).is = "changed" /\ Head(box).what = q)
<1> HIDE DEF Message
<1> DEFINE k == Len(box) + 1
<1>0. DOMAIN box = 1..Len(box) /\ Len(box) \in Nat
  OBVIOUS
<1>1. ASSUME NEW m \in Message
      PROVE  /\ DOMAIN Append(box, m) = 1..k /\ Append(box, m)[k] = m
             /\ \A n \in DOMAIN box : n \in 1..k /\ k > n /\ Append(box, m)[n] = box[n]
             /\ \A n \in 1..k : n \in DOMAIN box \/ n = k
  BY <1>0
<1>2. ASSUME NEW m \in Message, m.is # "changed"
      PROVE  /\ Settled(box, q) => Settled(Append(box, m), q)
             /\ NoChange(Append(box, m)) => NoChange(box)
  <2> DEFINE t == Append(box, m)
  <2>1. /\ DOMAIN t = 1..k /\ t[k] = m
        /\ \A n \in DOMAIN box : n \in 1..k /\ k > n /\ t[n] = box[n]
        /\ \A n \in 1..k : n \in DOMAIN box \/ n = k
    BY <1>1
  <2> HIDE DEF t, k
  <2>2. QED
    <3>1. NoChange(t) => NoChange(box)
      BY <2>1 DEF NoChange
    <3>2. ASSUME Settled(box, q), NEW n \in DOMAIN t, t[n].is = "changed",
                 \A j \in DOMAIN t : j > n => t[j].is # "changed"
          PROVE  t[n].what = q
      <4>1. n \in DOMAIN box
        BY <1>2, <2>1, <3>2
      <4>2. box[n].is = "changed" /\ \A j \in DOMAIN box : j > n => box[j].is # "changed"
        BY <2>1, <3>2, <4>1
      <4>3. QED
        BY <2>1, <3>2, <4>1, <4>2 DEF Settled
    <3>3. Settled(box, q) => Settled(t, q)
      BY <3>2 DEF Settled
    <3>4. QED
      BY <3>1, <3>3 DEF t
<1>3. ASSUME Changed(q) \in Message
      PROVE  Settled(Append(box, Changed(q)), q) /\ ~NoChange(Append(box, Changed(q)))
  <2> DEFINE t == Append(box, Changed(q))
  <2>1. /\ DOMAIN t = 1..k /\ t[k] = Changed(q) /\ k \in 1..k
        /\ \A n \in DOMAIN t : n # k => k > n
    BY <1>0, <1>1, <1>3
  <2>2. Changed(q).is = "changed" /\ Changed(q).what = q
    BY DEF Changed
  <2> HIDE DEF t, k
  <2>3. QED
    BY <2>1, <2>2 DEF Settled, NoChange, t
<1>4. ASSUME box # <<>>, Settled(box, q)
      PROVE  /\ Settled(Tail(box), q)
             /\ NoChange(Tail(box)) => NoChange(box) \/ (Head(box).is = "changed" /\ Head(box).what = q)
  <2> DEFINE t == Tail(box)
  <2>1. /\ DOMAIN t = 1..Len(box) - 1 /\ Head(box) = box[1] /\ Len(box) > 0
        /\ \A n \in DOMAIN t : t[n] = box[n + 1] /\ n + 1 \in DOMAIN box
        /\ \A n \in DOMAIN box : n = 1 \/ (n - 1 \in DOMAIN t /\ t[n - 1] = box[n])
    BY <1>0, <1>4
  <2> HIDE DEF t
  <2>2. ASSUME NEW n \in DOMAIN t, t[n].is = "changed", \A m \in DOMAIN t : m > n => t[m].is # "changed"
        PROVE  t[n].what = q
    <3>1. ASSUME NEW m \in DOMAIN box, m > n + 1
          PROVE  box[m].is # "changed"
      <4>1. m - 1 \in DOMAIN t /\ m - 1 > n /\ t[m - 1] = box[m]
        BY <1>0, <2>1, <3>1
      <4>2. QED
        BY <2>2, <4>1
    <3>2. t[n] = box[n + 1] /\ n + 1 \in DOMAIN box
      BY <2>1
    <3>3. QED
      BY <1>4, <2>2, <3>1, <3>2 DEF Settled
  <2>3. ASSUME NoChange(t), ~NoChange(box)
        PROVE  Head(box).is = "changed" /\ Head(box).what = q
    <3>1. \A n \in DOMAIN box : n = 1 \/ box[n].is # "changed"
      BY <2>1, <2>3 DEF NoChange
    <3>2. box[1].is = "changed" /\ 1 \in DOMAIN box
      BY <1>0, <2>1, <2>3, <3>1 DEF NoChange
    <3>3. \A m \in DOMAIN box : m > 1 => box[m].is # "changed"
      BY <1>0, <3>1
    <3>4. QED
      BY <1>4, <2>1, <3>2, <3>3 DEF Settled
  <2>4. Settled(t, q)
    BY <2>2 DEF Settled
  <2>5. QED
    BY <2>3, <2>4 DEF t
<1>5. QED
  BY <1>2, <1>3, <1>4

-----------------------------------------------------------------------------
(* The invariant of the timeline.                                              *)

(* What was emitted has arrived or is on its way, as long as the app is open.  *)
ArrivalInv ==
    /\ place \in Unlaunching \ {"questions"} => events = <<>> /\ inbox = <<>>
    /\ Open => Complete(Arrived, flows)

(* The display is of the filter, once the last of its changes has arrived.     *)
ViewInv ==
    /\ Settled(inbox, query)
    /\ NoChange(inbox) => shown = Rendered(category, query, held)
    /\ ~paused => held = {}
TimelineInv == BoxTypes /\ ArrivalInv /\ ViewInv

LEMMA ArrivedIs ==
  /\ Arrived = ArrivedOf(events, inbox) /\ Arrived' = ArrivedOf(events', inbox')
  /\ \A c, q, h : /\ Rendered(c, q, h) = Displayed(events, c, q, h)
                 /\ Rendered(c, q, h)' = Displayed(events', c, q, h)
BY DEF Arrived, ArrivedOf, Brought, Values, Messages, Rendered, Displayed

(* A step that posts and displays nothing.                                     *)
LEMMA BoxStays ==
  ASSUME TimelineInv, UNCHANGED <<inbox, viewVars>>
  PROVE  BoxTypes' /\ ViewInv' /\ Arrived' = Arrived
<1>1. UNCHANGED <<events, inbox, shown, held, category, query, paused>>
  BY DEF viewVars
<1>2. Arrived' = Arrived
  BY <1>1, ArrivedIs
<1>3. BoxTypes'
  BY <1>1 DEF TimelineInv, BoxTypes
<1>4. ViewInv'
  BY <1>1, ArrivedIs DEF TimelineInv, ViewInv
<1>5. QED
  BY <1>2, <1>3, <1>4

(* Messages that bring no event leave what has arrived or will as it was.      *)
LEMMA ArrivalStays ==
  ASSUME WorkbenchInv, WorkbenchInv', TimelineInv, Open, Arrived' = Arrived, place' \notin Unlaunching \ {"questions"},
         Len(flows) <= Len(flows'),
         \A i \in DOMAIN flows' : flows'[i].emitted = IF i \in DOMAIN flows THEN flows[i].emitted ELSE 0
  PROVE  ArrivalInv'
<1>1. flows \in Seq(OneFlow) /\ flows' \in Seq(OneFlow)
  BY DEF WorkbenchInv, SetupTypes
<1>2. Arrived \in Seq(Happened)
  BY ArrivedIs, ArrivedSteps DEF TimelineInv, BoxTypes
<1>3. Complete(Arrived, flows')
  BY <1>1, <1>2, CompleteStays DEF TimelineInv, ArrivalInv
<1>4. QED
  BY <1>3 DEF ArrivalInv

LEMMA ArrivalHeld ==
  ASSUME WorkbenchInv, WorkbenchInv', TimelineInv, Open, Arrived' = Arrived, place' = place, flows' = flows
  PROVE  ArrivalInv'
<1>1. \A i \in DOMAIN flows' : flows'[i].emitted = IF i \in DOMAIN flows THEN flows[i].emitted ELSE 0
  OBVIOUS
<1>2. Len(flows) <= Len(flows')
  BY DEF WorkbenchInv, SetupTypes
<1>3. place' \notin Unlaunching \ {"questions"}
  BY DEF Open, Unlaunching
<1>4. QED
  BY <1>1, <1>2, <1>3, ArrivalStays

(* A press or a change of the filter is posted.                                *)
LEMMA PostsBox ==
  ASSUME TimelineInv, NEW m \in Message, m.is # "event", inbox' = Append(inbox, m), events' = events
  PROVE  BoxTypes' /\ Arrived' = Arrived
<1>1. inbox \in Seq(Message) /\ events \in Seq(Happened)
  BY DEF TimelineInv, BoxTypes
<1>2. ArrivedOf(events, Append(inbox, m)) = ArrivedOf(events, inbox)
  BY <1>1, ArrivedSteps
<1>3. Append(inbox, m) \in Seq(Message)
  BY <1>1
<1>4. QED
  BY <1>1, <1>2, <1>3, ArrivedIs DEF BoxTypes

(* The app takes a message; if it brings an event, it is displayed or held.    *)
LEMMA TakesBox ==
  ASSUME TimelineInv, inbox # <<>>, inbox' = Tail(inbox),
         events' = IF Head(inbox).is = "event" THEN Append(events, Head(inbox).what) ELSE events
  PROVE  BoxTypes' /\ Arrived' = Arrived
<1>1. inbox \in Seq(Message) /\ events \in Seq(Happened)
  BY DEF TimelineInv, BoxTypes
<1>2. ArrivedOf(events, inbox) = ArrivedOf(events', inbox')
  BY <1>1, ArrivedSteps
<1>3. Head(inbox) \in Message /\ Tail(inbox) \in Seq(Message)
  BY <1>1, HeadTailProperties
<1>4. Head(inbox).is = "event" => Head(inbox).what \in Happened
  BY <1>3 DEF Message
<1> HIDE DEF Message, Happened
<1>5. events' \in Seq(Happened)
  BY <1>1, <1>4
<1>6. QED
  BY <1>2, <1>3, <1>5, ArrivedIs DEF BoxTypes

(* The press of a button, posted or taken.                                     *)
LEMMA PressMoves ==
  ASSUME TimelineInv, UNCHANGED viewVars,
         \/ \E b \in {"next", "back", "launch"} : inbox' = Append(inbox, Press(b))
         \/ inbox # <<>> /\ inbox' = Tail(inbox) /\ Head(inbox).is = "press"
  PROVE  BoxTypes' /\ ViewInv' /\ Arrived' = Arrived
<1>1. UNCHANGED <<events, shown, held, category, query, paused>>
  BY DEF viewVars
<1>2. inbox \in Seq(Message) /\ Settled(inbox, query)
  BY DEF TimelineInv, BoxTypes, ViewInv
<1>3. CASE \E b \in {"next", "back", "launch"} : inbox' = Append(inbox, Press(b))
  <2>1. PICK b \in {"next", "back", "launch"} : inbox' = Append(inbox, Press(b))
    BY <1>3
  <2>2. Press(b) \in Message /\ Press(b).is \notin {"event", "changed"}
    BY DEF Press, Message
  <2>3. BoxTypes' /\ Arrived' = Arrived
    BY <1>1, <2>1, <2>2, PostsBox
  <2>4. Settled(inbox', query) /\ (NoChange(inbox') => NoChange(inbox))
    BY <1>2, <2>1, <2>2, SettledSteps
  <2>5. QED
    BY <1>1, <2>3, <2>4, ArrivedIs DEF TimelineInv, ViewInv
<1>4. CASE inbox # <<>> /\ inbox' = Tail(inbox) /\ Head(inbox).is = "press"
  <2>1. BoxTypes' /\ Arrived' = Arrived
    BY <1>1, <1>4, TakesBox
  <2>2. Settled(inbox', query) /\ (NoChange(inbox') => NoChange(inbox))
    BY <1>2, <1>4, SettledSteps
  <2>3. QED
    BY <1>1, <2>1, <2>2, ArrivedIs DEF TimelineInv, ViewInv
<1>5. QED
  BY <1>3, <1>4

(* A command that is not open has no timeline that could be wrong.             *)
LEMMA ClosedArrival ==
  ASSUME place' \in {"terminal", "closed"}
  PROVE  ArrivalInv'
BY DEF ArrivalInv, Unlaunching, Open

LEMMA TerminalTimeline ==
  ASSUME WorkbenchInv, WorkbenchInv', TimelineInv, TerminalStep
  PROVE  TimelineInv'
<1>1. UNCHANGED <<inbox, viewVars>>
  BY DEF TerminalStep
<1>2. BoxTypes' /\ ViewInv' /\ Arrived' = Arrived /\ events' = events /\ inbox' = inbox
  BY <1>1, BoxStays DEF viewVars
<1>3. place' \in {"terminal", "closed"} \/ (place \in Unlaunching \ {"questions"} /\ place' \in Unlaunching)
  BY DEF TerminalStep, CommandLine, RunCommand, CommandStops, OpenWorkbench, Inspect, Wizard, TerminalPreflight,
         TerminalEnds, Close, Unlaunching
<1>4. CASE place \in Unlaunching \ {"questions"} /\ place' \in Unlaunching
  <2>1. events = <<>> /\ inbox = <<>> /\ flows' = <<>>
    BY <1>4 DEF TimelineInv, ArrivalInv, WorkbenchInv, FlowsInv
  <2>2. Brought(<<>>) = <<>>
    BY PickedNone DEF Brought, Values, ToSet
  <2>3. Arrived = <<>>
    BY <2>1, <2>2, ArrivedIs DEF ArrivedOf
  <2>4. Complete(<<>>, <<>>)
    BY DEF Complete, Numbered
  <2>5. QED
    BY <1>2, <2>1, <2>3, <2>4 DEF TimelineInv, ArrivalInv
<1>5. QED
  BY <1>2, <1>3, <1>4, ClosedArrival DEF TimelineInv

LEMMA QuestionsTimeline ==
  ASSUME WorkbenchInv, WorkbenchInv', TimelineInv, QuestionStep \/ QuestionInput
  PROVE  TimelineInv'
<1>0. UNCHANGED viewVars
  BY DEF QuestionStep, QuestionInput
<1>1. CASE PressButton
  <2>1. Open /\ place' = place /\ flows' = flows
    BY <1>1 DEF PressButton, Asking, Idle, setupVars
  <2>2. \E b \in {"next", "back", "launch"} : inbox' = Append(inbox, Press(b))
    BY <1>1 DEF PressButton
  <2>3. QED
    BY <1>0, <2>1, <2>2, PressMoves, ArrivalHeld DEF TimelineInv
<1>2. CASE PickScenario \/ TypeAnswer
  <2>1. Open /\ place' = place /\ flows' = flows /\ inbox' = inbox
    BY <1>2 DEF PickScenario, TypeAnswer, Asking, Idle
  <2>2. QED
    BY <1>0, <2>1, BoxStays, ArrivalHeld DEF TimelineInv
<1>3. CASE TakeNext \/ TakeBack \/ TakeLaunch
  <2>1. Open /\ inbox # <<>> /\ inbox' = Tail(inbox) /\ Head(inbox).is = "press"
    BY <1>3 DEF TakeNext, TakeBack, TakeLaunch, Takes, Press, Idle
  <2>2. (place' = place /\ flows' = flows) \/ place' = "closed"
    BY <1>3 DEF TakeNext, TakeBack, TakeLaunch, Close
  <2>3. QED
    BY <1>0, <2>1, <2>2, PressMoves, ArrivalHeld, ClosedArrival DEF TimelineInv
<1>4. CASE LaunchChecked
  <2>1. Open /\ inbox' = inbox /\ ((place' = place /\ flows' = flows) \/ (Launch /\ place' = "live"))
    BY <1>4 DEF LaunchChecked
  <2>2. CASE Launch /\ place' = "live"
    <3>1. flows \in Seq(OneFlow)
      BY DEF WorkbenchInv, SetupTypes
    <3>2. /\ Len(Cancelled) = Len(flows) /\ Cancelled \in Seq(OneFlow)
          /\ \A i \in DOMAIN flows : Cancelled[i].emitted = flows[i].emitted
      <4>1. \A f \in OneFlow : [f EXCEPT !.state = "cancelled"].emitted = f.emitted
        BY DEF OneFlow
      <4>2. \A i \in DOMAIN flows : flows[i] \in OneFlow
        BY <3>1
      <4>3. QED
        BY <4>1, <4>2, CancelledRuns DEF WorkbenchInv, Cancelled
    <3>3. /\ Len(flows) <= Len(flows')
          /\ \A i \in DOMAIN flows' : flows'[i].emitted = IF i \in DOMAIN flows THEN flows[i].emitted ELSE 0
      BY <2>2, <3>1, <3>2 DEF Launch
    <3>4. QED
      BY <1>0, <2>1, <2>2, <3>3, BoxStays, ArrivalStays DEF TimelineInv, Unlaunching
  <2>3. QED
    BY <1>0, <2>1, <2>2, BoxStays, ArrivalHeld DEF TimelineInv
<1>5. QED
  BY <1>1, <1>2, <1>3, <1>4 DEF QuestionStep, QuestionInput

(* A run emits an event, which is posted.                                      *)
LEMMA EmitTimeline ==
  ASSUME WorkbenchInv, WorkbenchInv', TimelineInv, Emit
  PROVE  TimelineInv'
<1>1. PICK i \in DOMAIN flows, k \in EventKinds :
         /\ flows' = [flows EXCEPT ![i].emitted = @ + 1]
         /\ inbox' = Append(inbox, [is |-> "event", what |-> [run |-> i, seq |-> flows'[i].emitted, kind |-> k]])
  BY DEF Emit
<1>2. place = "live" /\ place' = "live" /\ UNCHANGED <<events, shown, held, category, query, paused>>
  BY DEF Emit, Live, viewVars
<1>3. /\ flows \in Seq(OneFlow) /\ flows' \in Seq(OneFlow) /\ inbox \in Seq(Message) /\ events \in Seq(Happened)
      /\ Settled(inbox, query) /\ Complete(Arrived, flows)
  BY <1>2 DEF WorkbenchInv, SetupTypes, TimelineInv, BoxTypes, ArrivalInv, ViewInv, Open
<1> DEFINE e == [run |-> i, seq |-> flows'[i].emitted, kind |-> k]
           m == [is |-> "event", what |-> e]
<1>4. /\ Len(flows') = Len(flows)
      /\ \A j \in DOMAIN flows : flows'[j].emitted = IF j = i THEN flows[j].emitted + 1 ELSE flows[j].emitted
  <2>1. \A j \in DOMAIN flows : flows[j] \in OneFlow
    BY <1>3, ElementOfSeq
  <2>2. flows'[i] = [flows[i] EXCEPT !.emitted = @ + 1] /\ \A j \in DOMAIN flows : j # i => flows'[j] = flows[j]
    BY <1>1
  <2>3. [flows[i] EXCEPT !.emitted = @ + 1].emitted = flows[i].emitted + 1
    BY <2>1 DEF OneFlow
  <2>4. Len(flows') = Len(flows)
    BY <1>1, <1>3
  <2>5. QED
    BY <2>2, <2>3, <2>4
<1>5. flows'[i].emitted \in Nat /\ i \in Nat
  <2>1. i \in DOMAIN flows'
    BY <1>3, <1>4
  <2>2. flows'[i] \in OneFlow
    BY <1>3, <2>1, ElementOfSeq
  <2>3. i \in Nat
    BY <1>3
  <2>4. QED
    BY <2>2, <2>3 DEF OneFlow
<1>6. e \in Happened /\ m \in Message /\ m.is = "event" /\ m.what = e
  BY <1>1, <1>5 DEF Happened, Message
<1>7. inbox' = Append(inbox, m)
  BY <1>1
<1>8. Arrived \in Seq(Happened) /\ Arrived' = Append(Arrived, e)
  <2>1. Arrived' = ArrivedOf(events, Append(inbox, m)) /\ Arrived = ArrivedOf(events, inbox)
    BY <1>2, <1>7, ArrivedIs
  <2> HIDE DEF Message, e, m
  <2>2. QED
    BY <1>3, <1>6, <2>1, ArrivedSteps
<1>9. Complete(Append(Arrived, e), flows')
  <2>1. e = [run |-> i, seq |-> flows'[i].emitted, kind |-> k]
    OBVIOUS
  <2> HIDE DEF Message, Happened, OneFlow, e, m
  <2>2. QED
    BY <1>3, <1>4, <1>8, <2>1, CompleteEmits
<1>10. ArrivalInv'
  BY <1>2, <1>8, <1>9 DEF ArrivalInv, Unlaunching
<1> HIDE DEF Message, Happened, e, m
<1>11. BoxTypes'
  BY <1>2, <1>3, <1>6, <1>7 DEF BoxTypes
<1>12. Settled(inbox', query) /\ (NoChange(inbox') => NoChange(inbox))
  BY <1>3, <1>6, <1>7, SettledSteps
<1>13. ViewInv'
  BY <1>2, <1>12, ArrivedIs DEF TimelineInv, ViewInv
<1>14. QED
  BY <1>10, <1>11, <1>13 DEF TimelineInv

(* An event is not displayed before it is taken, so that a pause that hides it *)
(* hides nothing else.                                                         *)
LEMMA ReceiveTimeline ==
  ASSUME WorkbenchInv, WorkbenchInv', TimelineInv, ReceiveEvent
  PROVE  TimelineInv'
<1> DEFINE e == Head(inbox).what
<1>1. /\ Open /\ inbox # <<>> /\ Head(inbox).is = "event" /\ inbox' = Tail(inbox) /\ events' = Append(events, e)
      /\ held' = IF paused THEN held \cup {e} ELSE held
      /\ shown' = IF ~paused /\ Matches(e, category, query) THEN Append(shown, e) ELSE shown
      /\ UNCHANGED <<place, flows, category, query, paused>>
  BY DEF ReceiveEvent, Idle, setupVars
<1>2. /\ inbox \in Seq(Message) /\ events \in Seq(Happened) /\ Settled(inbox, query)
      /\ NoChange(inbox) => shown = Displayed(events, category, query, held)
      /\ ~paused => held = {}
  BY ArrivedIs DEF TimelineInv, BoxTypes, ViewInv
<1>3. BoxTypes' /\ Arrived' = Arrived
  BY <1>1, TakesBox
<1>4. e \in Happened /\ Tail(inbox) \in Seq(Message)
  <2>1. Head(inbox) \in Message /\ Tail(inbox) \in Seq(Message)
    BY <1>1, <1>2, HeadTailProperties
  <2>2. QED
    BY <1>1, <2>1 DEF Message
<1>5. ArrivalInv'
  BY <1>1, <1>3, ArrivalHeld
<1> HIDE DEF Message, Happened, e
<1>6. \A n \in DOMAIN events : events[n] # e
  <2> DEFINE k == Len(events) + 1
             list == Append(events, e)
  <2>1. list \in Seq(Happened) /\ Len(list) = k /\ list[k] = e /\ k \in Nat /\ k \in 1..k
        /\ \A n \in DOMAIN events : n \in 1..k /\ n # k /\ list[n] = events[n]
    BY <1>2, <1>4
  <2>2. Arrived = ArrivedOf(list, Tail(inbox))
    BY <1>1, <1>3, ArrivedIs
  <2> HIDE DEF list, k
  <2>3. \A n \in 1..Len(list) : Arrived[n] = list[n] /\ n \in 1..Len(Arrived)
    BY <1>4, <2>1, <2>2, ArrivedSteps
  <2>4. Arrived \in Seq(Happened)
    BY <1>4, <2>1, <2>2, ArrivedSteps
  <2>5. Numbered(Arrived, flows)
    BY <1>1 DEF TimelineInv, ArrivalInv, Complete
  <2>6. DOMAIN Arrived = 1..Len(Arrived)
    BY <2>4
  <2>7. \A m \in DOMAIN Arrived, n \in DOMAIN Arrived : Arrived[m] = Arrived[n] => m = n
    BY <2>5 DEF Numbered
  <2>8. QED
    BY <2>1, <2>3, <2>6, <2>7
<1>7. Settled(inbox', query) /\ (NoChange(inbox') => NoChange(inbox))
  BY <1>1, <1>2, SettledSteps
<1>8. /\ Displayed(Append(events, e), category, query, {}) =
            IF Matches(e, category, query) THEN Append(Displayed(events, category, query, {}), e)
                                           ELSE Displayed(events, category, query, {})
      /\ Displayed(Append(events, e), category, query, held \cup {e}) = Displayed(events, category, query, held)
  <2>1. \A hidden :
          /\ Displayed(Append(events, e), category, query, hidden) =
               IF e \notin hidden /\ Matches(e, category, query) THEN Append(Displayed(events, category, query, hidden), e)
                                                               ELSE Displayed(events, category, query, hidden)
          /\ Displayed(events, category, query, hidden \cup {e}) = Displayed(events, category, query, hidden)
    BY <1>2, <1>4, <1>6, DisplayedMore
  <2>2. e \notin {} /\ e \in held \cup {e}
    OBVIOUS
  <2>3. QED
    BY <2>1, <2>2
<1>9. NoChange(inbox') => shown' = Displayed(events', category, query, held')
  <2>1. CASE paused
    BY <1>1, <1>2, <1>7, <1>8, <2>1
  <2>2. CASE ~paused
    BY <1>1, <1>2, <1>7, <1>8, <2>2
  <2>3. QED
    BY <2>1, <2>2
<1>10. ViewInv'
  BY <1>1, <1>2, <1>7, <1>9, ArrivedIs DEF ViewInv
<1>11. QED
  BY <1>3, <1>5, <1>10 DEF TimelineInv

LEMMA LiveTimeline ==
  ASSUME WorkbenchInv, WorkbenchInv', TimelineInv, LiveStep
  PROVE  TimelineInv'
<1>1. CASE Emit
  BY <1>1, EmitTimeline
<1>2. CASE ReceiveEvent
  BY <1>2, ReceiveTimeline
<1>3. CASE FlowEnds \/ CancelledEnds
  <2>1. PICK i \in DOMAIN flows : flows' = [flows EXCEPT ![i].state = "ended"]
    BY <1>3 DEF FlowEnds, CancelledEnds
  <2>2. UNCHANGED <<inbox, viewVars>> /\ place' = place
    BY <1>3 DEF FlowEnds, CancelledEnds
  <2>3. flows \in Seq(OneFlow) /\ flows' \in Seq(OneFlow) /\ i \in 1..Len(flows)
    BY <2>1 DEF WorkbenchInv, SetupTypes
  <2>4. \A j \in DOMAIN flows : flows[j] \in OneFlow
    BY <2>3, ElementOfSeq
  <2>5. [flows[i] EXCEPT !.state = "ended"].emitted = flows[i].emitted
    BY <2>4 DEF OneFlow
  <2>6. /\ DOMAIN flows' = DOMAIN flows /\ Len(flows') = Len(flows) /\ Len(flows) \in Nat
        /\ flows'[i] = [flows[i] EXCEPT !.state = "ended"]
        /\ \A j \in DOMAIN flows : j # i => flows'[j] = flows[j]
    BY <2>1, <2>3
  <2>7. \A j \in DOMAIN flows' : flows'[j].emitted = IF j \in DOMAIN flows THEN flows[j].emitted ELSE 0
    BY <2>5, <2>6
  <2>8. BoxTypes' /\ ViewInv' /\ Arrived' = Arrived
    BY <2>2, BoxStays
  <2>9. ArrivalInv'
    <3>1. CASE Open
      BY <2>2, <2>6, <2>7, <2>8, <3>1, ArrivalStays DEF Open, Unlaunching
    <3>2. CASE ~Open
      BY <2>2, <3>2 DEF TimelineInv, ArrivalInv, viewVars, Open, Unlaunching
    <3>3. QED
      BY <3>1, <3>2
  <2>10. QED
    BY <2>8, <2>9 DEF TimelineInv
<1>4. CASE FilterChanged
  <2>1. PICK q \in Queries : Takes(Changed(q)) /\ shown' = Rendered(category, q, held)
    BY <1>4 DEF FilterChanged
  <2>2. /\ Open /\ inbox # <<>> /\ inbox' = Tail(inbox) /\ Head(inbox).is = "changed" /\ Head(inbox).what = q
        /\ UNCHANGED <<place, flows, events, held, category, query, paused>>
    BY <1>4, <2>1 DEF FilterChanged, Takes, Idle, Changed, setupVars
  <2>3. BoxTypes' /\ Arrived' = Arrived
    BY <2>2, TakesBox
  <2>4. inbox \in Seq(Message) /\ Settled(inbox, query)
    BY DEF TimelineInv, BoxTypes, ViewInv
  <2>5. Settled(inbox', query)
    BY <2>2, <2>4, SettledSteps
  <2>6. NoChange(inbox') => q = query
    <3>1. ~NoChange(inbox)
      BY <2>2, <2>4 DEF NoChange
    <3>2. QED
      BY <2>2, <2>4, <3>1, SettledSteps
  <2>7. ViewInv'
    BY <2>1, <2>2, <2>5, <2>6, ArrivedIs DEF TimelineInv, ViewInv
  <2>8. QED
    BY <2>2, <2>3, <2>7, ArrivalHeld DEF TimelineInv
<1>5. CASE Tick
  BY <1>5, BoxStays, ArrivalHeld DEF Tick, Idle, setupVars, TimelineInv
<1>6. QED
  BY <1>1, <1>2, <1>3, <1>4, <1>5 DEF LiveStep

(* A key on the live page changes what is displayed, never what arrived.       *)
LEMMA InputTimeline ==
  ASSUME WorkbenchInv, WorkbenchInv', TimelineInv, LiveInput
  PROVE  TimelineInv'
<1>1. Open /\ UNCHANGED <<place, flows, events>>
  BY DEF LiveInput, TypeFilter, SetCategory, ClearFilter, TogglePause, Idle, setupVars
<1>2. /\ inbox \in Seq(Message) /\ events \in Seq(Happened) /\ Settled(inbox, query) /\ (~paused => held = {})
      /\ NoChange(inbox) => shown = Displayed(events, category, query, held)
  BY ArrivedIs DEF TimelineInv, BoxTypes, ViewInv
<1>3. ASSUME inbox' = inbox
      PROVE  BoxTypes' /\ ArrivalInv'
  BY <1>1, <1>2, <1>3, ArrivedIs, ArrivalHeld DEF BoxTypes
<1>4. ASSUME NEW q \in Queries \cup {""}, query' = q, inbox' = Append(inbox, Changed(q))
      PROVE  BoxTypes' /\ ArrivalInv' /\ Settled(inbox', query') /\ ~NoChange(inbox')
  <2>1. Changed(q) \in Message /\ Changed(q).is # "event"
    BY DEF Changed, Message
  <2>2. BoxTypes' /\ Arrived' = Arrived
    BY <1>1, <1>4, <2>1, PostsBox
  <2>3. Settled(inbox', query') /\ ~NoChange(inbox')
    BY <1>2, <1>4, <2>1, SettledSteps
  <2>4. QED
    BY <1>1, <2>2, <2>3, ArrivalHeld
<1>5. CASE TypeFilter
  <2>1. PICK q \in Queries : query' = q /\ inbox' = Append(inbox, Changed(q))
    BY <1>5 DEF TypeFilter
  <2>2. BoxTypes' /\ ArrivalInv' /\ Settled(inbox', query') /\ ~NoChange(inbox')
    BY <1>4, <2>1
  <2>3. ViewInv'
    BY <1>2, <1>5, <2>2 DEF TypeFilter, ViewInv
  <2>4. QED
    BY <2>2, <2>3 DEF TimelineInv
<1>6. CASE SetCategory
  <2>1. /\ UNCHANGED <<inbox, events, held, query, paused>>
        /\ shown' = Rendered(category', query, held)
    BY <1>6 DEF SetCategory
  <2>2. ViewInv'
    BY <1>2, <2>1, ArrivedIs DEF ViewInv
  <2>3. QED
    BY <1>3, <2>1, <2>2 DEF TimelineInv
<1>7. CASE ClearFilter
  <2>1. /\ query' = "" /\ shown' = Rendered(category', query', held) /\ UNCHANGED <<events, held, paused>>
        /\ inbox' = IF query = "" THEN inbox ELSE Append(inbox, Changed(""))
    BY <1>7 DEF ClearFilter
  <2>2. CASE query = ""
    <3>1. Settled(inbox', query')
      BY <1>2, <2>1, <2>2
    <3>2. ViewInv'
      BY <1>2, <2>1, <3>1, ArrivedIs DEF ViewInv
    <3>3. QED
      BY <1>3, <2>1, <2>2, <3>2 DEF TimelineInv
  <2>3. CASE query # ""
    <3>1. BoxTypes' /\ ArrivalInv' /\ Settled(inbox', query') /\ ~NoChange(inbox')
      BY <1>4, <2>1, <2>3
    <3>2. QED
      BY <1>2, <2>1, <3>1 DEF TimelineInv, ViewInv
  <2>4. QED
    BY <2>2, <2>3
<1>8. CASE TogglePause
  <2>1. /\ UNCHANGED <<inbox, events, category, query>> /\ paused' = ~paused
        /\ IF paused THEN held' = {} /\ shown' = Rendered(category, query, {}) ELSE UNCHANGED <<held, shown>>
    BY <1>8 DEF TogglePause
  <2>2. ViewInv'
    BY <1>2, <2>1, ArrivedIs DEF ViewInv
  <2>3. QED
    BY <1>3, <2>1, <2>2 DEF TimelineInv
<1>9. QED
  BY <1>5, <1>6, <1>7, <1>8 DEF LiveInput

(* When the app is left, nothing is displayed and nothing waits.               *)
LEMMA NothingWaits ==
  /\ <<>> \in Seq(Happened) /\ <<>> \in Seq(Message)
  /\ \A c, q, h : Displayed(<<>>, c, q, h) = <<>> /\ Settled(<<>>, q)
<1>1. \A c, q, h : Displayed(<<>>, c, q, h) = <<>>
  BY PickedNone DEF Displayed
<1>2. DOMAIN <<>> = {}
  OBVIOUS
<1>3. QED
  BY <1>1, <1>2 DEF Settled

LEMMA ExitTimeline ==
  ASSUME ExitInput
  PROVE  TimelineInv'
<1>1. events' = <<>> /\ inbox' = <<>> /\ shown' = <<>> /\ held' = {} /\ place' = "closed"
  BY DEF ExitInput, Leaves, Quits, Close
<1>2. BoxTypes' /\ ViewInv'
  BY <1>1, NothingWaits, ArrivedIs DEF BoxTypes, ViewInv
<1>3. QED
  BY <1>1, <1>2, ClosedArrival DEF TimelineInv

LEMMA TimelineStays ==
  ASSUME WorkbenchInv, WorkbenchInv', TimelineInv, UNCHANGED workbenchVars
  PROVE  TimelineInv'
<1>1. UNCHANGED <<inbox, viewVars>> /\ place' = place /\ flows' = flows
  BY DEF workbenchVars, setupVars
<1>2. BoxTypes' /\ ViewInv' /\ Arrived' = Arrived
  BY <1>1, BoxStays
<1>3. ArrivalInv'
  BY <1>1, <1>2 DEF TimelineInv, ArrivalInv, viewVars, Open
<1>4. QED
  BY <1>2, <1>3 DEF TimelineInv

LEMMA TimelineKeeps ==
  ASSUME WorkbenchInv, TimelineInv, [Next]_vars
  PROVE  WorkbenchInv' /\ TimelineInv'
<1>1. WorkbenchInv'
  BY WorkbenchKeeps
<1>2. CASE WorkbenchStep \/ WorkbenchInput
  BY <1>1, <1>2, TerminalTimeline, QuestionsTimeline, LiveTimeline, InputTimeline, ExitTimeline
     DEF WorkbenchStep, WorkbenchInput
<1>3. CASE UNCHANGED workbenchVars
  BY <1>1, <1>3, TimelineStays
<1>4. QED
  BY <1>1, <1>2, <1>3, WorkbenchActs

LEMMA TimelineStarts == Init => TimelineInv
<1> SUFFICES ASSUME Init PROVE TimelineInv
  OBVIOUS
<1>1. place = "command" /\ events = <<>> /\ inbox = <<>> /\ shown = <<>> /\ held = {}
  <2>1. PICK c, m : WorkbenchInit(c, m)
    BY DEF Init
  <2>2. QED
    BY <2>1 DEF WorkbenchInit
<1>2. BoxTypes /\ ViewInv
  BY <1>1, NothingWaits, ArrivedIs DEF BoxTypes, ViewInv
<1>3. ArrivalInv
  BY <1>1 DEF ArrivalInv, Open
<1>4. QED
  BY <1>2, <1>3 DEF TimelineInv

(* The timeline displays exactly what arrived, is let through and is not held, *)
(* and every event that was emitted arrives, once and in its order, for any    *)
(* number of events, queries and keys.                                         *)
THEOREM TimelinesExact == Spec => []TimelineIsExact
<1>1. Init => WorkbenchInv /\ TimelineInv
  BY WorkbenchStarts, TimelineStarts
<1>2. (WorkbenchInv /\ TimelineInv) /\ [Next]_vars => (WorkbenchInv /\ TimelineInv)'
  BY TimelineKeeps
<1>3. WorkbenchInv /\ TimelineInv => TimelineIsExact
  <2> SUFFICES ASSUME TimelineInv PROVE TimelineIsExact
    OBVIOUS
  <2>1. NoChange(inbox) => shown = Rendered(category, query, held)
    BY DEF TimelineInv, ViewInv
  <2>2. Open => \A i \in DOMAIN flows : AllOf(i, Arrived, flows)
    BY DEF TimelineInv, ArrivalInv, Complete
  <2>3. QED
    BY <2>1, <2>2 DEF TimelineIsExact, TimelineInv, ViewInv, NoChange, AllOf
<1>4. QED
  BY <1>1, <1>2, <1>3, PTL DEF Spec

=============================================================================
