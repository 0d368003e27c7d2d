-------------------------- MODULE RunEvents_proofs --------------------------
(***************************************************************************)
(* Theorems about RunEvents, for every size of queue, page, connection and *)
(* memory and any number of events, breaks and attempts.                   *)
(*                                                                         *)
(* The inductive invariant IInv has layers for what is due, what the       *)
(* timeline applied, what is in the queue and on the page, what a          *)
(* subscription still owes, and what is on the wire. Its core is that of   *)
(* every event not silent it is known where it is (Owed, Complete), and    *)
(* that a late notification of a replayed event comes while the timeline   *)
(* still remembers it (Ahead, Wired).                              *)
(***************************************************************************)
EXTENDS RunEvents, SequenceTheorems, TLAPS

\* Numbers that grow by at least one from element to element.
Gaps(s) == \A i, j \in DOMAIN s : i <= j => s[j] - s[i] >= j - i

\* Durable events are greater than all before them, in s or in s and t.
Rising(s) == \A i, j \in DOMAIN s : i < j /\ Durable(s[j]) => s[i] < s[j]
Precedes(s, t) == \A i \in DOMAIN s, j \in DOMAIN t : Durable(t[j]) => s[i] < t[j]

In(n, s) == \E i \in DOMAIN s : s[i] = n

\* Only a connected client has a subscription, and a fresh one has nothing in it.
Attached ==
    /\ stream = "none" <=> link # "connected"
    /\ stream = "none" => ~closed /\ queue = <<>>
    /\ stream \in {"none", "opening"} => page = <<>> /\ wire = <<>>
    /\ closed => queue = <<>>

\* Every event anywhere has been committed.
Committed ==
    /\ \A i \in DOMAIN queue : queue[i] <= last
    /\ \A i \in DOMAIN page : page[i] <= last
    /\ \A i \in DOMAIN wire : wire[i] <= last

\* What is due is recent, and announced.
Notices ==
    /\ Gaps(due)
    /\ due # <<>> => last - due[1] < MaxInFlight
    /\ \A i \in DOMAIN due : due[i] \notin silent

\* The timeline has a position in every event it applied, and passed over none.
Timeline ==
    /\ Gaps(applied)
    /\ MissesOnlySilent

\* The queue is in the order of notifications.
Queued ==
    /\ Rising(queue) /\ Precedes(queue, due)
    /\ \A i \in DOMAIN queue : queue[i] \notin silent

\* The page is the replay's next events, or what was drained.
Paged ==
    /\ ~closed /\ stream = "replay" =>
         /\ \A i \in DOMAIN page : page[i] = cursor + i
         /\ cursor + Len(page) <= mark
    /\ ~closed /\ stream = "buffered" =>
         /\ Rising(page) /\ Precedes(page, queue) /\ Precedes(page, due)
         /\ \A i \in DOMAIN page : page[i] > mark => page[i] > cursor

\* The client has, or will read, the event.
Got(n) == n \in silent \/ In(n, applied) \/ In(n, wire)

\* Up to where a subscription has sent its events, and where the others are.
Owed ==
    /\ ~closed /\ stream \in {"opening", "replay", "buffered"} =>
         /\ Position <= cursor
         /\ \A i \in DOMAIN wire : wire[i] <= cursor
         /\ \A n \in 1 .. cursor : Got(n)
    /\ ~closed /\ stream = "replay" =>
         /\ cursor <= mark
         /\ \A n \in mark + 1 .. last : n \in silent \/ In(n, queue) \/ In(n, due)
    /\ ~closed /\ stream = "buffered" =>
         /\ mark <= cursor
         /\ \A n \in mark + 1 .. last : Got(n) \/ In(n, page) \/ In(n, queue) \/ In(n, due)
    /\ ~closed /\ stream = "live" =>
         /\ \A n \in 1 .. mark : Got(n)
         /\ \A n \in mark + 1 .. last : Got(n) \/ In(n, queue) \/ In(n, due)

\* An event that comes behind one it precedes was replayed, and not long ago.
Ahead ==
    ~closed /\ stream \in {"buffered", "live"} =>
        /\ Position > mark => \A i \in DOMAIN queue : Durable(queue[i]) => Position < queue[i]
        /\ Position > mark => \A i \in DOMAIN due : Position < due[i]
        /\ \A k \in DOMAIN wire : wire[k] > mark =>
              /\ \A i \in DOMAIN queue : Durable(queue[i]) => wire[k] < queue[i]
              /\ \A i \in DOMAIN due : wire[k] < due[i]
        /\ \A i \in DOMAIN queue : Durable(queue[i]) => mark - queue[i] < MaxInFlight

\* What is on the wire comes in order and without a gap; or it was replayed
\* before, and the timeline will remember it.
Complete(i) ==
    \A n \in 1 .. wire[i] - 1 :
        n \in silent \/ In(n, applied) \/ \E j \in DOMAIN wire : j < i /\ wire[j] = n

Fresh(i) == Position < wire[i] /\ \A j \in DOMAIN wire : j < i => wire[j] < wire[i]

Repeat(i) ==
    /\ mark - wire[i] < MaxInFlight
    /\ Position <= mark
    /\ \A j \in DOMAIN wire : j < i => wire[j] <= mark
    /\ In(wire[i], applied) \/ \E j \in DOMAIN wire : j < i /\ wire[j] = wire[i]

Wired == \A i \in DOMAIN wire : Durable(wire[i]) => Complete(i) /\ (Fresh(i) \/ Repeat(i))

IInv ==
    /\ TypeOK /\ OrderVerified
    /\ Attached /\ Committed /\ Notices /\ Timeline /\ Queued /\ Paged /\ Owed /\ Ahead /\ Wired
-----------------------------------------------------------------------------
(***************************************************************************)
(* Sequences of numbers.                                                   *)
(***************************************************************************)
\* What Append does.
LEMMA Appended ==
  ASSUME NEW S, NEW s \in Seq(S), NEW e \in S
  PROVE  /\ Append(s, e) \in Seq(S)
         /\ Append(s, e) # <<>>
         /\ Len(Append(s, e)) = Len(s) + 1
         /\ DOMAIN Append(s, e) = 1 .. Len(s) + 1
         /\ \A i \in DOMAIN s : Append(s, e)[i] = s[i]
         /\ Append(s, e)[Len(s) + 1] = e
         /\ \A n : In(n, Append(s, e)) <=> In(n, s) \/ n = e
<1>1. DOMAIN s = 1 .. Len(s) /\ Len(s) \in Nat OBVIOUS
<1>2. Append(s, e) \in Seq(S) /\ Len(Append(s, e)) = Len(s) + 1
  BY AppendProperties
<1>3. /\ DOMAIN Append(s, e) = 1 .. Len(s) + 1
      /\ Append(s, e)[Len(s) + 1] = e
      /\ \A i \in DOMAIN s : Append(s, e)[i] = s[i]
  BY <1>1, AppendProperties
<1>4. Append(s, e) # <<>> BY AppendProperties
<1>5. ASSUME NEW n PROVE In(n, Append(s, e)) <=> In(n, s) \/ n = e
  BY <1>1, <1>3 DEF In
<1>6. QED BY <1>2, <1>3, <1>4, <1>5

\* What Head and Tail do.
LEMMA Tailed ==
  ASSUME NEW S, NEW s \in Seq(S), s # <<>>
  PROVE  /\ Head(s) \in S /\ Head(s) = s[1] /\ 1 \in DOMAIN s
         /\ Tail(s) \in Seq(S)
         /\ Len(s) \in Nat \ {0} /\ DOMAIN s = 1 .. Len(s)
         /\ Len(Tail(s)) = Len(s) - 1
         /\ DOMAIN Tail(s) = 1 .. Len(s) - 1
         /\ \A i \in 1 .. Len(s) - 1 : i + 1 \in DOMAIN s /\ Tail(s)[i] = s[i + 1]
         /\ \A n : In(n, s) <=> n = Head(s) \/ In(n, Tail(s))
<1>1. DOMAIN s = 1 .. Len(s) /\ Len(s) \in Nat \ {0} BY EmptySeq
<1>2. Head(s) \in S /\ Tail(s) \in Seq(S) /\ Len(Tail(s)) = Len(s) - 1
  BY HeadTailProperties
<1>3. Head(s) = s[1] /\ \A i \in 1 .. Len(s) - 1 : Tail(s)[i] = s[i + 1]
  BY HeadTailProperties, <1>1
<1>4. DOMAIN Tail(s) = 1 .. Len(s) - 1 BY <1>1, <1>2
<1>5. \A i \in 1 .. Len(s) - 1 : i + 1 \in DOMAIN s BY <1>1
<1>6. ASSUME NEW n PROVE In(n, s) <=> n = Head(s) \/ In(n, Tail(s))
  <2>1. ASSUME In(n, s), n # Head(s) PROVE In(n, Tail(s))
    <3>1. PICK i \in DOMAIN s : s[i] = n BY <2>1 DEF In
    <3>2. i - 1 \in 1 .. Len(s) - 1 /\ (i - 1) + 1 = i BY <1>1, <1>3, <2>1, <3>1
    <3>3. Tail(s)[i - 1] = n BY <1>3, <3>1, <3>2
    <3>4. QED BY <1>4, <3>2, <3>3 DEF In
  <2>2. n = Head(s) => In(n, s) BY <1>1, <1>3 DEF In
  <2>3. In(n, Tail(s)) => In(n, s) BY <1>3, <1>4, <1>5 DEF In
  <2>4. QED BY <2>1, <2>2, <2>3
<1>7. QED BY <1>1, <1>2, <1>3, <1>4, <1>5, <1>6

\* A larger number at the end, or the first one gone, leaves the gaps.
LEMMA GapsKept ==
  ASSUME NEW s \in Seq(Int), Gaps(s)
  PROVE  /\ \A e \in Int : (s # <<>> => s[Len(s)] < e) => Gaps(Append(s, e))
         /\ s # <<>> => Gaps(Tail(s)) /\ \A i \in DOMAIN Tail(s) : s[1] < Tail(s)[i]
<1>1. DOMAIN s = 1 .. Len(s) /\ Len(s) \in Nat /\ \A i \in 1 .. Len(s) : s[i] \in Int OBVIOUS
<1>2. ASSUME NEW e \in Int, s # <<>> => s[Len(s)] < e PROVE Gaps(Append(s, e))
  <2> DEFINE t == Append(s, e)
  <2>1. DOMAIN t = 1 .. Len(s) + 1 /\ t[Len(s) + 1] = e /\ \A i \in 1 .. Len(s) : t[i] = s[i]
    BY <1>1, Appended
  <2>2. ASSUME NEW i \in 1 .. Len(s) PROVE e - s[i] >= Len(s) + 1 - i
    <3>1. s # <<>> /\ Len(s) \in 1 .. Len(s) BY <1>1, EmptySeq
    <3>2. s[Len(s)] - s[i] >= Len(s) - i
      <4>1. i \in DOMAIN s /\ Len(s) \in DOMAIN s /\ i <= Len(s) BY <1>1, <3>1
      <4>2. QED BY <4>1 DEF Gaps
    <3>3. s[Len(s)] < e BY <1>2, <3>1
    <3>4. QED BY <1>1, <3>1, <3>2, <3>3
  <2> HIDE DEF t
  <2>3. ASSUME NEW i \in DOMAIN t, NEW j \in DOMAIN t, i <= j PROVE t[j] - t[i] >= j - i
    <3>1. CASE j = Len(s) + 1 /\ i = Len(s) + 1 BY <2>1, <3>1, <1>1
    <3>2. CASE j = Len(s) + 1 /\ i # Len(s) + 1 BY <2>1, <2>2, <3>2, <1>1
    <3>3. CASE j # Len(s) + 1 BY <2>1, <2>3, <3>3, <1>1 DEF Gaps
    <3>4. QED BY <3>1, <3>2, <3>3
  <2>4. QED BY <2>3 DEF Gaps, t
<1>3. ASSUME s # <<>> PROVE Gaps(Tail(s)) /\ \A i \in DOMAIN Tail(s) : s[1] < Tail(s)[i]
  <2>1. /\ DOMAIN Tail(s) = 1 .. Len(s) - 1 /\ 1 \in DOMAIN s
        /\ \A i \in 1 .. Len(s) - 1 : i + 1 \in DOMAIN s /\ Tail(s)[i] = s[i + 1]
    BY <1>3, Tailed
  <2> DEFINE t == Tail(s)
  <2>2. DOMAIN t = 1 .. Len(s) - 1 /\ \A i \in 1 .. Len(s) - 1 : t[i] = s[i + 1]
    BY <2>1
  <2> HIDE DEF t
  <2>3. ASSUME NEW i \in DOMAIN t, NEW j \in DOMAIN t, i <= j PROVE t[j] - t[i] >= j - i
    <3>1. i + 1 \in DOMAIN s /\ j + 1 \in DOMAIN s /\ i + 1 <= j + 1 BY <1>1, <2>1, <2>2, <2>3
    <3>2. s[j + 1] - s[i + 1] >= (j + 1) - (i + 1) BY <3>1 DEF Gaps
    <3>3. QED BY <1>1, <2>2, <3>1, <3>2
  <2>4. ASSUME NEW i \in DOMAIN t PROVE s[1] < t[i]
    <3>1. i + 1 \in DOMAIN s /\ 1 <= i + 1 BY <1>1, <2>1, <2>2
    <3>2. s[i + 1] - s[1] >= (i + 1) - 1 BY <2>1, <3>1 DEF Gaps
    <3>3. s[i + 1] \in Int /\ s[1] \in Int /\ i \in Nat /\ i >= 1 BY <1>1, <2>1, <2>2, <3>1
    <3>4. QED BY <2>2, <3>2, <3>3
  <2>5. QED BY <2>3, <2>4 DEF Gaps, t
<1>4. QED BY <1>2, <1>3

\* The same for an order among the durable events only.
LEMMA RisingKept ==
  ASSUME NEW s \in Seq(Int), Rising(s)
  PROVE  /\ \A e \in Int : (Durable(e) => \A i \in DOMAIN s : s[i] < e) => Rising(Append(s, e))
         /\ s # <<>> => /\ Rising(Tail(s))
                        /\ \A i \in DOMAIN Tail(s) : Durable(Tail(s)[i]) => s[1] < Tail(s)[i]
<1>1. DOMAIN s = 1 .. Len(s) /\ Len(s) \in Nat /\ \A i \in 1 .. Len(s) : s[i] \in Int OBVIOUS
<1>2. ASSUME NEW e \in Int, Durable(e) => \A i \in DOMAIN s : s[i] < e PROVE Rising(Append(s, e))
  <2>1. /\ DOMAIN Append(s, e) = 1 .. Len(s) + 1 /\ Append(s, e)[Len(s) + 1] = e
        /\ \A i \in 1 .. Len(s) : Append(s, e)[i] = s[i]
    BY <1>1, Appended
  <2>2. QED BY <1>1, <1>2, <2>1 DEF Rising
<1>3. ASSUME s # <<>>
      PROVE  /\ Rising(Tail(s))
             /\ \A i \in DOMAIN Tail(s) : Durable(Tail(s)[i]) => s[1] < Tail(s)[i]
  <2>1. /\ DOMAIN Tail(s) = 1 .. Len(s) - 1 /\ 1 \in DOMAIN s
        /\ \A i \in 1 .. Len(s) - 1 : i + 1 \in DOMAIN s /\ Tail(s)[i] = s[i + 1]
    BY <1>3, Tailed
  <2> DEFINE t == Tail(s)
  <2>2. DOMAIN t = 1 .. Len(s) - 1 /\ \A i \in 1 .. Len(s) - 1 : t[i] = s[i + 1]
    BY <2>1
  <2> HIDE DEF t
  <2>3. ASSUME NEW i \in DOMAIN t, NEW j \in DOMAIN t, i < j, Durable(t[j]) PROVE t[i] < t[j]
    <3>1. i + 1 \in DOMAIN s /\ j + 1 \in DOMAIN s /\ i + 1 < j + 1 BY <1>1, <2>1, <2>2, <2>3
    <3>2. Durable(s[j + 1]) BY <2>2, <2>3
    <3>3. s[i + 1] < s[j + 1] BY <3>1, <3>2 DEF Rising
    <3>4. t[i] = s[i + 1] /\ t[j] = s[j + 1] BY <2>2
    <3>5. QED BY <3>3, <3>4
  <2>4. ASSUME NEW i \in DOMAIN t, Durable(t[i]) PROVE s[1] < t[i]
    <3>1. i + 1 \in DOMAIN s /\ 1 < i + 1 /\ 1 \in DOMAIN s BY <1>1, <2>1, <2>2
    <3>2. Durable(s[i + 1]) BY <2>2, <2>4
    <3>3. s[1] < s[i + 1] BY <3>1, <3>2 DEF Rising
    <3>4. QED BY <2>2, <3>3
  <2>5. QED BY <2>3, <2>4 DEF Rising, t
<1>4. QED BY <1>2, <1>3

\* Whatever precedes a sequence precedes its tail, and a number may be put at
\* the end of either.
LEMMA PrecedesKept ==
  ASSUME NEW s \in Seq(Int), NEW t \in Seq(Int), Precedes(s, t)
  PROVE  /\ s # <<>> => Precedes(Tail(s), t)
         /\ t # <<>> => Precedes(s, Tail(t))
         /\ \A e \in Int : (\A i \in DOMAIN t : Durable(t[i]) => e < t[i])
                             => Precedes(Append(s, e), t)
         /\ \A e \in Int : (Durable(e) => \A i \in DOMAIN s : s[i] < e)
                             => Precedes(s, Append(t, e))
<1>1. DOMAIN s = 1 .. Len(s) /\ Len(s) \in Nat /\ \A i \in 1 .. Len(s) : s[i] \in Int OBVIOUS
<1>2. DOMAIN t = 1 .. Len(t) /\ Len(t) \in Nat /\ \A i \in 1 .. Len(t) : t[i] \in Int OBVIOUS
<1>3. ASSUME s # <<>> PROVE Precedes(Tail(s), t)
  BY <1>3, Tailed DEF Precedes
<1>4. ASSUME t # <<>> PROVE Precedes(s, Tail(t))
  BY <1>4, Tailed DEF Precedes
<1>5. ASSUME NEW e \in Int, \A i \in DOMAIN t : Durable(t[i]) => e < t[i]
      PROVE  Precedes(Append(s, e), t)
  <2>1. /\ DOMAIN Append(s, e) = 1 .. Len(s) + 1 /\ Append(s, e)[Len(s) + 1] = e
        /\ \A i \in 1 .. Len(s) : Append(s, e)[i] = s[i]
    BY <1>1, Appended
  <2>2. QED BY <2>1, <1>1, <1>5 DEF Precedes
<1>6. ASSUME NEW e \in Int, Durable(e) => \A i \in DOMAIN s : s[i] < e
      PROVE  Precedes(s, Append(t, e))
  <2>1. /\ DOMAIN Append(t, e) = 1 .. Len(t) + 1 /\ Append(t, e)[Len(t) + 1] = e
        /\ \A i \in 1 .. Len(t) : Append(t, e)[i] = t[i]
    BY <1>2, Appended
  <2>2. QED BY <2>1, <1>2, <1>6 DEF Precedes
<1>7. QED BY <1>3, <1>4, <1>5, <1>6
-----------------------------------------------------------------------------
(***************************************************************************)
(* What the invariant says, in the form in which it is used.               *)
(***************************************************************************)
\* The bounds are numbers.
LEMMA Constants ==
  /\ PageSize \in Nat \ {0} /\ MaxPending \in Nat \ {0} /\ MaxSeen \in Nat \ {0}
  /\ MaxAttempts \in Nat \ {0} /\ WireSize \in Nat \ {0}
  /\ MaxEvents \in Nat /\ MaxTransients \in Nat /\ MaxBreaks \in Nat
  /\ MaxInFlight \in Nat /\ 0 < MaxInFlight /\ MaxInFlight <= MaxSeen
  BY SizesAssumption, BoundsAssumption, SeenAssumption

\* Every sequence is one of integers, those of due and applied are committed events.
LEMMA Shapes ==
  ASSUME TypeOK
  PROVE  /\ last \in Nat /\ last <= MaxEvents /\ MaxEvents \in Nat
         /\ mark \in Nat /\ mark <= last /\ cursor \in Nat /\ cursor <= last
         /\ due \in Seq(1 .. last) /\ due \in Seq(Int)
         /\ \A i \in DOMAIN due : due[i] \in Int /\ 0 < due[i] /\ due[i] <= last
         /\ applied \in Seq(1 .. last) /\ applied \in Seq(Int)
         /\ \A i \in DOMAIN applied : applied[i] \in Int /\ 0 < applied[i] /\ applied[i] <= last
         /\ queue \in Seq(Events) /\ queue \in Seq(Int) /\ \A i \in DOMAIN queue : queue[i] \in Int
         /\ page \in Seq(Events) /\ page \in Seq(Int) /\ \A i \in DOMAIN page : page[i] \in Int
         /\ wire \in Seq(Events) /\ wire \in Seq(Int) /\ \A i \in DOMAIN wire : wire[i] \in Int
         /\ \A i \in DOMAIN wire : wire[i] \in Events
<1>1. last \in Nat /\ last <= MaxEvents /\ MaxEvents \in Nat BY Constants DEF TypeOK
<1>2. mark \in Nat /\ mark <= last /\ cursor \in Nat /\ cursor <= last BY <1>1 DEF TypeOK
<1>3. due \in Seq(1 .. last) /\ applied \in Seq(1 .. last) BY DEF TypeOK
<1>4. queue \in Seq(Events) /\ page \in Seq(Events) /\ wire \in Seq(Events) BY DEF TypeOK
<1>5. 1 .. last \subseteq Int /\ Events \subseteq Int BY <1>1 DEF Events
<1>6. /\ due \in Seq(Int) /\ applied \in Seq(Int)
      /\ queue \in Seq(Int) /\ page \in Seq(Int) /\ wire \in Seq(Int)
  BY <1>3, <1>4, <1>5, SeqMonotonic
<1>7. ASSUME NEW i \in DOMAIN due PROVE due[i] \in 1 .. last
  <2>1. i \in 1 .. Len(due) BY <1>3
  <2>2. QED BY <1>3, <2>1, ElementOfSeq
<1>8. ASSUME NEW i \in DOMAIN applied PROVE applied[i] \in 1 .. last
  <2>1. i \in 1 .. Len(applied) BY <1>3
  <2>2. QED BY <1>3, <2>1, ElementOfSeq
<1>9. /\ \A i \in DOMAIN queue : queue[i] \in Int
      /\ \A i \in DOMAIN page : page[i] \in Int
      /\ \A i \in DOMAIN wire : wire[i] \in Int
  BY <1>6, ElementOfSeq
<1>10. \A i \in DOMAIN wire : wire[i] \in Events BY <1>4, ElementOfSeq
<1>11. QED BY <1>1, <1>2, <1>3, <1>4, <1>6, <1>7, <1>8, <1>9, <1>10

\* The position is that of the last event applied, and the largest.
LEMMA Positions ==
  ASSUME TypeOK, Gaps(applied)
  PROVE  /\ Position \in Nat /\ Position <= last
         /\ applied = <<>> => Position = 0
         /\ applied # <<>> => Position = applied[Len(applied)] /\ Len(applied) \in DOMAIN applied
         /\ \A i \in DOMAIN applied : applied[i] <= Position
<1>1. applied \in Seq(Int) /\ last \in Nat
      /\ \A i \in DOMAIN applied : applied[i] \in Int /\ 0 < applied[i] /\ applied[i] <= last
  BY Shapes
<1>2. DOMAIN applied = 1 .. Len(applied) /\ Len(applied) \in Nat BY <1>1
<1>3. CASE applied = <<>>
  <2>1. Position = 0 BY <1>3 DEF Position, Newest
  <2>2. DOMAIN applied = {} BY <1>3, <1>2
  <2>3. QED BY <2>1, <2>2, <1>1, <1>3
<1>4. CASE applied # <<>>
  <2>1. Position = applied[Len(applied)] BY <1>4 DEF Position, Newest
  <2>2. Len(applied) \in DOMAIN applied BY <1>1, <1>2, <1>4, EmptySeq
  <2>3. ASSUME NEW i \in DOMAIN applied PROVE applied[i] <= Position
    <3>1. i <= Len(applied) /\ i \in Nat BY <1>2
    <3>2. applied[Len(applied)] - applied[i] >= Len(applied) - i BY <2>2, <3>1 DEF Gaps
    <3>3. QED BY <1>1, <1>2, <2>1, <2>2, <3>1, <3>2
  <2>4. Position \in Nat /\ Position <= last BY <1>1, <2>1, <2>2
  <2>5. QED BY <1>4, <2>1, <2>2, <2>3, <2>4
<1>5. QED BY <1>3, <1>4

\* Contains of the community modules is In.
LEMMA ContainsIsIn ==
  ASSUME NEW S, NEW s \in Seq(S), NEW n
  PROVE  Contains(s, n) <=> In(n, s)
  BY DEF Contains, In

\* An empty sequence has no elements, in any of the senses above.
LEMMA Empty ==
  /\ DOMAIN <<>> = {} /\ Rising(<<>>) /\ Gaps(<<>>) /\ \A n : ~In(n, <<>>)
  /\ \A s : Precedes(<<>>, s) /\ Precedes(s, <<>>)
  /\ \A S : <<>> \in Seq(S) /\ Len(<<>>) = 0
<1>1. DOMAIN <<>> = {} OBVIOUS
<1>2. QED BY <1>1 DEF Rising, Gaps, In, Precedes
-----------------------------------------------------------------------------
(***************************************************************************)
(* Each step keeps the invariant.                                          *)
(***************************************************************************)
\* At first nothing is committed and nothing subscribed.
LEMMA InitInv == Init => IInv
<1> SUFFICES ASSUME Init PROVE IInv
  OBVIOUS
<1>1. Position = 0 BY DEF Init, Position, Newest
<1>2. TypeOK
  <2>1. 0 \in 0 .. MaxEvents /\ 0 \in 0 .. MaxTransients /\ 0 \in 0 .. MaxBreaks
        /\ 0 \in 0 .. MaxAttempts /\ 0 <= MaxInFlight /\ 0 <= MaxPending /\ 0 <= WireSize
    BY Constants
  <2>2. <<>> \in Seq(1 .. last) /\ <<>> \in Seq(Events) /\ Len(<<>>) = 0 BY Empty
  <2>3. /\ last = 0 /\ silent = {} /\ due = <<>> /\ transients = 0 /\ breaks = 0
        /\ stream = "none" /\ closed = FALSE /\ queue = <<>> /\ mark = 0 /\ cursor = 0
        /\ page = <<>> /\ wire = <<>> /\ link = "attaching" /\ attempt = 0 /\ applied = <<>>
    BY DEF Init
  <2>4. mark \in 0 .. last /\ cursor \in 0 .. last BY <2>3
  <2>5. QED BY <2>1, <2>2, <2>3, <2>4 DEF TypeOK
<1>3. OrderVerified /\ Attached BY DEF Init, OrderVerified, Attached
<1>4. Committed /\ Notices /\ Queued /\ Wired
  BY Empty DEF Init, Committed, Notices, Queued, Wired
<1>5. Timeline
  <2>1. MissesOnlySilent BY <1>1 DEF MissesOnlySilent
  <2>2. QED BY <2>1, Empty DEF Init, Timeline
<1>6. Paged /\ Owed /\ Ahead BY DEF Init, Paged, Owed, Ahead
<1>7. QED BY <1>2, <1>3, <1>4, <1>5, <1>6 DEF IInv

\* A client that has no subscription and gets none.
LEMMA LinkKeeps ==
  ASSUME IInv, Reattach \/ OpenFails \/ manualRetry
  PROVE  IInv'
<1>1. UNCHANGED <<last, silent, due, transients, stream, closed, queue, mark, cursor, page, wire, applied>>
  BY DEF Reattach, OpenFails, manualRetry, writers, hub
<1>2. Position' = Position BY <1>1 DEF Position, Newest
<1>3. TypeOK'
  <2>1. link' \in {"attaching", "waiting", "exhausted"}
    BY DEF Reattach, OpenFails, manualRetry, Retry
  <2>2. attempt' \in 0 .. MaxAttempts
    BY Constants DEF IInv, TypeOK, Reattach, OpenFails, manualRetry, Retry
  <2>3. breaks' \in 0 .. MaxBreaks
    BY Constants DEF IInv, TypeOK, Reattach, OpenFails, manualRetry
  <2>4. QED BY <1>1, <2>1, <2>2, <2>3 DEF IInv, TypeOK, Events
<1>4. link # "connected" /\ link' # "connected" /\ link' # "failed"
  BY DEF Reattach, OpenFails, manualRetry, Retry
<1>5. OrderVerified' /\ Attached' BY <1>1, <1>4 DEF IInv, OrderVerified, Attached
<1>6. Committed' /\ Notices' BY <1>1 DEF IInv, Committed, Notices, Gaps
<1>7. Timeline' BY <1>1, <1>2 DEF IInv, Timeline, MissesOnlySilent, Gaps
<1>8. Queued' BY <1>1 DEF IInv, Queued, Rising, Precedes, Durable
<1>9. stream' = "none" BY <1>1, <1>4 DEF IInv, Attached
<1>10. Paged' /\ Owed' /\ Ahead' BY <1>9 DEF Paged, Owed, Ahead
<1>11. Wired'
  <2>1. wire' = <<>> BY <1>1, <1>9 DEF IInv, Attached
  <2>2. QED BY <2>1, Empty DEF Wired
<1>12. QED BY <1>3, <1>5, <1>6, <1>7, <1>8, <1>10, <1>11 DEF IInv

\* In what is read of the timeline and the wire, only they and the silent count.
LEMMA Frames ==
  /\ UNCHANGED applied => Position' = Position
  /\ \A n : Got(n)' <=> n \in silent' \/ In(n, applied') \/ In(n, wire')
  /\ UNCHANGED <<silent, applied, wire>> => \A n : Got(n)' <=> Got(n)
  BY DEF Position, Newest, Got, In

\* What is on the wire depends on nothing of the queue.
LEMMA WiredKept ==
  ASSUME Wired, UNCHANGED <<applied, wire, mark>>, silent \subseteq silent'
  PROVE  Wired'
<1>1. Position' = Position BY Frames
<1>2. QED BY <1>1 DEF Wired, Complete, Fresh, Repeat, In, Durable

\* The subscription goes, whatever took it.
LEMMA UnsubscribedKeeps ==
  ASSUME IInv, Unsubscribed, UNCHANGED <<last, silent, transients, applied>>,
         due' \in {due, <<>>}, link' \in {"attaching", "waiting", "exhausted"},
         attempt' \in 0 .. MaxAttempts, breaks' \in 0 .. MaxBreaks
  PROVE  IInv'
<1>1. /\ stream' = "none" /\ closed' = FALSE /\ queue' = <<>> /\ page' = <<>> /\ wire' = <<>>
      /\ mark' = 0 /\ cursor' = 0
  BY DEF Unsubscribed
<1>2. Position' = Position BY Frames
<1>3. TypeOK'
  <2>1. <<>> \in Seq(1 .. last) /\ <<>> \in Seq(Events) /\ Len(<<>>) = 0 BY Empty
  <2>2. 0 <= MaxInFlight /\ 0 <= MaxPending /\ 0 <= WireSize BY Constants
  <2>3. due' \in Seq(1 .. last) /\ Len(due') <= MaxInFlight
    BY <2>1, <2>2 DEF IInv, TypeOK
  <2>4. mark' \in 0 .. last' /\ cursor' \in 0 .. last' BY <1>1 DEF IInv, TypeOK
  <2>5. Events' = Events BY DEF Events
  <2>6. QED BY <1>1, <2>1, <2>2, <2>3, <2>4, <2>5 DEF IInv, TypeOK
<1>4. OrderVerified' /\ Attached' BY <1>1 DEF OrderVerified, Attached
<1>5. Committed' /\ Queued' /\ Wired' BY <1>1, Empty DEF Committed, Queued, Wired
<1>6. Notices'
  <2>1. CASE due' = due BY <2>1 DEF IInv, Notices, Gaps
  <2>2. CASE due' = <<>> BY <2>2, Empty DEF Notices
  <2>3. QED BY <2>1, <2>2
<1>7. Timeline' BY <1>2 DEF IInv, Timeline, MissesOnlySilent, Gaps
<1>8. Paged' /\ Owed' /\ Ahead' BY <1>1 DEF Paged, Owed, Ahead
<1>9. QED BY <1>3, <1>4, <1>5, <1>6, <1>7, <1>8 DEF IInv

\* The end of a response, a lost connection, a crash.
LEMMA BreaksKeep ==
  ASSUME IInv, StreamEnds \/ Disconnect \/ Crash
  PROVE  IInv'
<1>1. UNCHANGED <<last, silent, transients, applied>> /\ Unsubscribed /\ due' \in {due, <<>>}
  BY DEF StreamEnds, Disconnect, Crash, writers
<1>2. breaks' \in 0 .. MaxBreaks
  BY Constants DEF IInv, TypeOK, StreamEnds, Disconnect, Crash
<1>3. link' \in {"attaching", "waiting", "exhausted"} /\ attempt' \in 0 .. MaxAttempts
  <2>1. CASE Retry(attempt) BY <2>1, Constants DEF Retry, IInv, TypeOK
  <2>2. CASE link # "connected" /\ UNCHANGED <<link, attempt>>
    BY <2>2 DEF IInv, TypeOK, OrderVerified
  <2>3. QED BY <2>1, <2>2 DEF StreamEnds, Disconnect, Crash
<1>4. QED BY <1>1, <1>2, <1>3, UnsubscribedKeeps

\* The subscription starts from the position of the timeline.
LEMMA OpenKeeps ==
  ASSUME IInv, Open
  PROVE  IInv'
<1>1. /\ UNCHANGED <<last, silent, due, transients, closed, queue, mark, page, wire, applied, breaks>>
      /\ link = "attaching" /\ link' = "connected" /\ attempt' = 0
      /\ stream' = "opening" /\ cursor' = Position
  BY DEF Open, writers
<1>2. ~closed /\ queue = <<>> /\ page = <<>> /\ wire = <<>>
  BY <1>1 DEF IInv, Attached
<1>3. Position' = Position /\ Position \in 0 .. last /\ applied \in Seq(1 .. last)
  BY <1>1, Frames, Positions DEF IInv, Timeline, TypeOK
<1>4. TypeOK'
  <2>1. 0 \in 0 .. MaxAttempts BY Constants
  <2>2. Events' = Events BY DEF Events
  <2>3. QED BY <1>1, <1>3, <2>1, <2>2 DEF IInv, TypeOK
<1>5. OrderVerified' /\ Attached' BY <1>1, <1>2 DEF OrderVerified, Attached
<1>6. Committed' /\ Wired' BY <1>1, <1>2, Empty DEF Committed, Wired
<1>7. Notices' BY <1>1 DEF IInv, Notices, Gaps
<1>8. Timeline' BY <1>1, <1>3 DEF IInv, Timeline, MissesOnlySilent, Gaps
<1>9. Queued' BY <1>1, <1>2, Empty DEF Queued
<1>10. Owed'
  <2>1. \A n \in 1 .. Position : Got(n)
    BY <1>3, ContainsIsIn DEF IInv, Timeline, MissesOnlySilent, Got
  <2>2. \A n \in 1 .. cursor' : Got(n)' BY <1>1, <2>1, Frames
  <2>3. Position' <= cursor' BY <1>1, <1>3
  <2>4. \A i \in DOMAIN wire' : wire'[i] <= cursor' BY <1>1, <1>2, Empty
  <2>5. QED BY <1>1, <2>2, <2>3, <2>4 DEF Owed
<1>11. Paged' /\ Ahead' BY <1>1 DEF Paged, Ahead
<1>12. QED BY <1>4, <1>5, <1>6, <1>7, <1>8, <1>9, <1>10, <1>11 DEF IInv

\* A transaction numbers one more event, to be notified or not.
LEMMA CommitKeeps ==
  ASSUME IInv, Commit
  PROVE  IInv'
<1> SUFFICES ASSUME NEW e, e = last + 1 PROVE IInv'
  OBVIOUS
<1>1. /\ UNCHANGED <<transients, stream, closed, queue, mark, cursor, page, wire, link, attempt,
                     applied, breaks>>
      /\ last < MaxEvents /\ last' = e
      /\ due # <<>> => e - due[1] < MaxInFlight
      /\ \/ due' = Append(due, e) /\ silent' = silent
         \/ silent' = silent \cup {e} /\ due' = due
  <2>1. ASSUME due # <<>> PROVE Head(due) = due[1] BY <2>1, Shapes, Tailed DEF IInv
  <2>2. ASSUME due # <<>> PROVE e - due[1] < MaxInFlight
    <3>1. last + 1 - Head(due) < MaxInFlight BY <2>2 DEF Commit
    <3>2. Head(due) = due[1] BY <2>1, <2>2
    <3>3. last \in Nat /\ due[1] \in Int BY <2>2, Shapes, Tailed DEF IInv
    <3>4. QED BY <3>1, <3>2, <3>3, Constants
  <2>3. due # <<>> => e - due[1] < MaxInFlight BY <2>2
  <2>4. UNCHANGED <<transients, hub, wire, client, breaks>> /\ last < MaxEvents /\ last' = e
    BY DEF Commit
  <2>5. \/ due' = Append(due, e) /\ silent' = silent
        \/ silent' = silent \cup {e} /\ due' = due
    BY DEF Commit
  <2>6. QED BY <2>3, <2>4, <2>5 DEF hub, client
<1>2. /\ last \in Nat /\ due \in Seq(1 .. last) /\ due \in Seq(Int) /\ silent \subseteq 1 .. last
      /\ Len(due) <= MaxInFlight /\ MaxInFlight \in Nat /\ 0 < MaxInFlight
      /\ DOMAIN due = 1 .. Len(due) /\ Len(due) \in Nat
      /\ \A i \in DOMAIN due : due[i] \in Int /\ 0 < due[i] /\ due[i] <= last
  BY Shapes, Constants DEF IInv, TypeOK
<1>3. /\ due' \in Seq(1 .. e) /\ Len(due') <= MaxInFlight /\ Gaps(due')
      /\ due' # <<>> => e - due'[1] < MaxInFlight
      /\ \A i \in DOMAIN due' : due'[i] \notin silent'
      /\ \A i \in DOMAIN due' : due'[i] = e \/ (i \in DOMAIN due /\ due'[i] = due[i])
      /\ \A n : In(n, due) => In(n, due')
      /\ e \in silent' \/ In(e, due')
  <2>1. 1 .. last \subseteq 1 .. e /\ e \in 1 .. e BY <1>2
  <2>2. due \in Seq(1 .. e) BY <1>2, <2>1, SeqMonotonic
  <2>3. CASE due' = Append(due, e) /\ silent' = silent
    <3>1. /\ due' \in Seq(1 .. e) /\ Len(due') = Len(due) + 1 /\ DOMAIN due' = 1 .. Len(due) + 1
          /\ \A i \in DOMAIN due : due'[i] = due[i]
          /\ due'[Len(due) + 1] = e
          /\ \A n : In(n, due') <=> In(n, due) \/ n = e
      BY <2>1, <2>2, <2>3, Appended
    <3>2. Gaps(due')
      <4>1. due # <<>> => due[Len(due)] < e BY <1>2, EmptySeq
      <4>2. Gaps(due) BY DEF IInv, Notices
      <4>3. QED BY <1>2, <2>1, <2>3, <4>1, <4>2, GapsKept
    <3>3. due # <<>> => Len(due) < MaxInFlight
      <4>1. ASSUME due # <<>> PROVE Len(due) < MaxInFlight
        <5>1. 1 \in DOMAIN due /\ Len(due) \in DOMAIN due /\ 1 <= Len(due) BY <1>2, <4>1, EmptySeq
        <5>2. due[Len(due)] - due[1] >= Len(due) - 1 BY <5>1 DEF IInv, Notices, Gaps
        <5>3. due[1] \in Int /\ due[Len(due)] \in Int /\ due[Len(due)] <= last BY <1>2, <5>1
        <5>4. e - due[1] < MaxInFlight BY <1>1, <4>1
        <5>5. QED BY <1>2, <5>2, <5>3, <5>4
      <4>2. QED BY <4>1
    <3>4. Len(due') <= MaxInFlight
      <4>1. CASE due = <<>> BY <1>2, <3>1, <4>1, Empty
      <4>2. CASE due # <<>> BY <1>2, <3>1, <3>3, <4>2
      <4>3. QED BY <4>1, <4>2
    <3>5. e - due'[1] < MaxInFlight
      <4>1. CASE due = <<>>
        <5>1. Len(due) = 0 BY <4>1, Empty
        <5>2. Len(due) + 1 = 1 BY <5>1
        <5>3. due'[1] = e BY <3>1, <5>2
        <5>4. QED BY <1>2, <5>3
      <4>2. CASE due # <<>>
        <5>1. 1 \in DOMAIN due BY <1>2, <4>2, EmptySeq
        <5>2. QED BY <1>1, <3>1, <4>2, <5>1
      <4>3. QED BY <4>1, <4>2
    <3>6. \A i \in DOMAIN due' : due'[i] = e \/ (i \in DOMAIN due /\ due'[i] = due[i])
      BY <1>2, <3>1
    <3>7. \A i \in DOMAIN due' : due'[i] \notin silent'
      <4>1. e \notin silent BY <1>2
      <4>2. QED BY <2>3, <3>6, <4>1 DEF IInv, Notices
    <3>8. QED BY <3>1, <3>2, <3>4, <3>5, <3>6, <3>7
  <2>4. CASE silent' = silent \cup {e} /\ due' = due
    <3>1. Gaps(due') /\ \A i \in DOMAIN due : due[i] \notin silent
      BY <2>4 DEF IInv, Notices
    <3>2. \A i \in DOMAIN due : due[i] # e BY <1>2
    <3>3. QED BY <1>1, <1>2, <2>2, <2>4, <3>1, <3>2
  <2>5. QED BY <1>1, <2>3, <2>4
<1>4. /\ silent \subseteq silent' /\ silent' \subseteq 1 .. e
      /\ \A n : n # e /\ n \in silent' => n \in silent
  <2>1. 1 .. last \subseteq 1 .. e /\ e \in 1 .. e BY <1>2
  <2>2. silent' = silent \/ silent' = silent \cup {e} BY <1>1
  <2>3. QED BY <1>2, <2>1, <2>2
<1>5. Position' = Position /\ Position \in Nat /\ Position <= last
  BY <1>1, Frames, Positions DEF IInv, Timeline
<1>6. TypeOK'
  <2>1. 0 .. last \subseteq 0 .. e /\ 1 .. last \subseteq 1 .. e /\ e \in 0 .. MaxEvents
    BY <1>1, <1>2, Constants
  <2>2. mark' \in 0 .. last' /\ cursor' \in 0 .. last' BY <1>1, <2>1 DEF IInv, TypeOK
  <2>3. applied' \in Seq(1 .. last') BY <1>1, <2>1, SeqMonotonic DEF IInv, TypeOK
  <2>4. Events' = Events BY DEF Events
  <2>5. QED BY <1>1, <1>3, <1>4, <2>1, <2>2, <2>3, <2>4 DEF IInv, TypeOK
<1>7. OrderVerified' /\ Attached' BY <1>1 DEF IInv, OrderVerified, Attached
<1>8. /\ \A i \in DOMAIN queue : queue[i] \in Int /\ queue[i] <= last
      /\ \A i \in DOMAIN page : page[i] \in Int /\ page[i] <= last
      /\ \A i \in DOMAIN wire : wire[i] \in Int /\ wire[i] <= last
  BY Shapes DEF IInv, Committed
<1>9. Committed' BY <1>1, <1>2, <1>8 DEF Committed
<1>10. Notices' BY <1>1, <1>3 DEF Notices
<1>11. Timeline' BY <1>1, <1>4, <1>5 DEF IInv, Timeline, MissesOnlySilent, Gaps
<1>12. Precedes(queue, due')
  <2>1. Precedes(queue, due) BY DEF IInv, Queued
  <2>2. ASSUME NEW i \in DOMAIN queue, NEW j \in DOMAIN due' PROVE queue[i] < due'[j]
    <3>1. CASE due'[j] = e BY <1>2, <1>8, <3>1
    <3>2. CASE j \in DOMAIN due /\ due'[j] = due[j]
      BY <1>2, <2>1, <3>2 DEF Precedes, Durable
    <3>3. QED BY <1>3, <3>1, <3>2
  <2>3. QED BY <2>2 DEF Precedes
<1>13. Queued'
  <2>1. \A i \in DOMAIN queue : queue[i] \notin silent'
    BY <1>2, <1>4, <1>8 DEF IInv, Queued
  <2>2. QED BY <1>1, <1>12, <2>1 DEF IInv, Queued, Rising, Durable
<1>14. Paged'
  <2>1. Precedes(page, due) => Precedes(page, due')
    <3>1. ASSUME Precedes(page, due), NEW i \in DOMAIN page, NEW j \in DOMAIN due'
          PROVE  page[i] < due'[j]
      <4>1. CASE due'[j] = e BY <1>2, <1>8, <4>1
      <4>2. CASE j \in DOMAIN due /\ due'[j] = due[j]
        BY <1>2, <3>1, <4>2 DEF Precedes, Durable
      <4>3. QED BY <1>3, <4>1, <4>2
    <3>2. QED BY <3>1 DEF Precedes
  <2>2. QED BY <1>1, <2>1 DEF IInv, Paged, Rising, Precedes, Durable
<1>15. Owed'
  <2>1. \A n : Got(n) => Got(n)' BY <1>1, <1>4, Frames DEF Got
  <2>2. Got(e)' \/ In(e, due') BY <1>3, Frames
  <2>3. \A n \in mark + 1 .. e : n = e \/ n \in mark + 1 .. last
    BY <1>2, Shapes DEF IInv
  <2>4. CASE ~closed /\ stream = "opening"
    BY <1>1, <1>5, <2>1, <2>4 DEF IInv, Owed
  <2>5. CASE ~closed /\ stream = "replay"
    <3>1. \A n \in mark + 1 .. last : n \in silent \/ In(n, queue) \/ In(n, due)
      BY <2>5 DEF IInv, Owed
    <3>2. \A n \in mark + 1 .. e : n \in silent' \/ In(n, queue) \/ In(n, due')
      BY <1>3, <1>4, <2>3, <3>1
    <3>3. QED BY <1>1, <1>5, <2>1, <2>5, <3>2 DEF IInv, Owed, In
  <2>6. CASE ~closed /\ stream = "buffered"
    <3>1. \A n \in mark + 1 .. last : Got(n) \/ In(n, page) \/ In(n, queue) \/ In(n, due)
      BY <2>6 DEF IInv, Owed
    <3>2. \A n \in mark + 1 .. e : Got(n)' \/ In(n, page) \/ In(n, queue) \/ In(n, due')
      BY <1>3, <2>1, <2>2, <2>3, <3>1
    <3>3. QED BY <1>1, <1>5, <2>1, <2>6, <3>2 DEF IInv, Owed, In
  <2>7. CASE ~closed /\ stream = "live"
    <3>1. \A n \in mark + 1 .. last : Got(n) \/ In(n, queue) \/ In(n, due)
      BY <2>7 DEF IInv, Owed
    <3>2. \A n \in mark + 1 .. e : Got(n)' \/ In(n, queue) \/ In(n, due')
      BY <1>3, <2>1, <2>2, <2>3, <3>1
    <3>3. QED BY <1>1, <1>5, <2>1, <2>7, <3>2 DEF IInv, Owed, In
  <2>8. CASE closed \/ stream \notin {"opening", "replay", "buffered", "live"}
    BY <1>1, <2>8 DEF Owed
  <2>9. QED BY <2>4, <2>5, <2>6, <2>7, <2>8
<1>16. Ahead'
  <2>1. Position < e /\ \A k \in DOMAIN wire : wire[k] < e BY <1>2, <1>5, <1>8
  <2>2. QED BY <1>1, <1>3, <1>5, <2>1 DEF IInv, Ahead, Durable
<1>17. Wired' BY <1>1, <1>4, WiredKept DEF IInv
<1>18. QED BY <1>6, <1>7, <1>9, <1>10, <1>11, <1>13, <1>14, <1>15, <1>16, <1>17 DEF IInv

\* What is not durable, or the first of what is due, comes into the queue.
LEMMA EnqueueKeeps ==
  ASSUME IInv, NEW e \in Events, Enqueue(e),
         UNCHANGED <<last, silent, stream, mark, cursor, page, wire, link, attempt, applied, breaks>>,
         transients' \in 0 .. MaxTransients,
         \/ due # <<>> /\ e = due[1] /\ due' = Tail(due)
         \/ ~Durable(e) /\ due' = due
  PROVE  IInv'
<1>1. /\ last \in Nat /\ due \in Seq(1 .. last) /\ due \in Seq(Int) /\ silent \subseteq 1 .. last
      /\ \A i \in DOMAIN due : due[i] \in Int /\ 0 < due[i] /\ due[i] <= last
      /\ queue \in Seq(Events) /\ queue \in Seq(Int) /\ \A i \in DOMAIN queue : queue[i] \in Int
      /\ page \in Seq(Int) /\ \A i \in DOMAIN page : page[i] \in Int
      /\ wire \in Seq(Int) /\ \A i \in DOMAIN wire : wire[i] \in Int
      /\ e \in Int /\ mark \in Nat /\ mark <= last
      /\ Len(due) <= MaxInFlight /\ MaxInFlight \in Nat /\ 0 < MaxInFlight
  <2>1. e \in Int BY Constants DEF Events
  <2>2. QED BY <2>1, Shapes, Constants DEF IInv, TypeOK
<1>2. Position' = Position /\ Position \in Nat /\ Position <= last
  BY Frames, Positions DEF IInv, Timeline
<1>3. /\ due' \in Seq(1 .. last) /\ due' \in Seq(Int) /\ Len(due') <= MaxInFlight /\ Gaps(due')
      /\ \A i \in DOMAIN due' : e < due'[i] /\ 0 < due'[i] /\ due'[i] <= last
      /\ \A i \in DOMAIN due' : \E j \in DOMAIN due : due'[i] = due[j]
      /\ \A n : In(n, due) => In(n, due') \/ n = e
      /\ \A s \in Seq(Int) : Precedes(s, due) =>
            Precedes(s, due') /\ (Durable(e) => \A i \in DOMAIN s : s[i] < e)
      /\ Durable(e) => 1 \in DOMAIN due /\ e = due[1]
      /\ ~Durable(e) => due' = due
  <2>1. CASE due # <<>> /\ e = due[1] /\ due' = Tail(due)
    <3>1. /\ Head(due) = due[1] /\ 1 \in DOMAIN due /\ due' \in Seq(1 .. last)
          /\ Len(due') = Len(due) - 1 /\ Len(due) \in Nat \ {0}
          /\ DOMAIN due' = 1 .. Len(due) - 1
          /\ \A i \in 1 .. Len(due) - 1 : i + 1 \in DOMAIN due /\ due'[i] = due[i + 1]
          /\ \A n : In(n, due) <=> n = Head(due) \/ In(n, due')
      BY <1>1, <2>1, Tailed
    <3>2. due' \in Seq(Int) BY <1>1, <2>1, Tailed
    <3>3. Gaps(due') /\ \A i \in DOMAIN due' : e < due'[i]
      BY <1>1, <2>1, GapsKept DEF IInv, Notices
    <3>4. ASSUME NEW s \in Seq(Int), Precedes(s, due)
          PROVE  Precedes(s, due') /\ \A i \in DOMAIN s : s[i] < e
      <4>1. Precedes(s, due') BY <1>1, <2>1, <3>4, PrecedesKept
      <4>2. Durable(due[1]) BY <1>1, <3>1 DEF Durable
      <4>3. QED BY <2>1, <3>1, <3>4, <4>1, <4>2 DEF Precedes
    <3>5. Len(due') <= MaxInFlight BY <1>1, <3>1
    <3>6. \A i \in DOMAIN due' : \E j \in DOMAIN due : due'[i] = due[j] BY <3>1
    <3>7. \A i \in DOMAIN due' : e < due'[i] /\ 0 < due'[i] /\ due'[i] <= last
      BY <1>1, <3>3, <3>6
    <3>8. Durable(e) BY <1>1, <2>1, <3>1 DEF Durable
    <3>9. QED BY <2>1, <3>1, <3>2, <3>3, <3>4, <3>5, <3>6, <3>7, <3>8
  <2>2. CASE ~Durable(e) /\ due' = due
    <3>1. \A i \in DOMAIN due : e < due[i] BY <1>1, <2>2 DEF Durable
    <3>2. QED BY <1>1, <2>2, <3>1 DEF IInv, Notices
  <2>3. QED BY <2>1, <2>2
<1>4. Notices'
  <2>1. \A i \in DOMAIN due' : due'[i] \notin silent BY <1>3 DEF IInv, Notices
  <2>2. ASSUME due' # <<>> PROVE last - due'[1] < MaxInFlight
    <3>1. 1 \in DOMAIN due' BY <1>3, <2>2, EmptySeq
    <3>2. PICK j \in DOMAIN due : due'[1] = due[j] BY <1>3, <3>1
    <3>3. due # <<>> /\ 1 \in DOMAIN due /\ 1 <= j
      <4>1. DOMAIN due = 1 .. Len(due) /\ Len(due) \in Nat BY <1>1
      <4>2. QED BY <3>2, <4>1, EmptySeq
    <3>4. due[j] - due[1] >= j - 1 /\ j \in Nat
      <4>1. Gaps(due) BY DEF IInv, Notices
      <4>2. DOMAIN due = 1 .. Len(due) /\ Len(due) \in Nat BY <1>1
      <4>3. QED BY <3>2, <3>3, <4>1, <4>2 DEF Gaps
    <3>5. last - due[1] < MaxInFlight BY <3>3 DEF IInv, Notices
    <3>6. due[1] \in Int /\ due[j] \in Int BY <1>1, <3>2, <3>3
    <3>7. QED BY <1>1, <3>2, <3>3, <3>4, <3>5, <3>6
  <2>3. QED BY <1>3, <2>1, <2>2 DEF Notices
<1>5. e <= last /\ e \notin silent
  <2>1. CASE Durable(e) BY <1>1, <1>3, <2>1 DEF IInv, Notices
  <2>2. CASE ~Durable(e) BY <1>1, <2>2 DEF Durable
  <2>3. QED BY <2>1, <2>2
<1>6. Timeline' BY <1>2 DEF IInv, Timeline, MissesOnlySilent, Gaps
<1>7. Wired' BY WiredKept DEF IInv
<1>8. OrderVerified' BY DEF IInv, OrderVerified
<1>9. Events' = Events /\ 0 <= MaxPending /\ MaxPending \in Nat BY Constants DEF Events
<1>10. Precedes(queue, due') BY <1>1, <1>3 DEF IInv, Queued
<1>11. CASE (stream = "none" \/ closed \/ (e = Coalescible /\ Contains(queue, e)))
            /\ UNCHANGED <<queue, closed>>
  <2>1. TypeOK' BY <1>3, <1>9, <1>11 DEF IInv, TypeOK
  <2>2. Attached' BY <1>11 DEF IInv, Attached
  <2>3. Committed' BY <1>11 DEF IInv, Committed
  <2>4. Queued' BY <1>10, <1>11 DEF IInv, Queued, Rising, Durable
  <2>5. CASE stream = "none" \/ closed
    <3>1. Paged' /\ Owed' /\ Ahead' BY <1>11, <2>5 DEF Paged, Owed, Ahead
    <3>2. QED BY <1>4, <1>6, <1>7, <1>8, <2>1, <2>2, <2>3, <2>4, <3>1 DEF IInv
  <2>6. CASE e = Coalescible
    <3>1. ~Durable(e) BY <2>6 DEF Coalescible, Durable
    <3>2. due' = due BY <1>3, <3>1
    <3>3. Paged' BY <1>11, <3>2 DEF IInv, Paged, Rising, Precedes, Durable
    <3>4. Owed' BY <1>2, <1>11, <3>2, Frames DEF IInv, Owed, In
    <3>5. Ahead' BY <1>2, <1>11, <3>2 DEF IInv, Ahead, Durable
    <3>6. QED BY <1>4, <1>6, <1>7, <1>8, <2>1, <2>2, <2>3, <2>4, <3>3, <3>4, <3>5 DEF IInv
  <2>7. QED BY <1>11, <2>5, <2>6
<1>12. CASE queue' = <<>> /\ closed' = TRUE /\ stream # "none"
  <2>1. TypeOK'
    <3>1. <<>> \in Seq(Events) /\ Len(<<>>) = 0 BY Empty
    <3>2. QED BY <1>3, <1>9, <1>12, <3>1 DEF IInv, TypeOK
  <2>2. Attached' BY <1>12 DEF IInv, Attached
  <2>3. Committed' /\ Queued' BY <1>12, Empty DEF IInv, Committed, Queued
  <2>4. Paged' /\ Owed' /\ Ahead' BY <1>12 DEF Paged, Owed, Ahead
  <2>5. QED BY <1>4, <1>6, <1>7, <1>8, <2>1, <2>2, <2>3, <2>4 DEF IInv
<1>13. CASE /\ stream # "none" /\ ~closed /\ ~(Len(queue) >= MaxPending)
            /\ queue' = Append(queue, e) /\ UNCHANGED closed
  <2>1. /\ queue' \in Seq(Events) /\ queue' # <<>> /\ Len(queue') = Len(queue) + 1
        /\ DOMAIN queue' = 1 .. Len(queue) + 1 /\ DOMAIN queue = 1 .. Len(queue) /\ Len(queue) \in Nat
        /\ \A i \in DOMAIN queue : queue'[i] = queue[i]
        /\ queue'[Len(queue) + 1] = e
        /\ \A n : In(n, queue') <=> In(n, queue) \/ n = e
    <3>1. DOMAIN queue = 1 .. Len(queue) /\ Len(queue) \in Nat BY <1>1
    <3>2. queue' = Append(queue, e) /\ queue \in Seq(Events) BY <1>1, <1>13
    <3>3. QED BY <3>1, <3>2, Appended
  <2>2. \A i \in DOMAIN queue' : queue'[i] = e \/ (i \in DOMAIN queue /\ queue'[i] = queue[i])
    BY <2>1
  <2>3. TypeOK' BY <1>3, <1>9, <1>13, <2>1 DEF IInv, TypeOK
  <2>4. Attached' BY <1>13, <2>1 DEF IInv, Attached
  <2>5. Committed' BY <1>5, <2>2 DEF IInv, Committed
  <2>6. Durable(e) => \A i \in DOMAIN queue : queue[i] < e BY <1>1, <1>3 DEF IInv, Queued
  <2>7. Queued'
    <3>1. Rising(queue') BY <1>1, <1>13, <2>6, RisingKept DEF IInv, Queued
    <3>2. Precedes(queue', due') BY <1>1, <1>3, <1>10, <1>13, PrecedesKept
    <3>3. \A i \in DOMAIN queue' : queue'[i] \notin silent BY <1>5, <2>2 DEF IInv, Queued
    <3>4. QED BY <3>1, <3>2, <3>3 DEF Queued
  <2>8. Paged'
    <3>1. CASE stream = "buffered"
      <4>1. Rising(page) /\ Precedes(page, queue) /\ Precedes(page, due)
            /\ \A i \in DOMAIN page : page[i] > mark => page[i] > cursor
        BY <1>13, <3>1 DEF IInv, Paged
      <4>2. Precedes(page, due') /\ (Durable(e) => \A i \in DOMAIN page : page[i] < e)
        BY <1>1, <1>3, <4>1
      <4>3. Precedes(page, queue') BY <1>1, <1>13, <4>1, <4>2, PrecedesKept
      <4>4. QED BY <3>1, <4>1, <4>2, <4>3 DEF Paged
    <3>2. CASE stream # "buffered" BY <1>13, <3>2 DEF IInv, Paged
    <3>3. QED BY <3>1, <3>2
  <2>9. Owed'
    <3>1. \A n : In(n, queue) \/ In(n, due) => In(n, queue') \/ In(n, due') BY <1>3, <2>1
    <3>2. \A n : Got(n)' <=> Got(n) BY Frames
    <3>3. CASE stream = "opening" BY <1>2, <1>13, <3>2, <3>3 DEF IInv, Owed
    <3>4. CASE stream = "replay" BY <1>2, <1>13, <3>1, <3>2, <3>4 DEF IInv, Owed
    <3>5. CASE stream = "buffered" BY <1>2, <1>13, <3>1, <3>2, <3>5 DEF IInv, Owed
    <3>6. CASE stream = "live" BY <1>2, <1>13, <3>1, <3>2, <3>6 DEF IInv, Owed
    <3>7. CASE stream \notin {"opening", "replay", "buffered", "live"} BY <3>7 DEF Owed
    <3>8. QED BY <3>3, <3>4, <3>5, <3>6, <3>7
  <2>10. Ahead'
    <3>1. CASE stream \in {"buffered", "live"}
      <4>1. /\ Position > mark => \A i \in DOMAIN queue : Durable(queue[i]) => Position < queue[i]
            /\ Position > mark => \A i \in DOMAIN due : Position < due[i]
            /\ \A k \in DOMAIN wire : wire[k] > mark =>
                  /\ \A i \in DOMAIN queue : Durable(queue[i]) => wire[k] < queue[i]
                  /\ \A i \in DOMAIN due : wire[k] < due[i]
            /\ \A i \in DOMAIN queue : Durable(queue[i]) => mark - queue[i] < MaxInFlight
        BY <1>13, <3>1 DEF IInv, Ahead
      <4>2. ASSUME Durable(e)
            PROVE  /\ Position > mark => Position < e
                   /\ \A k \in DOMAIN wire : wire[k] > mark => wire[k] < e
                   /\ mark - e < MaxInFlight
        <5>1. 1 \in DOMAIN due /\ e = due[1] /\ due # <<>> BY <1>3, <4>2, Empty
        <5>2. last - e < MaxInFlight BY <5>1 DEF IInv, Notices
        <5>3. QED BY <1>1, <4>1, <5>1, <5>2
      <4>3. \A i \in DOMAIN due' : \E j \in DOMAIN due : due'[i] = due[j] BY <1>3
      <4>4. Position > mark => \A i \in DOMAIN queue' : Durable(queue'[i]) => Position < queue'[i]
        BY <2>2, <4>1, <4>2
      <4>5. Position > mark => \A i \in DOMAIN due' : Position < due'[i]
        BY <4>1, <4>3
      <4>6. ASSUME NEW k \in DOMAIN wire, wire[k] > mark
            PROVE  /\ \A i \in DOMAIN queue' : Durable(queue'[i]) => wire[k] < queue'[i]
                   /\ \A i \in DOMAIN due' : wire[k] < due'[i]
        BY <2>2, <4>1, <4>2, <4>3, <4>6
      <4>7. \A i \in DOMAIN queue' : Durable(queue'[i]) => mark - queue'[i] < MaxInFlight
        BY <2>2, <4>1, <4>2
      <4>8. QED BY <1>2, <4>4, <4>5, <4>6, <4>7 DEF Ahead, Durable
    <3>2. CASE stream \notin {"buffered", "live"} BY <3>2 DEF Ahead
    <3>3. QED BY <3>1, <3>2
  <2>11. QED BY <1>4, <1>6, <1>7, <1>8, <2>3, <2>4, <2>5, <2>7, <2>8, <2>9, <2>10 DEF IInv
<1>14. QED BY <1>11, <1>12, <1>13 DEF Enqueue

\* A committed event is announced; a transient is emitted.
LEMMA NoticeKeeps ==
  ASSUME IInv, notifyCommitted \/ emitTransient
  PROVE  IInv'
<1>1. CASE notifyCommitted
  <2>1. due # <<>> /\ Enqueue(Head(due)) /\ due' = Tail(due)
        /\ UNCHANGED <<last, silent, transients, stream, mark, cursor, page, wire, link, attempt,
                       applied, breaks>>
    BY <1>1 DEF notifyCommitted, client
  <2>2. Head(due) = due[1] /\ Head(due) \in 1 .. last BY <2>1, Shapes, Tailed DEF IInv
  <2>3. Head(due) \in Events BY <2>2, Shapes DEF IInv, Events
  <2>4. transients' \in 0 .. MaxTransients BY <2>1 DEF IInv, TypeOK
  <2>5. QED BY <2>1, <2>2, <2>3, <2>4, EnqueueKeeps
<1>2. CASE emitTransient
  <2>1. PICK e \in {Coalescible, Ordered} : Enqueue(e) BY <1>2 DEF emitTransient
  <2>2. e \in Events /\ ~Durable(e)
    BY Constants DEF Events, Durable, Coalescible, Ordered
  <2>3. transients' \in 0 .. MaxTransients
    BY <1>2, Constants DEF emitTransient, IInv, TypeOK
  <2>4. due' = due
        /\ UNCHANGED <<last, silent, stream, mark, cursor, page, wire, link, attempt, applied, breaks>>
    BY <1>2 DEF emitTransient, client
  <2>5. QED BY <2>1, <2>2, <2>3, <2>4, EnqueueKeeps
<1>3. QED BY <1>1, <1>2

\* An event sent next to all before it, or again while it is remembered.
LEMMA SentKeeps ==
  ASSUME TypeOK, Wired, NEW e \in Events, wire' = Append(wire, e),
         UNCHANGED <<silent, applied, mark>>,
         Durable(e) =>
           /\ \A n \in 1 .. e - 1 : Got(n)
           /\ \/ /\ Position < e
                 /\ \A k \in DOMAIN wire : wire[k] < e
              \/ /\ mark - e < MaxInFlight /\ Position <= mark
                 /\ \A k \in DOMAIN wire : wire[k] <= mark
                 /\ In(e, applied) \/ In(e, wire)
  PROVE  Wired'
<1>1. wire \in Seq(Events) /\ DOMAIN wire = 1 .. Len(wire) /\ Len(wire) \in Nat
  BY Shapes
<1>2. /\ DOMAIN wire' = 1 .. Len(wire) + 1 /\ wire'[Len(wire) + 1] = e
      /\ \A i \in DOMAIN wire : wire'[i] = wire[i]
  BY <1>1, Appended
<1>3. Position' = Position BY Frames
<1>4. ASSUME NEW i \in DOMAIN wire', Durable(wire'[i])
      PROVE  Complete(i)' /\ (Fresh(i)' \/ Repeat(i)')
  <2>1. CASE i = Len(wire) + 1
    <3>1. wire'[i] = e /\ Durable(e) /\ \A j \in DOMAIN wire : j \in DOMAIN wire' /\ j < i
      BY <1>1, <1>2, <1>4, <2>1
    <3>2. \A j \in DOMAIN wire' : j < i => j \in DOMAIN wire BY <1>1, <1>2, <2>1
    <3>3. Complete(i)' BY <1>2, <3>1 DEF Complete, Got, In
    <3>4. Fresh(i)' \/ Repeat(i)'
      <4>1. CASE Position < e /\ \A k \in DOMAIN wire : wire[k] < e
        BY <1>2, <1>3, <3>1, <3>2, <4>1 DEF Fresh
      <4>2. CASE /\ mark - e < MaxInFlight /\ Position <= mark
                 /\ \A k \in DOMAIN wire : wire[k] <= mark
                 /\ In(e, applied) \/ In(e, wire)
        BY <1>2, <1>3, <3>1, <3>2, <4>2 DEF Repeat, In
      <4>3. QED BY <3>1, <4>1, <4>2
    <3>5. QED BY <3>3, <3>4
  <2>2. CASE i \in DOMAIN wire
    <3>1. wire'[i] = wire[i] /\ Durable(wire[i]) BY <1>2, <1>4, <2>2 DEF Durable
    <3>2. \A j \in DOMAIN wire' : j < i => j \in DOMAIN wire /\ wire'[j] = wire[j]
      BY <1>1, <1>2, <2>2
    <3>3. \A j \in DOMAIN wire : j \in DOMAIN wire' /\ wire'[j] = wire[j] BY <1>1, <1>2
    <3>4. Complete(i) /\ (Fresh(i) \/ Repeat(i)) BY <2>2, <3>1 DEF Wired
    <3>5. Complete(i)' BY <3>1, <3>3, <3>4 DEF Complete, In
    <3>6. Fresh(i) => Fresh(i)' BY <1>3, <3>1, <3>2 DEF Fresh
    <3>7. Repeat(i) => Repeat(i)' BY <1>3, <3>1, <3>2, <3>3 DEF Repeat, In
    <3>8. QED BY <3>4, <3>5, <3>6, <3>7
  <2>3. QED BY <1>1, <1>2, <1>4, <2>1, <2>2
<1>5. QED BY <1>4 DEF Wired, Durable

\* What the generator leaves alone.
LEMMA GeneratorLeaves ==
  ASSUME IInv, UnchangedButHub
  PROVE  /\ UNCHANGED <<last, silent, due, transients, link, attempt, applied, breaks>>
         /\ Position' = Position /\ Position \in Nat /\ Position <= last
         /\ Notices' /\ Timeline' /\ Events' = Events
<1>1. UNCHANGED <<last, silent, due, transients, link, attempt, applied, breaks>>
  BY DEF UnchangedButHub, writers, client
<1>2. Position' = Position /\ Position \in Nat /\ Position <= last
  BY <1>1, Frames, Positions DEF IInv, Timeline
<1>3. Notices' BY <1>1 DEF IInv, Notices, Gaps
<1>4. Timeline' BY <1>1, <1>2 DEF IInv, Timeline, MissesOnlySilent, Gaps
<1>5. QED BY <1>1, <1>2, <1>3, <1>4 DEF Events

\* The watermark is never behind the cursor.
LEMMA ReadMarkKeeps ==
  ASSUME IInv, ReadMark
  PROVE  IInv'
<1>1. /\ UNCHANGED <<last, silent, due, transients, link, attempt, applied, breaks,
                     closed, queue, cursor, page, wire>>
      /\ Position' = Position /\ Notices' /\ Timeline' /\ Events' = Events
      /\ stream = "opening" /\ ~closed /\ mark' = last
  BY GeneratorLeaves DEF ReadMark
<1>2. cursor <= last /\ last \in Nat BY Shapes DEF IInv
<1>3. stream' = "replay" BY <1>2, Shapes DEF ReadMark, IInv
<1>4. page = <<>> /\ wire = <<>> /\ link = "connected" BY <1>1 DEF IInv, Attached
<1>5. TypeOK' BY <1>1, <1>2, <1>3 DEF IInv, TypeOK
<1>6. OrderVerified' /\ Attached' /\ Committed'
  BY <1>1, <1>3, <1>4 DEF IInv, OrderVerified, Attached, Committed
<1>7. Queued' BY <1>1 DEF IInv, Queued, Rising, Precedes, Durable
<1>8. Paged'
  <2>1. page' = <<>> /\ Len(page') = 0 /\ DOMAIN page' = {} BY <1>1, <1>4, Empty
  <2>2. cursor' + Len(page') <= mark' BY <1>1, <1>2, <2>1, Shapes DEF IInv
  <2>3. QED BY <1>3, <2>1, <2>2 DEF Paged
<1>9. Owed'
  <2>1. /\ Position <= cursor /\ \A i \in DOMAIN wire : wire[i] <= cursor
        /\ \A n \in 1 .. cursor : Got(n)
    BY <1>1 DEF IInv, Owed
  <2>2. mark' + 1 .. last' = {} BY <1>1, <1>2
  <2>3. QED BY <1>1, <1>2, <1>3, <2>1, <2>2, Frames DEF Owed
<1>10. Ahead' BY <1>3 DEF Ahead
<1>11. Wired' BY <1>1, <1>4, Empty DEF Wired
<1>12. QED BY <1>1, <1>5, <1>6, <1>7, <1>8, <1>9, <1>10, <1>11 DEF IInv

\* A page is what follows the cursor.
LEMMA ReadPageKeeps ==
  ASSUME IInv, ReadPage
  PROVE  IInv'
<1>1. /\ UNCHANGED <<last, silent, due, transients, link, attempt, applied, breaks,
                     stream, closed, queue, mark, cursor, wire>>
      /\ Position' = Position /\ Notices' /\ Timeline' /\ Events' = Events
      /\ stream = "replay" /\ ~closed /\ cursor < mark
  BY GeneratorLeaves DEF ReadPage
<1>2. /\ last \in Nat /\ mark \in Nat /\ cursor \in Nat /\ mark <= last /\ last <= MaxEvents
      /\ PageSize \in Nat \ {0} /\ MaxEvents \in Nat
  BY Shapes, Constants DEF IInv
<1>3. PICK m \in Nat : cursor + m <= mark /\ page' = [i \in 1 .. m |-> cursor + i]
  <2>1. CASE mark - cursor < PageSize BY <1>1, <1>2, <2>1 DEF ReadPage
  <2>2. CASE ~(mark - cursor < PageSize) BY <1>1, <1>2, <2>2 DEF ReadPage
  <2>3. QED BY <2>1, <2>2
<1>4. /\ Len(page') = m /\ DOMAIN page' = 1 .. m /\ \A i \in 1 .. m : page'[i] = cursor + i
      /\ page' \in Seq(Events)
  <2>1. \A i \in 1 .. m : cursor + i \in Events BY <1>2, <1>3 DEF Events
  <2>2. page' \in [1 .. m -> Events] BY <1>3, <2>1
  <2>3. QED BY <1>3, <2>2
<1>5. TypeOK' BY <1>1, <1>4 DEF IInv, TypeOK
<1>6. OrderVerified' /\ Attached' BY <1>1 DEF IInv, OrderVerified, Attached
<1>7. Committed'
  <2>1. \A i \in 1 .. m : cursor + i <= last BY <1>2, <1>3
  <2>2. QED BY <1>1, <1>4, <2>1 DEF IInv, Committed
<1>8. Queued' BY <1>1 DEF IInv, Queued, Rising, Precedes, Durable
<1>9. Paged' BY <1>1, <1>3, <1>4 DEF Paged
<1>10. Owed' BY <1>1, Frames DEF IInv, Owed, In
<1>11. Ahead' BY <1>1 DEF Ahead
<1>12. Wired' BY <1>1, WiredKept DEF IInv
<1>13. QED BY <1>1, <1>5, <1>6, <1>7, <1>8, <1>9, <1>10, <1>11, <1>12 DEF IInv

\* The replay yields the event after its cursor.
LEMMA YieldReplayedKeeps ==
  ASSUME IInv, YieldReplayed
  PROVE  IInv'
<1>1. /\ UNCHANGED <<last, silent, due, transients, link, attempt, applied, breaks,
                     stream, closed, queue, mark>>
      /\ Position' = Position /\ Notices' /\ Timeline' /\ Events' = Events
      /\ stream = "replay" /\ ~closed /\ page # <<>>
      /\ Len(wire) < WireSize /\ wire' = Append(wire, Head(page))
      /\ cursor' = Head(page) /\ page' = Tail(page)
  BY GeneratorLeaves DEF YieldReplayed, Yield
<1>2. /\ last \in Nat /\ mark \in Nat /\ cursor \in Nat /\ mark <= last /\ WireSize \in Nat
      /\ page \in Seq(Events) /\ wire \in Seq(Events) /\ Position \in Nat
      /\ \A i \in DOMAIN wire : wire[i] \in Int
  BY Shapes, Constants, Positions DEF IInv, Timeline
<1>3. SUFFICES ASSUME NEW e, e = Head(page) PROVE IInv'
  OBVIOUS
<1>4. /\ e = page[1] /\ e \in Events /\ 1 \in DOMAIN page /\ Len(page) \in Nat \ {0}
      /\ page' \in Seq(Events) /\ Len(page') = Len(page) - 1 /\ DOMAIN page' = 1 .. Len(page) - 1
      /\ \A i \in 1 .. Len(page) - 1 : i + 1 \in DOMAIN page /\ page'[i] = page[i + 1]
  BY <1>1, <1>2, <1>3, Tailed
<1>5. /\ \A i \in DOMAIN page : page[i] = cursor + i
      /\ cursor + Len(page) <= mark
      /\ Position <= cursor /\ \A i \in DOMAIN wire : wire[i] <= cursor
      /\ \A n \in 1 .. cursor : Got(n)
      /\ \A n \in mark + 1 .. last : n \in silent \/ In(n, queue) \/ In(n, due)
  BY <1>1 DEF IInv, Paged, Owed
<1>6. e = cursor + 1 /\ e <= mark /\ e \in Nat BY <1>2, <1>4, <1>5
<1>7. /\ wire' \in Seq(Events) /\ Len(wire') = Len(wire) + 1
      /\ DOMAIN wire' = 1 .. Len(wire) + 1 /\ DOMAIN wire = 1 .. Len(wire) /\ Len(wire) \in Nat
      /\ \A i \in DOMAIN wire : wire'[i] = wire[i]
      /\ wire'[Len(wire) + 1] = e
      /\ \A n : In(n, wire') <=> In(n, wire) \/ n = e
  <2>1. DOMAIN wire = 1 .. Len(wire) /\ Len(wire) \in Nat BY <1>2
  <2>2. wire' = Append(wire, e) BY <1>1, <1>3
  <2>3. QED BY <1>2, <1>4, <2>1, <2>2, Appended
<1>8. \A i \in DOMAIN wire' : wire'[i] = e \/ (i \in DOMAIN wire /\ wire'[i] = wire[i])
  BY <1>7
<1>9. cursor' = e BY <1>1, <1>3
<1>10. TypeOK'
  <2>1. cursor' \in 0 .. last BY <1>2, <1>6, <1>9
  <2>2. Len(wire') <= WireSize BY <1>1, <1>2, <1>7
  <2>3. QED BY <1>1, <1>4, <1>7, <2>1, <2>2 DEF IInv, TypeOK
<1>11. OrderVerified' /\ Attached' BY <1>1 DEF IInv, OrderVerified, Attached
<1>12. Committed'
  <2>1. \A i \in DOMAIN page' : page'[i] <= last BY <1>4 DEF IInv, Committed
  <2>2. \A i \in DOMAIN wire' : wire'[i] <= last BY <1>2, <1>6, <1>8 DEF IInv, Committed
  <2>3. QED BY <1>1, <2>1, <2>2 DEF IInv, Committed
<1>13. Queued' BY <1>1 DEF IInv, Queued, Rising, Precedes, Durable
<1>14. Paged'
  <2>1. ASSUME NEW i \in DOMAIN page' PROVE page'[i] = e + i
    <3>1. i \in Nat /\ i + 1 \in DOMAIN page /\ page'[i] = page[i + 1] BY <1>4
    <3>2. page[i + 1] = cursor + (i + 1) BY <1>5, <3>1
    <3>3. QED BY <1>2, <1>6, <3>1, <3>2
  <2>2. e + Len(page') <= mark BY <1>2, <1>4, <1>5, <1>6
  <2>3. QED BY <1>1, <1>9, <2>1, <2>2 DEF Paged
<1>15. Owed'
  <2>1. Position' <= cursor' BY <1>1, <1>2, <1>5, <1>6, <1>9
  <2>2. \A i \in DOMAIN wire' : wire'[i] <= cursor' BY <1>2, <1>5, <1>6, <1>8, <1>9
  <2>3. \A n \in 1 .. e : n = e \/ n \in 1 .. cursor BY <1>2, <1>6
  <2>4. \A n : Got(n) \/ n = e => Got(n)' BY <1>1, <1>7, Frames DEF Got
  <2>5. \A n \in 1 .. cursor' : Got(n)' BY <1>5, <1>9, <2>3, <2>4
  <2>6. QED BY <1>1, <1>5, <1>6, <1>9, <2>1, <2>2, <2>5 DEF Owed
<1>16. Ahead' BY <1>1 DEF Ahead
<1>17. Wired'
  <2>1. 1 .. e - 1 = 1 .. cursor BY <1>2, <1>6
  <2>2. Position < e /\ \A k \in DOMAIN wire : wire[k] < e BY <1>2, <1>5, <1>6
  <2>3. wire' = Append(wire, e) BY <1>1, <1>3
  <2>4. QED BY <1>1, <1>4, <1>5, <2>1, <2>2, <2>3, SentKeeps DEF IInv
<1>18. QED BY <1>1, <1>10, <1>11, <1>12, <1>13, <1>14, <1>15, <1>16, <1>17 DEF IInv

\* When the replay is through, the queue is taken as it stands.
LEMMA DrainKeeps ==
  ASSUME IInv, Drain
  PROVE  IInv'
<1>1. /\ UNCHANGED <<last, silent, due, transients, link, attempt, applied, breaks,
                     closed, mark, cursor, wire>>
      /\ Position' = Position /\ Notices' /\ Timeline' /\ Events' = Events
      /\ stream = "replay" /\ ~closed /\ cursor >= mark
      /\ page' = queue /\ queue' = <<>> /\ stream' = "buffered"
  BY GeneratorLeaves DEF Drain
<1>2. /\ last \in Nat /\ mark \in Nat /\ cursor \in Nat /\ Position \in Nat /\ 0 <= MaxPending
      /\ \A i \in DOMAIN wire : wire[i] \in Int
  BY Shapes, Constants, Positions DEF IInv, Timeline
<1>3. /\ cursor <= mark /\ Position <= cursor /\ \A i \in DOMAIN wire : wire[i] <= cursor
      /\ \A n \in 1 .. cursor : Got(n)
      /\ \A n \in mark + 1 .. last : n \in silent \/ In(n, queue) \/ In(n, due)
  BY <1>1 DEF IInv, Owed
<1>4. cursor = mark BY <1>1, <1>2, <1>3
<1>5. TypeOK'
  <2>1. <<>> \in Seq(Events) /\ Len(<<>>) = 0 BY Empty
  <2>2. QED BY <1>1, <1>2, <2>1 DEF IInv, TypeOK
<1>6. OrderVerified' /\ Attached' BY <1>1 DEF IInv, OrderVerified, Attached
<1>7. Committed' BY <1>1, Empty DEF IInv, Committed
<1>8. Queued' BY <1>1, Empty DEF Queued
<1>9. Paged'
  <2>1. Rising(queue) /\ Precedes(queue, due) BY DEF IInv, Queued
  <2>2. Precedes(queue, <<>>) BY Empty
  <2>3. QED BY <1>1, <1>4, <2>1, <2>2 DEF Paged
<1>10. Owed'
  <2>1. \A n : Got(n)' <=> Got(n) BY <1>1, Frames
  <2>2. \A n \in mark + 1 .. last : Got(n) \/ In(n, queue) \/ In(n, due) BY <1>3 DEF Got
  <2>3. QED BY <1>1, <1>3, <1>4, <2>1, <2>2 DEF Owed
<1>11. Ahead'
  <2>1. ~(Position > mark) /\ \A k \in DOMAIN wire : ~(wire[k] > mark) BY <1>2, <1>3, <1>4
  <2>2. QED BY <1>1, <2>1, Empty DEF Ahead
<1>12. Wired' BY <1>1, WiredKept DEF IInv
<1>13. QED BY <1>1, <1>5, <1>6, <1>7, <1>8, <1>9, <1>10, <1>11, <1>12 DEF IInv

\* A closed subscription is over.
LEMMA ReturnKeeps ==
  ASSUME IInv, Return
  PROVE  IInv'
<1>1. /\ UNCHANGED <<last, silent, due, transients, link, attempt, applied, breaks,
                     mark, cursor, wire>>
      /\ Notices' /\ Timeline' /\ Events' = Events
      /\ stream # "none" /\ stream' = "ended" /\ closed' = TRUE /\ queue' = <<>> /\ page' = <<>>
  BY GeneratorLeaves DEF Return
<1>2. TypeOK'
  <2>1. <<>> \in Seq(Events) /\ Len(<<>>) = 0 /\ 0 <= MaxPending BY Empty, Constants
  <2>2. QED BY <1>1, <2>1 DEF IInv, TypeOK
<1>3. OrderVerified' /\ Attached' BY <1>1 DEF IInv, OrderVerified, Attached
<1>4. Committed' /\ Queued' BY <1>1, Empty DEF IInv, Committed, Queued
<1>5. Paged' /\ Owed' /\ Ahead' BY <1>1 DEF Paged, Owed, Ahead
<1>6. Wired' BY <1>1, WiredKept DEF IInv
<1>7. QED BY <1>1, <1>2, <1>3, <1>4, <1>5, <1>6 DEF IInv

\* Of what was drained, the replayed is passed over and the rest sent in order.
LEMMA YieldBufferedKeeps ==
  ASSUME IInv, YieldBuffered
  PROVE  IInv'
<1>1. /\ UNCHANGED <<last, silent, due, transients, link, attempt, applied, breaks,
                     closed, queue, mark>>
      /\ Position' = Position /\ Notices' /\ Timeline' /\ Events' = Events
      /\ stream = "buffered" /\ ~closed
  BY GeneratorLeaves DEF YieldBuffered
<1>2. /\ last \in Nat /\ mark \in Nat /\ cursor \in Nat /\ mark <= last /\ WireSize \in Nat
      /\ page \in Seq(Events) /\ page \in Seq(Int) /\ \A i \in DOMAIN page : page[i] \in Int
      /\ queue \in Seq(Int) /\ \A i \in DOMAIN queue : queue[i] \in Int
      /\ wire \in Seq(Events) /\ \A i \in DOMAIN wire : wire[i] \in Int
      /\ due \in Seq(Int) /\ \A i \in DOMAIN due : due[i] \in Int /\ 0 < due[i]
      /\ Position \in Nat
  BY Shapes, Constants, Positions DEF IInv, Timeline
<1>3. /\ Rising(page) /\ Precedes(page, queue) /\ Precedes(page, due)
      /\ \A i \in DOMAIN page : page[i] > mark => page[i] > cursor
      /\ Position <= cursor /\ mark <= cursor
      /\ \A i \in DOMAIN wire : wire[i] <= cursor
      /\ \A n \in 1 .. cursor : Got(n)
      /\ \A n \in mark + 1 .. last : Got(n) \/ In(n, page) \/ In(n, queue) \/ In(n, due)
  BY <1>1 DEF IInv, Paged, Owed
<1>4. /\ Position > mark => \A i \in DOMAIN queue : Durable(queue[i]) => Position < queue[i]
      /\ Position > mark => \A i \in DOMAIN due : Position < due[i]
      /\ \A k \in DOMAIN wire : wire[k] > mark =>
            /\ \A i \in DOMAIN queue : Durable(queue[i]) => wire[k] < queue[i]
            /\ \A i \in DOMAIN due : wire[k] < due[i]
      /\ \A i \in DOMAIN queue : Durable(queue[i]) => mark - queue[i] < MaxInFlight
  BY <1>1 DEF IInv, Ahead
<1>5. Queued' BY <1>1 DEF IInv, Queued, Rising, Precedes, Durable
<1>6. CASE page = <<>> /\ stream' = "live" /\ UNCHANGED <<cursor, page, wire>>
  <2>1. TypeOK' BY <1>1, <1>6 DEF IInv, TypeOK
  <2>2. OrderVerified' /\ Attached' /\ Committed'
    BY <1>1, <1>6 DEF IInv, OrderVerified, Attached, Committed
  <2>3. Paged' BY <1>6 DEF Paged
  <2>4. Owed'
    <3>1. \A n : Got(n)' <=> Got(n) BY <1>1, <1>6, Frames
    <3>2. \A n \in 1 .. mark : n \in 1 .. cursor BY <1>2, <1>3
    <3>3. \A n : ~In(n, page) BY <1>6, Empty
    <3>4. QED BY <1>1, <1>3, <1>6, <3>1, <3>2, <3>3 DEF Owed
  <2>5. Ahead' BY <1>1, <1>4, <1>6 DEF Ahead, Durable
  <2>6. Wired' BY <1>1, <1>6, WiredKept DEF IInv
  <2>7. QED BY <1>1, <1>5, <2>1, <2>2, <2>3, <2>4, <2>5, <2>6 DEF IInv
<1>7. ASSUME page # <<>>, page' = Tail(page), NEW e, e = Head(page)
      PROVE  /\ e = page[1] /\ e \in Events /\ e \in Int /\ 1 \in DOMAIN page /\ e <= last
             /\ page' \in Seq(Events) /\ Rising(page') /\ Precedes(page', queue) /\ Precedes(page', due)
             /\ \A i \in DOMAIN page' : \E j \in DOMAIN page : page'[i] = page[j]
             /\ \A i \in DOMAIN page' : Durable(page'[i]) => e < page'[i]
             /\ \A n : In(n, page) <=> n = e \/ In(n, page')
  <2>1. /\ e = page[1] /\ e \in Events /\ 1 \in DOMAIN page
        /\ page' \in Seq(Events) /\ DOMAIN page' = 1 .. Len(page) - 1
        /\ \A i \in 1 .. Len(page) - 1 : i + 1 \in DOMAIN page /\ page'[i] = page[i + 1]
        /\ \A n : In(n, page) <=> n = e \/ In(n, page')
    BY <1>2, <1>7, Tailed
  <2>2. e \in Int /\ e <= last BY <1>2, <2>1 DEF IInv, Committed
  <2>3. Rising(page') /\ \A i \in DOMAIN page' : Durable(page'[i]) => e < page'[i]
    BY <1>2, <1>3, <1>7, <2>1, RisingKept
  <2>4. Precedes(page', queue) BY <1>2, <1>3, <1>7, PrecedesKept
  <2>5. Precedes(page', due) BY <1>2, <1>3, <1>7, PrecedesKept
  <2>6. \A i \in DOMAIN page' : \E j \in DOMAIN page : page'[i] = page[j] BY <2>1
  <2>7. QED BY <2>1, <2>2, <2>3, <2>4, <2>5, <2>6
<1>8. CASE /\ page # <<>> /\ (~Durable(Head(page)) \/ Head(page) <= mark)
           /\ page' = Tail(page) /\ UNCHANGED <<stream, cursor, wire>>
  <2>1. SUFFICES ASSUME NEW e, e = Head(page) PROVE IInv'
    OBVIOUS
  <2>2. /\ e \in Int /\ page' \in Seq(Events)
        /\ Rising(page') /\ Precedes(page', queue) /\ Precedes(page', due)
        /\ \A i \in DOMAIN page' : \E j \in DOMAIN page : page'[i] = page[j]
        /\ \A n : In(n, page) <=> n = e \/ In(n, page')
    BY <1>7, <1>8, <2>1
  <2>3. e <= mark BY <1>2, <1>8, <2>1, <2>2 DEF Durable
  <2>4. TypeOK' BY <1>1, <1>8, <2>2 DEF IInv, TypeOK
  <2>5. OrderVerified' /\ Attached' BY <1>1, <1>8 DEF IInv, OrderVerified, Attached
  <2>6. Committed' BY <1>1, <1>8, <2>2 DEF IInv, Committed
  <2>7. Paged'
    <3>1. \A i \in DOMAIN page' : page'[i] > mark => page'[i] > cursor BY <1>3, <2>2
    <3>2. QED BY <1>1, <1>8, <2>2, <3>1 DEF Paged
  <2>8. Owed'
    <3>1. \A n : Got(n)' <=> Got(n) BY <1>1, <1>8, Frames
    <3>2. \A n \in mark + 1 .. last : n # e BY <1>2, <2>2, <2>3
    <3>3. \A n \in mark + 1 .. last : Got(n) \/ In(n, page') \/ In(n, queue) \/ In(n, due)
      BY <1>3, <2>2, <3>2
    <3>4. QED BY <1>1, <1>3, <1>8, <3>1, <3>3 DEF Owed
  <2>9. Ahead' BY <1>1, <1>4, <1>8 DEF Ahead, Durable
  <2>10. Wired' BY <1>1, <1>8, WiredKept DEF IInv
  <2>11. QED BY <1>1, <1>5, <2>4, <2>5, <2>6, <2>7, <2>8, <2>9, <2>10 DEF IInv
<1>9. CASE /\ page # <<>> /\ Durable(Head(page)) /\ Head(page) > mark
           /\ IF Head(page) <= cursor
                THEN stream' = "invalid" /\ UNCHANGED <<cursor, page, wire>>
                ELSE /\ Yield(Head(page))
                     /\ cursor' = Head(page) /\ page' = Tail(page)
                     /\ UNCHANGED stream
  <2>1. SUFFICES ASSUME NEW e, e = Head(page) PROVE IInv'
    OBVIOUS
  <2>2. e = page[1] /\ 1 \in DOMAIN page BY <1>2, <1>9, <2>1, Tailed
  <2>3. e > mark /\ e > cursor /\ ~(Head(page) <= cursor)
    <3>1. e > mark /\ e > cursor BY <1>3, <1>9, <2>1, <2>2
    <3>2. QED BY <1>2, <2>1, <2>2, <3>1
  <2>4. /\ Len(wire) < WireSize /\ wire' = Append(wire, e)
        /\ cursor' = e /\ page' = Tail(page) /\ stream' = stream
    BY <1>9, <2>1, <2>3 DEF Yield
  <2>5. /\ e = page[1] /\ e \in Events /\ e \in Int /\ 1 \in DOMAIN page /\ e <= last
        /\ page' \in Seq(Events) /\ Rising(page') /\ Precedes(page', queue) /\ Precedes(page', due)
        /\ \A i \in DOMAIN page' : \E j \in DOMAIN page : page'[i] = page[j]
        /\ \A i \in DOMAIN page' : Durable(page'[i]) => e < page'[i]
        /\ \A n : In(n, page) <=> n = e \/ In(n, page')
    BY <1>7, <1>9, <2>1, <2>4
  <2>6. /\ wire' \in Seq(Events) /\ Len(wire') = Len(wire) + 1
        /\ DOMAIN wire' = 1 .. Len(wire) + 1 /\ DOMAIN wire = 1 .. Len(wire) /\ Len(wire) \in Nat
        /\ \A i \in DOMAIN wire : wire'[i] = wire[i]
        /\ wire'[Len(wire) + 1] = e
        /\ \A n : In(n, wire') <=> In(n, wire) \/ n = e
    <3>1. DOMAIN wire = 1 .. Len(wire) /\ Len(wire) \in Nat BY <1>2
    <3>2. QED BY <1>2, <2>4, <2>5, <3>1, Appended
  <2>7. \A i \in DOMAIN wire' : wire'[i] = e \/ (i \in DOMAIN wire /\ wire'[i] = wire[i])
    BY <2>6
  <2>8. /\ \A i \in DOMAIN queue : Durable(queue[i]) => e < queue[i]
        /\ \A i \in DOMAIN due : e < due[i]
    BY <1>2, <1>3, <2>5 DEF Precedes, Durable
  <2>9. \A n : Got(n) \/ n = e => Got(n)' BY <1>1, <2>6, Frames DEF Got
  <2>10. ASSUME NEW n \in 1 .. e - 1 PROVE Got(n)
    <3>1. n \in Nat /\ n < e /\ 0 < n BY <2>5
    <3>2. CASE n <= cursor BY <1>2, <1>3, <3>1, <3>2
    <3>3. CASE ~(n <= cursor)
      <4>1. n \in mark + 1 .. last BY <1>2, <1>3, <2>5, <3>1, <3>3
      <4>2. ~In(n, queue) BY <1>2, <2>5, <2>8, <3>1 DEF In, Durable
      <4>3. ~In(n, due) BY <1>2, <2>5, <2>8, <3>1 DEF In
      <4>4. ~In(n, page')
        <5>1. ASSUME NEW i \in DOMAIN page', page'[i] = n PROVE FALSE
          BY <2>5, <3>1, <5>1 DEF Durable
        <5>2. QED BY <5>1 DEF In
      <4>5. QED BY <1>3, <2>5, <3>1, <4>1, <4>2, <4>3, <4>4
    <3>4. QED BY <3>2, <3>3
  <2>11. TypeOK'
    <3>1. cursor' \in 0 .. last BY <1>2, <2>3, <2>4, <2>5
    <3>2. Len(wire') <= WireSize BY <1>2, <2>4, <2>6
    <3>3. QED BY <1>1, <2>4, <2>5, <2>6, <3>1, <3>2 DEF IInv, TypeOK
  <2>12. OrderVerified' /\ Attached' BY <1>1, <2>4 DEF IInv, OrderVerified, Attached
  <2>13. Committed' BY <1>1, <2>5, <2>7 DEF IInv, Committed
  <2>14. Paged'
    <3>1. \A i \in DOMAIN page' : page'[i] > mark => page'[i] > e
      <4>1. ASSUME NEW i \in DOMAIN page', page'[i] > mark PROVE page'[i] > e
        <5>1. page'[i] \in Int BY <1>2, <2>5
        <5>2. Durable(page'[i]) BY <1>2, <4>1, <5>1 DEF Durable
        <5>3. QED BY <2>5, <5>1, <5>2
      <4>2. QED BY <4>1
    <3>2. QED BY <1>1, <2>4, <2>5, <3>1 DEF Paged
  <2>15. Owed'
    <3>1. Position' <= cursor' /\ mark' <= cursor' BY <1>1, <1>2, <1>3, <2>3, <2>4, <2>5
    <3>2. ASSUME NEW i \in DOMAIN wire' PROVE wire'[i] <= cursor'
      <4>1. CASE wire'[i] = e BY <2>4, <2>5, <4>1
      <4>2. CASE i \in DOMAIN wire /\ wire'[i] = wire[i]
        <5>1. wire[i] \in Int /\ wire[i] <= cursor BY <1>2, <1>3, <4>2
        <5>2. QED BY <1>2, <2>3, <2>4, <2>5, <4>2, <5>1
      <4>3. QED BY <2>7, <4>1, <4>2
    <3>3. \A n \in 1 .. e : n = e \/ n \in 1 .. e - 1 BY <2>5
    <3>4. \A n \in 1 .. cursor' : Got(n)' BY <2>4, <2>9, <2>10, <3>3
    <3>5. \A n \in mark + 1 .. last : Got(n)' \/ In(n, page') \/ In(n, queue) \/ In(n, due)
      BY <1>3, <2>5, <2>9
    <3>6. QED BY <1>1, <2>4, <3>1, <3>2, <3>4, <3>5 DEF Owed
  <2>16. Ahead'
    <3>1. ASSUME NEW k \in DOMAIN wire', wire'[k] > mark
          PROVE  /\ \A i \in DOMAIN queue : Durable(queue[i]) => wire'[k] < queue[i]
                 /\ \A i \in DOMAIN due : wire'[k] < due[i]
      BY <1>4, <2>7, <2>8, <3>1
    <3>2. QED BY <1>1, <1>4, <3>1 DEF Ahead, Durable
  <2>17. Wired'
    <3>1. Position < e /\ \A k \in DOMAIN wire : wire[k] < e BY <1>2, <1>3, <2>3, <2>5
    <3>2. QED BY <1>1, <2>4, <2>5, <2>10, <3>1, SentKeeps DEF IInv
  <2>18. QED BY <1>1, <1>5, <2>11, <2>12, <2>13, <2>14, <2>15, <2>16, <2>17 DEF IInv
<1>10. QED BY <1>6, <1>8, <1>9 DEF YieldBuffered

\* The live tail is sent as it was announced.
LEMMA YieldLiveKeeps ==
  ASSUME IInv, YieldLive
  PROVE  IInv'
<1>1. /\ UNCHANGED <<last, silent, due, transients, link, attempt, applied, breaks,
                     stream, closed, mark, cursor, page>>
      /\ Position' = Position /\ Notices' /\ Timeline' /\ Events' = Events
      /\ stream = "live" /\ ~closed /\ queue # <<>>
      /\ Len(wire) < WireSize /\ wire' = Append(wire, Head(queue)) /\ queue' = Tail(queue)
  BY GeneratorLeaves DEF YieldLive, Yield
<1>2. SUFFICES ASSUME NEW e, e = Head(queue) PROVE IInv'
  OBVIOUS
<1>3. /\ last \in Nat /\ mark \in Nat /\ mark <= last /\ WireSize \in Nat
      /\ queue \in Seq(Events) /\ queue \in Seq(Int) /\ \A i \in DOMAIN queue : queue[i] \in Int
      /\ wire \in Seq(Events) /\ \A i \in DOMAIN wire : wire[i] \in Int
      /\ due \in Seq(Int) /\ \A i \in DOMAIN due : due[i] \in Int /\ 0 < due[i]
      /\ Position \in Nat /\ Len(queue) <= MaxPending /\ MaxPending \in Nat
  BY Shapes, Constants, Positions DEF IInv, Timeline, TypeOK
<1>4. /\ \A n \in 1 .. mark : Got(n)
      /\ \A n \in mark + 1 .. last : Got(n) \/ In(n, queue) \/ In(n, due)
      /\ Position > mark => \A i \in DOMAIN queue : Durable(queue[i]) => Position < queue[i]
      /\ Position > mark => \A i \in DOMAIN due : Position < due[i]
      /\ \A k \in DOMAIN wire : wire[k] > mark =>
            /\ \A i \in DOMAIN queue : Durable(queue[i]) => wire[k] < queue[i]
            /\ \A i \in DOMAIN due : wire[k] < due[i]
      /\ \A i \in DOMAIN queue : Durable(queue[i]) => mark - queue[i] < MaxInFlight
  BY <1>1 DEF IInv, Owed, Ahead
<1>5. /\ e = queue[1] /\ e \in Events /\ 1 \in DOMAIN queue /\ Len(queue) \in Nat \ {0}
      /\ queue' \in Seq(Events) /\ Len(queue') = Len(queue) - 1 /\ DOMAIN queue' = 1 .. Len(queue) - 1
      /\ \A i \in 1 .. Len(queue) - 1 : i + 1 \in DOMAIN queue /\ queue'[i] = queue[i + 1]
      /\ \A n : In(n, queue) <=> n = e \/ In(n, queue')
  BY <1>1, <1>2, <1>3, Tailed
<1>6. \A i \in DOMAIN queue' : \E j \in DOMAIN queue : queue'[i] = queue[j] BY <1>5
<1>7. e \in Int /\ e <= last /\ e \notin silent BY <1>3, <1>5 DEF IInv, Committed, Queued
<1>8. /\ Rising(queue') /\ Precedes(queue', due)
      /\ \A i \in DOMAIN queue' : Durable(queue'[i]) => e < queue'[i]
      /\ \A i \in DOMAIN due : e < due[i]
  <2>1. Rising(queue') /\ \A i \in DOMAIN queue' : Durable(queue'[i]) => e < queue'[i]
    BY <1>1, <1>3, <1>5, RisingKept DEF IInv, Queued
  <2>2. Precedes(queue', due) BY <1>1, <1>3, PrecedesKept DEF IInv, Queued
  <2>3. \A i \in DOMAIN due : e < due[i] BY <1>3, <1>5 DEF IInv, Queued, Precedes, Durable
  <2>4. QED BY <2>1, <2>2, <2>3
<1>9. wire' = Append(wire, e) BY <1>1, <1>2
<1>10. /\ wire' \in Seq(Events) /\ Len(wire') = Len(wire) + 1
       /\ DOMAIN wire' = 1 .. Len(wire) + 1 /\ DOMAIN wire = 1 .. Len(wire) /\ Len(wire) \in Nat
       /\ \A i \in DOMAIN wire : wire'[i] = wire[i]
       /\ wire'[Len(wire) + 1] = e
       /\ \A n : In(n, wire') <=> In(n, wire) \/ n = e
  <2>1. DOMAIN wire = 1 .. Len(wire) /\ Len(wire) \in Nat BY <1>3
  <2>2. QED BY <1>3, <1>5, <1>9, <2>1, Appended
<1>11. \A i \in DOMAIN wire' : wire'[i] = e \/ (i \in DOMAIN wire /\ wire'[i] = wire[i])
  BY <1>10
<1>12. TypeOK'
  <2>1. Len(wire') <= WireSize BY <1>1, <1>3, <1>10
  <2>2. Len(queue') <= MaxPending BY <1>3, <1>5
  <2>3. QED BY <1>1, <1>5, <1>10, <2>1, <2>2 DEF IInv, TypeOK
<1>13. OrderVerified' /\ Attached' BY <1>1 DEF IInv, OrderVerified, Attached
<1>14. Committed' BY <1>1, <1>6, <1>7, <1>11 DEF IInv, Committed
<1>15. Queued'
  <2>1. \A i \in DOMAIN queue' : queue'[i] \notin silent BY <1>6 DEF IInv, Queued
  <2>2. QED BY <1>1, <1>8, <2>1 DEF Queued
<1>16. Paged' BY <1>1 DEF Paged
<1>17. Owed'
  <2>1. \A n : Got(n) \/ n = e => Got(n)' BY <1>1, <1>10, Frames DEF Got
  <2>2. \A n \in mark + 1 .. last : Got(n)' \/ In(n, queue') \/ In(n, due) BY <1>4, <1>5, <2>1
  <2>3. QED BY <1>1, <1>4, <2>1, <2>2 DEF Owed
<1>18. Ahead'
  <2>1. Position > mark => \A i \in DOMAIN queue' : Durable(queue'[i]) => Position < queue'[i]
    BY <1>4, <1>6
  <2>2. ASSUME NEW k \in DOMAIN wire', wire'[k] > mark
        PROVE  /\ \A i \in DOMAIN queue' : Durable(queue'[i]) => wire'[k] < queue'[i]
               /\ \A i \in DOMAIN due : wire'[k] < due[i]
    BY <1>4, <1>6, <1>8, <1>11, <2>2
  <2>3. \A i \in DOMAIN queue' : Durable(queue'[i]) => mark - queue'[i] < MaxInFlight
    BY <1>4, <1>6
  <2>4. QED BY <1>1, <1>4, <2>1, <2>2, <2>3 DEF Ahead, Durable
<1>19. Wired'
  <2>1. ASSUME Durable(e)
        PROVE  /\ \A n \in 1 .. e - 1 : Got(n)
               /\ \/ /\ Position < e
                     /\ \A k \in DOMAIN wire : wire[k] < e
                  \/ /\ mark - e < MaxInFlight /\ Position <= mark
                     /\ \A k \in DOMAIN wire : wire[k] <= mark
                     /\ In(e, applied) \/ In(e, wire)
    <3>1. Position > mark => Position < e BY <1>4, <1>5, <2>1
    <3>2. ASSUME NEW k \in DOMAIN wire
          PROVE  wire[k] \in Int /\ (wire[k] > mark => wire[k] < e)
      BY <1>3, <1>4, <1>5, <2>1
    <3>3. CASE e > mark
      <4>1. Position < e BY <1>3, <1>7, <3>1, <3>3
      <4>2. \A k \in DOMAIN wire : wire[k] < e BY <1>3, <1>7, <3>2, <3>3
      <4>3. ASSUME NEW n \in 1 .. e - 1 PROVE Got(n)
        <5>1. n \in Nat /\ 0 < n /\ n < e BY <1>7
        <5>2. CASE n <= mark BY <1>3, <1>4, <5>1, <5>2
        <5>3. CASE ~(n <= mark)
          <6>1. n \in mark + 1 .. last BY <1>3, <1>7, <5>1, <5>3
          <6>2. ~In(n, due) BY <1>3, <1>7, <1>8, <5>1 DEF In
          <6>3. ~In(n, queue')
            <7>1. ASSUME NEW i \in DOMAIN queue', queue'[i] = n PROVE FALSE
              BY <1>7, <1>8, <5>1, <7>1 DEF Durable
            <7>2. QED BY <7>1 DEF In
          <6>4. QED BY <1>4, <1>5, <1>7, <5>1, <6>1, <6>2, <6>3
        <5>4. QED BY <5>2, <5>3
      <4>4. QED BY <4>1, <4>2, <4>3
    <3>4. CASE ~(e > mark)
      <4>1. mark - e < MaxInFlight BY <1>4, <1>5, <2>1
      <4>2. Position <= mark BY <1>3, <1>7, <3>1, <3>4
      <4>3. \A k \in DOMAIN wire : wire[k] <= mark BY <1>3, <1>7, <3>2, <3>4
      <4>4. e \in 1 .. mark BY <1>3, <1>7, <2>1, <3>4 DEF Durable
      <4>5. In(e, applied) \/ In(e, wire) BY <1>4, <1>7, <4>4 DEF Got
      <4>6. \A n \in 1 .. e - 1 : n \in 1 .. mark BY <1>3, <1>7, <4>4
      <4>7. QED BY <1>4, <4>1, <4>2, <4>3, <4>5, <4>6
    <3>5. QED BY <3>3, <3>4
  <2>2. QED BY <1>1, <1>5, <1>9, <2>1, SentKeeps DEF IInv
<1>20. QED BY <1>1, <1>12, <1>13, <1>14, <1>15, <1>16, <1>17, <1>18, <1>19 DEF IInv

\* The first event on the wire is read: it is applied, being newer than the
\* timeline, or it adds nothing.
LEMMA ReadKeeps ==
  ASSUME IInv, wire # <<>>, NEW e, e = Head(wire), wire' = Tail(wire),
         UNCHANGED <<last, silent, due, transients, breaks, stream, closed, queue, mark, cursor,
                     page, link, attempt>>,
         \/ applied' = applied /\ (~Durable(e) \/ In(e, applied))
         \/ applied' = Append(applied, e) /\ Durable(e) /\ Position < e
  PROVE  IInv'
<1>1. /\ last \in Nat /\ mark \in Nat /\ cursor \in Nat
      /\ applied \in Seq(1 .. last) /\ applied \in Seq(Int)
      /\ \A i \in DOMAIN applied : applied[i] \in Int
      /\ wire \in Seq(Events) /\ \A i \in DOMAIN wire : wire[i] \in Int
      /\ Position \in Nat /\ Gaps(applied)
      /\ Len(wire) <= WireSize /\ WireSize \in Nat
  BY Shapes, Constants, Positions DEF IInv, Timeline, TypeOK
<1>2. /\ e = wire[1] /\ 1 \in DOMAIN wire /\ Len(wire) \in Nat \ {0}
      /\ wire' \in Seq(Events) /\ Len(wire') = Len(wire) - 1
      /\ DOMAIN wire = 1 .. Len(wire) /\ DOMAIN wire' = 1 .. Len(wire) - 1
      /\ \A i \in 1 .. Len(wire) - 1 : i + 1 \in DOMAIN wire /\ wire'[i] = wire[i + 1]
      /\ \A n : In(n, wire) <=> n = e \/ In(n, wire')
  BY <1>1, Tailed
<1>3. e \in Int /\ e <= last BY <1>1, <1>2 DEF IInv, Committed
<1>4. \A i \in DOMAIN wire' : \E j \in DOMAIN wire : wire'[i] = wire[j] BY <1>2
<1>5. Durable(e) => \A n \in 1 .. e - 1 : n \in silent \/ In(n, applied)
  <2>1. \A j \in DOMAIN wire : ~(j < 1) BY <1>2
  <2>2. QED BY <1>2, <2>1 DEF IInv, Wired, Complete
<1>6. /\ applied' \in Seq(1 .. last) /\ Gaps(applied')
      /\ \A n : In(n, applied) => In(n, applied')
      /\ Durable(e) => In(e, applied')
      /\ Position' = Position \/ (Position' = e /\ Durable(e) /\ Position < e)
      /\ Durable(e) => e <= Position'
  <2>1. CASE applied' = applied /\ (~Durable(e) \/ In(e, applied))
    <3>1. Position' = Position BY <2>1, Frames
    <3>2. In(e, applied) => e <= Position BY <1>1, Positions DEF IInv, In
    <3>3. QED BY <1>1, <2>1, <3>1, <3>2
  <2>2. CASE applied' = Append(applied, e) /\ Durable(e) /\ Position < e
    <3>1. e \in 1 .. last BY <1>1, <1>3, <2>2 DEF Durable
    <3>2. /\ applied' \in Seq(1 .. last) /\ applied' # <<>> /\ Len(applied') = Len(applied) + 1
          /\ applied'[Len(applied) + 1] = e
          /\ \A n : In(n, applied') <=> In(n, applied) \/ n = e
      BY <1>1, <2>2, <3>1, Appended
    <3>3. Position' = e
      <4>1. Position' = Newest(applied') BY DEF Position, Newest
      <4>2. QED BY <3>2, <4>1 DEF Newest
    <3>4. applied # <<>> => applied[Len(applied)] < e
      BY <2>2 DEF Position, Newest
    <3>5. Gaps(applied') BY <1>1, <1>3, <2>2, <3>4, GapsKept
    <3>6. QED BY <1>3, <2>2, <3>2, <3>3, <3>5
  <2>3. QED BY <2>1, <2>2
<1>7. \A n : Got(n) /\ n > 0 => Got(n)'
  <2>1. \A n : n > 0 /\ n = e => Durable(e) BY DEF Durable
  <2>2. QED BY <1>2, <1>6, <2>1, Frames DEF Got
<1>8. TypeOK'
  <2>1. Len(wire') <= WireSize BY <1>1, <1>2
  <2>2. Events' = Events BY DEF Events
  <2>3. QED BY <1>2, <1>6, <2>1, <2>2 DEF IInv, TypeOK
<1>9. OrderVerified' /\ Notices' BY DEF IInv, OrderVerified, Notices, Gaps
<1>10. stream \notin {"none", "opening"} BY <1>2, Empty DEF IInv, Attached
<1>11. Attached' BY <1>10 DEF IInv, Attached
<1>12. Committed' BY <1>4 DEF IInv, Committed
<1>13. Timeline'
  <2>1. \A n \in 1 .. Position : n \in silent \/ In(n, applied)
    BY <1>1, ContainsIsIn DEF IInv, Timeline, MissesOnlySilent
  <2>2. ASSUME NEW n \in 1 .. Position' PROVE n \in silent \/ In(n, applied')
    <3>1. CASE Position' = Position BY <1>6, <2>1, <2>2, <3>1
    <3>2. CASE Position' = e /\ Durable(e)
      <4>1. n = e \/ n \in 1 .. e - 1 BY <1>3, <2>2, <3>2
      <4>2. QED BY <1>5, <1>6, <3>2, <4>1
    <3>3. QED BY <1>6, <3>1, <3>2
  <2>3. MissesOnlySilent' BY <1>6, <2>2, ContainsIsIn DEF MissesOnlySilent
  <2>4. QED BY <1>6, <2>3 DEF Timeline
<1>14. Queued' /\ Paged'
  BY DEF IInv, Queued, Paged, Rising, Precedes, Durable
<1>15. Owed'
  <2>1. CASE ~closed /\ stream \in {"replay", "buffered"}
    <3>1. /\ Position <= cursor /\ \A i \in DOMAIN wire : wire[i] <= cursor
          /\ \A n \in 1 .. cursor : Got(n)
      BY <2>1 DEF IInv, Owed
    <3>2. Position' <= cursor' BY <1>2, <1>6, <3>1
    <3>3. \A i \in DOMAIN wire' : wire'[i] <= cursor' BY <1>4, <3>1
    <3>4. \A n \in 1 .. cursor : n > 0 BY <1>1
    <3>5. \A n \in 1 .. cursor' : Got(n)' BY <1>7, <3>1, <3>4
    <3>6. \A n \in mark + 1 .. last : n > 0 BY <1>1
    <3>7. QED BY <1>7, <2>1, <3>2, <3>3, <3>5, <3>6 DEF IInv, Owed, In
  <2>2. CASE ~closed /\ stream = "live"
    <3>1. /\ \A n \in 1 .. mark : Got(n)
          /\ \A n \in mark + 1 .. last : Got(n) \/ In(n, queue) \/ In(n, due)
      BY <2>2 DEF IInv, Owed
    <3>2. \A n \in 1 .. mark : n > 0 BY <1>1
    <3>3. \A n \in mark + 1 .. last : n > 0 BY <1>1
    <3>4. /\ \A n \in 1 .. mark : Got(n)'
          /\ \A n \in mark + 1 .. last : Got(n)' \/ In(n, queue) \/ In(n, due)
      BY <1>7, <3>1, <3>2, <3>3
    <3>5. QED BY <2>2, <3>4 DEF Owed, In
  <2>3. CASE closed \/ stream \notin {"opening", "replay", "buffered", "live"}
    BY <2>3 DEF Owed
  <2>4. QED BY <1>10, <2>1, <2>2, <2>3
<1>16. Ahead'
  <2>1. CASE ~closed /\ stream \in {"buffered", "live"}
    <3>1. /\ Position > mark => \A i \in DOMAIN queue : Durable(queue[i]) => Position < queue[i]
          /\ Position > mark => \A i \in DOMAIN due : Position < due[i]
          /\ \A k \in DOMAIN wire : wire[k] > mark =>
                /\ \A i \in DOMAIN queue : Durable(queue[i]) => wire[k] < queue[i]
                /\ \A i \in DOMAIN due : wire[k] < due[i]
          /\ \A i \in DOMAIN queue : Durable(queue[i]) => mark - queue[i] < MaxInFlight
      BY <2>1 DEF IInv, Ahead
    <3>2. Position' > mark => /\ \A i \in DOMAIN queue : Durable(queue[i]) => Position' < queue[i]
                              /\ \A i \in DOMAIN due : Position' < due[i]
      BY <1>2, <1>6, <3>1
    <3>3. ASSUME NEW k \in DOMAIN wire', wire'[k] > mark
          PROVE  /\ \A i \in DOMAIN queue : Durable(queue[i]) => wire'[k] < queue[i]
                 /\ \A i \in DOMAIN due : wire'[k] < due[i]
      BY <1>4, <3>1, <3>3
    <3>4. QED BY <3>1, <3>2, <3>3 DEF Ahead, Durable
  <2>2. CASE closed \/ stream \notin {"buffered", "live"} BY <2>2 DEF Ahead
  <2>3. QED BY <2>1, <2>2
<1>17. Wired'
  <2>1. ASSUME NEW i \in DOMAIN wire', Durable(wire'[i])
        PROVE  Complete(i)' /\ (Fresh(i)' \/ Repeat(i)')
    <3>1. /\ i \in Nat /\ i + 1 \in DOMAIN wire /\ wire'[i] = wire[i + 1] /\ Durable(wire[i + 1])
          /\ wire[i + 1] \in Int
      BY <1>1, <1>2, <2>1 DEF Durable
    <3>2. Complete(i + 1) /\ (Fresh(i + 1) \/ Repeat(i + 1)) BY <3>1 DEF IInv, Wired
    <3>3. \A j \in DOMAIN wire' : j < i => j + 1 \in DOMAIN wire /\ j + 1 < i + 1 /\ wire'[j] = wire[j + 1]
      BY <1>2, <3>1
    <3>4. 1 < i + 1 BY <1>2, <2>1
    <3>5. ASSUME NEW n \in Int, 0 < n, NEW j \in DOMAIN wire, j < i + 1, wire[j] = n
          PROVE  In(n, applied') \/ \E k \in DOMAIN wire' : k < i /\ wire'[k] = n
      <4>1. CASE j = 1 BY <1>2, <1>6, <3>5, <4>1 DEF Durable
      <4>2. CASE j # 1
        <5>1. j - 1 \in DOMAIN wire' /\ j - 1 < i /\ wire'[j - 1] = wire[(j - 1) + 1]
              /\ (j - 1) + 1 = j
          BY <1>2, <3>1, <3>5, <4>2
        <5>2. QED BY <3>5, <5>1
      <4>3. QED BY <4>1, <4>2
    <3>6. Complete(i)'
      <4>1. ASSUME NEW n \in 1 .. wire'[i] - 1
            PROVE  n \in silent \/ In(n, applied') \/ \E k \in DOMAIN wire' : k < i /\ wire'[k] = n
        <5>1. n \in 1 .. wire[i + 1] - 1 /\ n \in Int /\ 0 < n BY <3>1, <4>1
        <5>2. n \in silent \/ In(n, applied) \/ \E j \in DOMAIN wire : j < i + 1 /\ wire[j] = n
          BY <3>2, <5>1 DEF Complete
        <5>3. QED BY <1>6, <3>5, <5>1, <5>2
      <4>2. QED BY <4>1 DEF Complete, In
    <3>7. ASSUME Fresh(i + 1) PROVE Fresh(i)'
      <4>1. Position < wire[i + 1] /\ e < wire[i + 1] BY <1>2, <3>4, <3>7 DEF Fresh
      <4>2. Position' < wire'[i] BY <1>6, <3>1, <4>1
      <4>3. \A j \in DOMAIN wire' : j < i => wire'[j] < wire'[i] BY <3>1, <3>3, <3>7 DEF Fresh
      <4>4. QED BY <4>2, <4>3 DEF Fresh
    <3>8. ASSUME Repeat(i + 1) PROVE Repeat(i)'
      <4>1. /\ mark - wire[i + 1] < MaxInFlight /\ Position <= mark /\ e <= mark
            /\ In(wire[i + 1], applied) \/ \E j \in DOMAIN wire : j < i + 1 /\ wire[j] = wire[i + 1]
        BY <1>2, <3>4, <3>8 DEF Repeat
      <4>2. Position' <= mark BY <1>6, <4>1
      <4>3. \A j \in DOMAIN wire' : j < i => wire'[j] <= mark BY <3>3, <3>8 DEF Repeat
      <4>4. In(wire'[i], applied') \/ \E k \in DOMAIN wire' : k < i /\ wire'[k] = wire'[i]
        <5>1. 0 < wire[i + 1] BY <3>1 DEF Durable
        <5>2. QED BY <1>6, <3>1, <3>5, <4>1, <5>1
      <4>5. QED BY <3>1, <4>1, <4>2, <4>3, <4>4 DEF Repeat, In
    <3>9. QED BY <3>2, <3>6, <3>7, <3>8
  <2>2. QED BY <2>1 DEF Wired, Durable
<1>18. QED BY <1>8, <1>9, <1>11, <1>12, <1>13, <1>14, <1>15, <1>16, <1>17 DEF IInv

\* An event that the timeline does not remember is newer than all it applied,
\* and what it jumps over was never announced.
LEMMA NewIsNext ==
  ASSUME IInv, wire # <<>>, Durable(Head(wire)), Head(wire) \notin Seen
  PROVE  /\ Head(wire) \in 1 .. last /\ Position < Head(wire)
         /\ \A n \in Position + 1 .. Head(wire) - 1 : n \in silent
<1>1. SUFFICES ASSUME NEW e, e = Head(wire)
               PROVE  /\ e \in 1 .. last /\ Position < e
                      /\ \A n \in Position + 1 .. e - 1 : n \in silent
  OBVIOUS
<1>2. /\ last \in Nat /\ mark \in Nat
      /\ MaxSeen \in Nat \ {0} /\ MaxInFlight \in Nat /\ MaxInFlight <= MaxSeen
      /\ applied \in Seq(Int) /\ DOMAIN applied = 1 .. Len(applied) /\ Len(applied) \in Nat
      /\ \A i \in DOMAIN applied : applied[i] \in Int /\ applied[i] <= Position
      /\ applied # <<>> => Position = applied[Len(applied)] /\ Len(applied) \in DOMAIN applied
      /\ wire \in Seq(Events) /\ \A i \in DOMAIN wire : wire[i] \in Int
      /\ Position \in Nat /\ Gaps(applied)
  BY Shapes, Constants, Positions DEF IInv, Timeline
<1>3. e = wire[1] /\ 1 \in DOMAIN wire /\ \A j \in DOMAIN wire : ~(j < 1)
  BY <1>1, <1>2, Tailed
<1>4. e \in 1 .. last
  <2>1. e \in Int /\ e <= last BY <1>2, <1>3 DEF IInv, Committed
  <2>2. QED BY <1>1, <1>2, <2>1 DEF Durable
<1>5. Complete(1) /\ (Fresh(1) \/ Repeat(1)) BY <1>1, <1>3 DEF IInv, Wired
<1>6. Position < e
  <2>1. CASE Fresh(1) BY <1>3, <2>1 DEF Fresh
  <2>2. CASE Repeat(1)
    <3>1. mark - e < MaxInFlight /\ Position <= mark /\ In(e, applied)
      BY <1>3, <2>2 DEF Repeat
    <3>2. PICK k \in DOMAIN applied : applied[k] = e BY <3>1 DEF In
    <3>3. ~(k > Len(applied) - MaxSeen) BY <1>1, <3>2 DEF Seen
    <3>4. applied # <<>> BY <3>2, Empty
    <3>5. applied[Len(applied)] - applied[k] >= Len(applied) - k
      BY <1>2, <3>2, <3>4 DEF Gaps
    <3>6. QED BY <1>2, <1>4, <3>1, <3>2, <3>3, <3>4, <3>5
  <2>3. QED BY <1>5, <2>1, <2>2
<1>7. ASSUME NEW n \in Position + 1 .. e - 1 PROVE n \in silent
  <2>1. n \in 1 .. e - 1 /\ n > Position BY <1>2, <1>4, <1>7
  <2>2. n \in silent \/ In(n, applied) BY <1>3, <1>5, <2>1 DEF Complete
  <2>3. ~In(n, applied) BY <1>2, <1>4, <2>1 DEF In
  <2>4. QED BY <2>2, <2>3
<1>8. QED BY <1>4, <1>6, <1>7

\* The timeline never finds its stream out of order.
LEMMA ReceiveKeeps ==
  ASSUME IInv, Receive
  PROVE  IInv' /\ (UNCHANGED applied \/ \E e \in 1 .. last : Feed!Apply(e))
<1>1. wire # <<>> /\ UNCHANGED <<last, silent, due, transients, breaks>>
  BY DEF Receive, writers
<1>2. SUFFICES ASSUME NEW e, e = Head(wire)
               PROVE  IInv' /\ (UNCHANGED applied \/ \E d \in 1 .. last : Feed!Apply(d))
  OBVIOUS
<1>3. CASE /\ ~Durable(e) \/ e \in Seen
           /\ wire' = Tail(wire) /\ UNCHANGED <<hub, link, attempt, applied>>
  <2>1. e \in Seen => In(e, applied) BY DEF Seen, In
  <2>2. UNCHANGED <<stream, closed, queue, mark, cursor, page, link, attempt, applied>>
    BY <1>3 DEF hub
  <2>3. IInv' BY <1>1, <1>2, <1>3, <2>1, <2>2, ReadKeeps
  <2>4. QED BY <2>2, <2>3
<1>4. ASSUME Durable(e), e \notin Seen
      PROVE  /\ e \in 1 .. last /\ Position < e /\ ~(e <= Position)
             /\ \A n \in Position + 1 .. e - 1 : n \in silent
  <2>1. /\ e \in 1 .. last /\ Position < e
        /\ \A n \in Position + 1 .. e - 1 : n \in silent
    BY <1>1, <1>2, <1>4, NewIsNext
  <2>2. last \in Nat /\ Position \in Nat BY Shapes, Positions DEF IInv, Timeline
  <2>3. QED BY <2>1, <2>2
<1>5. CASE /\ Durable(e) /\ e \notin Seen
           /\ wire' = Tail(wire) /\ applied' = Append(applied, e)
           /\ UNCHANGED <<hub, link, attempt>>
  <2>1. UNCHANGED <<stream, closed, queue, mark, cursor, page, link, attempt>> BY <1>5 DEF hub
  <2>2. IInv' BY <1>1, <1>2, <1>4, <1>5, <2>1, ReadKeeps
  <2>3. Position = Feed!Position BY DEF Position, Newest, Feed!Position
  <2>4. last \in Nat /\ Position \in Nat BY Shapes, Positions DEF IInv, Timeline
  <2>5. Feed!Apply(e) BY <1>1, <1>4, <1>5, <2>3, <2>4 DEF Feed!Apply
  <2>6. QED BY <1>4, <1>5, <2>2, <2>5
<1>6. QED BY <1>2, <1>3, <1>4, <1>5 DEF Receive
-----------------------------------------------------------------------------
(***************************************************************************)
(* The theorems.                                                           *)
(***************************************************************************)
\* Every step keeps the invariant.
LEMMA NextInv == IInv /\ [Next]_vars => IInv'
<1> SUFFICES ASSUME IInv, [Next]_vars PROVE IInv'
  OBVIOUS
<1>1. CASE UNCHANGED vars
  <2>1. UNCHANGED <<last, silent, due, transients, stream, closed, queue, mark, cursor, page, wire,
                    link, attempt, applied, breaks>>
    BY <1>1 DEF vars
  <2>2. Position' = Position /\ \A n : Got(n)' <=> Got(n) BY <2>1, Frames
  <2>3. TypeOK' /\ OrderVerified' BY <2>1 DEF IInv, TypeOK, OrderVerified, Events
  <2>4. Attached' /\ Committed' /\ Notices'
    BY <2>1 DEF IInv, Attached, Committed, Notices, Gaps
  <2>5. Timeline' BY <2>1, <2>2 DEF IInv, Timeline, MissesOnlySilent, Gaps
  <2>6. Queued' BY <2>1 DEF IInv, Queued, Rising, Precedes, Durable
  <2>7. Paged' BY <2>1 DEF IInv, Paged, Rising, Precedes, Durable
  <2>8. Owed' BY <2>1, <2>2 DEF IInv, Owed, In
  <2>9. Ahead' BY <2>1, <2>2 DEF IInv, Ahead, Durable
  <2>10. Wired' BY <2>1, WiredKept DEF IInv
  <2>11. QED BY <2>3, <2>4, <2>5, <2>6, <2>7, <2>8, <2>9, <2>10 DEF IInv
<1>2. CASE Commit BY <1>2, CommitKeeps
<1>3. CASE notifyCommitted \/ emitTransient BY <1>3, NoticeKeeps
<1>4. CASE watchEvents
  BY <1>4, ReadMarkKeeps, ReadPageKeeps, YieldReplayedKeeps, DrainKeeps, YieldBufferedKeeps,
     YieldLiveKeeps, ReturnKeeps DEF watchEvents
<1>5. CASE Receive BY <1>5, ReceiveKeeps
<1>6. CASE StreamEnds \/ Disconnect \/ Crash BY <1>6, BreaksKeep
<1>7. CASE Open BY <1>7, OpenKeeps
<1>8. CASE Reattach \/ OpenFails \/ manualRetry BY <1>8, LinkKeeps
<1>9. QED BY <1>1, <1>2, <1>3, <1>4, <1>5, <1>6, <1>7, <1>8 DEF Next, Consumer

\* IInv is an invariant.
LEMMA Invariance == Spec => []IInv
<1>1. QED BY InitInv, NextInv, PTL DEF Spec

\* Types, and the bounds: the subscriber's queue never holds more than
\* maxPendingItems, however slowly its client reads.
THEOREM TypeCorrectness == Spec => []TypeOK
<1>1. IInv => TypeOK BY DEF IInv
<1>2. QED BY <1>1, Invariance, PTL

\* However queues overflow, connections break and the daemon crashes, the
\* timeline passes over no event but one that was never announced.
THEOREM NothingMissed == Spec => []MissesOnlySilent
<1>1. IInv => MissesOnlySilent BY DEF IInv, Timeline
<1>2. QED BY <1>1, Invariance, PTL

\* Neither the hub's check of its own order nor the timeline's ever fails, as
\* long as the timeline remembers the events a late notification may repeat.
THEOREM InOrder == Spec => []OrderVerified
<1>1. IInv => OrderVerified BY DEF IInv
<1>2. QED BY <1>1, Invariance, PTL

\* RunEvents implements EventFeed: a commit is a commit, an event the timeline
\* applies is the next that was announced, every other step changes neither.
THEOREM Refinement == Spec => ImplementsFeed
<1>1. Init => Feed!Init BY DEF Init, Feed!Init
<1>2. IInv /\ [Next]_vars => [Feed!Next]_(Feed!vars)
  <2> SUFFICES ASSUME IInv, [Next]_vars PROVE [Feed!Next]_(Feed!vars)
    OBVIOUS
  <2>1. CASE Commit
    <3>1. Feed!Commit BY <2>1 DEF Commit, client, Feed!Commit
    <3>2. QED BY <3>1 DEF Feed!Next
  <2>2. CASE Receive
    <3>1. UNCHANGED <<last, silent>> BY <2>2 DEF Receive, writers
    <3>2. QED BY <2>2, <3>1, ReceiveKeeps DEF Feed!Next, Feed!vars
  <2>3. CASE UNCHANGED <<last, silent, applied>> BY <2>3 DEF Feed!vars
  <2>4. CASE UNCHANGED vars BY <2>3, <2>4 DEF vars
  <2>5. CASE notifyCommitted \/ emitTransient BY <2>3, <2>5 DEF notifyCommitted, emitTransient, client
  <2>6. CASE watchEvents
    BY <2>3, <2>6 DEF watchEvents, ReadMark, ReadPage, YieldReplayed, Drain, YieldBuffered,
       YieldLive, Return, UnchangedButHub, writers, client
  <2>7. CASE StreamEnds \/ Disconnect \/ Crash \/ Open \/ Reattach \/ OpenFails \/ manualRetry
    BY <2>3, <2>7 DEF StreamEnds, Disconnect, Crash, Open, Reattach, OpenFails, manualRetry, writers
  <2>8. QED BY <2>1, <2>2, <2>4, <2>5, <2>6, <2>7 DEF Next, Consumer
<1>3. QED BY <1>1, <1>2, Invariance, PTL DEF Spec, ImplementsFeed, Feed!Spec
=============================================================================
