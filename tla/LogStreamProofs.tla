--------------------------- MODULE LogStreamProofs ---------------------------
(***************************************************************************)
(* Proofs about LogStream, for any set of browsers, any number of lines    *)
(* and any number of requests under way.                                   *)
(***************************************************************************)
EXTENDS LogStream, SequenceTheorems, TLAPS

-----------------------------------------------------------------------------
(* Sequences of line numbers.                                               *)

Increasing(s) == \A i, j \in DOMAIN s : i < j => s[i] < s[j]
UpTo(s, n)    == \A i \in DOMAIN s : s[i] <= n

(* A line numbered after all the others goes at the end.                    *)
LEMMA IncreasingAppend ==
    ASSUME NEW s \in Seq(Nat), NEW n \in Nat, Increasing(s), UpTo(s, n)
    PROVE  Increasing(Append(s, n + 1)) /\ UpTo(Append(s, n + 1), n + 1)
  <1> DEFINE a == Append(s, n + 1)
  <1>1. /\ a \in Seq(Nat)
        /\ Len(a) = Len(s) + 1
        /\ \A i \in 1..Len(s) : a[i] = s[i]
        /\ a[Len(s) + 1] = n + 1
    BY AppendProperties
  <1>2. /\ DOMAIN s = 1..Len(s) /\ Len(s) \in Nat
        /\ DOMAIN a = 1..(Len(s) + 1)
    BY <1>1, LenProperties
  <1>3. \A i \in 1..Len(s) : s[i] \in Nat /\ s[i] <= n
    BY <1>2, ElementOfSeq DEF UpTo
  <1>4. \A i, j \in 1..Len(s) : i < j => s[i] < s[j]
    BY <1>2 DEF Increasing
  <1> HIDE DEF a
  <1>5. \A i \in 1..(Len(s) + 1) : a[i] <= n + 1
    BY <1>1, <1>2, <1>3
  <1>6. ASSUME NEW i \in 1..(Len(s) + 1), NEW j \in 1..(Len(s) + 1), i < j
        PROVE  a[i] < a[j]
    <2>1. i \in 1..Len(s) /\ a[i] = s[i] /\ s[i] \in Nat /\ s[i] <= n
      BY <1>1, <1>2, <1>3, <1>6
    <2>2. CASE j \in 1..Len(s)
      BY <1>1, <1>4, <1>6, <2>1, <2>2
    <2>3. CASE j = Len(s) + 1
      BY <1>1, <2>1, <2>3
    <2> QED
      BY <1>2, <2>2, <2>3
  <1> QED
    BY <1>2, <1>5, <1>6 DEF Increasing, UpTo, a

(* Clearing the screen leaves the lines under way, still in order.          *)
LEMMA IncreasingSuffix ==
    ASSUME NEW s \in Seq(Nat), NEW t \in Seq(Nat), NEW n \in Nat,
           Increasing(s \o t), UpTo(s \o t, n)
    PROVE  Increasing(<<>> \o t) /\ UpTo(<<>> \o t, n)
  <1> DEFINE c == s \o t
  <1>1. /\ c \in Seq(Nat)
        /\ Len(c) = Len(s) + Len(t)
        /\ \A i \in 1..(Len(s) + Len(t)) :
              c[i] = IF i <= Len(s) THEN s[i] ELSE t[i - Len(s)]
    BY ConcatProperties
  <1>2. /\ DOMAIN t = 1..Len(t) /\ Len(t) \in Nat /\ Len(s) \in Nat
        /\ DOMAIN c = 1..(Len(s) + Len(t))
    BY <1>1, LenProperties
  <1>3. \A i \in 1..Len(t) : t[i] = c[i + Len(s)] /\ i + Len(s) \in DOMAIN c
    BY <1>1, <1>2
  <1>4. Increasing(c) /\ UpTo(c, n)
    OBVIOUS
  <1> HIDE DEF c
  <1>5. <<>> \o t = t
    BY ConcatEmptySeq
  <1>6. \A i, j \in DOMAIN t : i < j => t[i] < t[j]
    <2> SUFFICES ASSUME NEW i \in DOMAIN t, NEW j \in DOMAIN t, i < j
                 PROVE  t[i] < t[j]
      OBVIOUS
    <2>1. i + Len(s) < j + Len(s)
      BY <1>2
    <2>2. c[i + Len(s)] < c[j + Len(s)]
      BY <1>2, <1>3, <1>4, <2>1 DEF Increasing
    <2> QED
      BY <1>2, <1>3, <2>2
  <1>7. \A i \in DOMAIN t : t[i] <= n
    BY <1>2, <1>3, <1>4 DEF UpTo
  <1> QED
    BY <1>5, <1>6, <1>7 DEF Increasing, UpTo

(* What is sent to a socket comes after what is on its way.                 *)
LEMMA ConcatAppend ==
    ASSUME NEW S, NEW s \in Seq(S), NEW t \in Seq(S), NEW x \in S
    PROVE  s \o Append(t, x) = Append(s \o t, x)
  <1>1. <<x>> \in Seq(S)
    OBVIOUS
  <1>2. s \o t \in Seq(S)
    BY ConcatProperties
  <1>3. Append(t, x) = t \o <<x>> /\ Append(s \o t, x) = (s \o t) \o <<x>>
    BY <1>2, AppendIsConcat
  <1> QED
    BY <1>1, <1>3, ConcatAssociative

(* Showing a line moves it from the connection to the screen.               *)
LEMMA ShowConcat ==
    ASSUME NEW S, NEW s \in Seq(S), NEW t \in Seq(S), t # <<>>
    PROVE  Append(s, Head(t)) \o Tail(t) = s \o t
  <1> DEFINE h == Head(t)
             u == Tail(t)
             a == Append(s, h)
             l == a \o u
             r == s \o t
  <1>1. /\ h \in S /\ u \in Seq(S) /\ Len(u) = Len(t) - 1 /\ h = t[1]
        /\ \A i \in 1..Len(u) : u[i] = t[i + 1]
    BY HeadTailProperties
  <1>2. /\ a \in Seq(S) /\ Len(a) = Len(s) + 1
        /\ \A i \in 1..Len(s) : a[i] = s[i]
        /\ a[Len(s) + 1] = h
    BY <1>1, AppendProperties
  <1>3. Len(s) \in Nat /\ Len(t) \in Nat
    BY LenProperties
  <1>4. /\ l \in Seq(S) /\ Len(l) = Len(a) + Len(u)
        /\ \A i \in 1..(Len(a) + Len(u)) :
              l[i] = IF i <= Len(a) THEN a[i] ELSE u[i - Len(a)]
    BY <1>1, <1>2, ConcatProperties
  <1>5. /\ r \in Seq(S) /\ Len(r) = Len(s) + Len(t)
        /\ \A i \in 1..(Len(s) + Len(t)) :
              r[i] = IF i <= Len(s) THEN s[i] ELSE t[i - Len(s)]
    BY ConcatProperties
  <1> HIDE DEF h, u, a, l, r
  <1>6. Len(l) = Len(r)
    BY <1>1, <1>2, <1>3, <1>4, <1>5
  <1>7. \A i \in 1..Len(l) : l[i] = r[i]
    <2> SUFFICES ASSUME NEW i \in 1..Len(l)
                 PROVE  l[i] = r[i]
      OBVIOUS
    <2>1. i \in 1..(Len(s) + Len(t)) /\ i \in 1..(Len(a) + Len(u))
      BY <1>4, <1>5, <1>6
    <2>2. l[i] = IF i <= Len(a) THEN a[i] ELSE u[i - Len(a)]
      BY <1>4, <2>1
    <2>3. r[i] = IF i <= Len(s) THEN s[i] ELSE t[i - Len(s)]
      BY <1>5, <2>1
    <2>4. CASE i <= Len(s)
      BY <1>2, <1>3, <2>1, <2>2, <2>3, <2>4
    <2>5. CASE i = Len(s) + 1
      <3>1. i - Len(s) = 1 /\ ~(i <= Len(s)) /\ i <= Len(a)
        BY <1>2, <1>3, <2>5
      <3> QED
        BY <1>1, <1>2, <2>2, <2>3, <2>5, <3>1
    <2>6. CASE i > Len(s) + 1
      <3> DEFINE k == i - Len(a)
      <3>1. k \in 1..Len(u) /\ i - Len(s) = k + 1
        BY <1>1, <1>2, <1>3, <2>1, <2>6
      <3>2. ~(i <= Len(a)) /\ ~(i <= Len(s))
        BY <1>2, <1>3, <2>1, <2>6
      <3>3. u[k] = t[k + 1]
        BY <1>1, <3>1
      <3> QED
        BY <2>2, <2>3, <3>1, <3>2, <3>3
    <2> QED
      BY <1>3, <2>1, <2>4, <2>5, <2>6
  <1>8. l = r
    BY <1>4, <1>5, <1>6, <1>7, SeqEqual
  <1> QED
    BY <1>8 DEF l, r, a, u, h

(* The elements of a sequence that was appended to.                         *)
LEMMA RangeAppend ==
    ASSUME NEW S, NEW s \in Seq(S), NEW x \in S
    PROVE  Range(Append(s, x)) = Range(s) \cup {x}
  <1> DEFINE a == Append(s, x)
  <1>1. /\ a \in Seq(S) /\ Len(a) = Len(s) + 1
        /\ \A i \in 1..Len(s) : a[i] = s[i]
        /\ a[Len(s) + 1] = x
    BY AppendProperties
  <1>2. /\ DOMAIN s = 1..Len(s) /\ Len(s) \in Nat
        /\ DOMAIN a = 1..(Len(s) + 1)
    BY <1>1, LenProperties
  <1> HIDE DEF a
  <1>3. Range(a) = Range(s) \cup {x}
    BY <1>1, <1>2 DEF Range
  <1> QED
    BY <1>3 DEF a

-----------------------------------------------------------------------------
(* A queue of requests in which request-logs can only come first.           *)

AsksFirst(q) == \A i \in DOMAIN q : q[i] = "request-logs" => i = 1
Asks(q)      == \E i \in DOMAIN q : q[i] = "request-logs"

(* A click is queued behind the request of the mount.                       *)
LEMMA AsksAppend ==
    ASSUME NEW q \in Seq(Requests), NEW x \in Requests, AsksFirst(q),
           x = "request-logs" => q = <<>>
    PROVE  /\ AsksFirst(Append(q, x))
           /\ x # "request-logs" => (Asks(Append(q, x)) <=> Asks(q))
  <1> DEFINE a == Append(q, x)
  <1>1. /\ a \in Seq(Requests) /\ Len(a) = Len(q) + 1
        /\ \A i \in 1..Len(q) : a[i] = q[i]
        /\ a[Len(q) + 1] = x
    BY AppendProperties
  <1>2. /\ DOMAIN q = 1..Len(q) /\ Len(q) \in Nat
        /\ DOMAIN a = 1..(Len(q) + 1)
    BY <1>1, LenProperties
  <1>3. x = "request-logs" => Len(q) = 0
    OBVIOUS
  <1> HIDE DEF a
  <1>4. AsksFirst(a)
    BY <1>1, <1>2, <1>3 DEF AsksFirst
  <1>5. x # "request-logs" => (Asks(a) <=> Asks(q))
    BY <1>1, <1>2 DEF Asks
  <1> QED
    BY <1>4, <1>5 DEF a

(* Once the first request is served, no request-logs is left.               *)
LEMMA AsksTail ==
    ASSUME NEW q \in Seq(Requests), q # <<>>, AsksFirst(q)
    PROVE  /\ ~Asks(Tail(q)) /\ AsksFirst(Tail(q))
           /\ Head(q) = "request-logs" => Asks(q)
  <1> DEFINE u == Tail(q)
  <1>1. /\ u \in Seq(Requests) /\ Len(u) = Len(q) - 1
        /\ \A i \in 1..Len(u) : u[i] = q[i + 1]
    BY HeadTailProperties
  <1>2. /\ DOMAIN q = 1..Len(q) /\ Len(q) \in Nat /\ Len(q) # 0
        /\ DOMAIN u = 1..(Len(q) - 1)
    BY <1>1, LenProperties, EmptySeq
  <1> HIDE DEF u
  <1>3. \A i \in DOMAIN u : u[i] # "request-logs"
    BY <1>1, <1>2 DEF AsksFirst
  <1>4. Head(q) = q[1] /\ 1 \in DOMAIN q
    BY <1>2
  <1> QED
    BY <1>3, <1>4 DEF Asks, AsksFirst, u

(* An empty queue asks for nothing.                                         *)
LEMMA AsksEmpty == ~Asks(<<>>) /\ AsksFirst(<<>>)
  BY DEF Asks, AsksFirst
-----------------------------------------------------------------------------
(* The inductive invariant.                                                 *)

Typed ==
    /\ file \in Seq(Lines)
    /\ count \in 0..MaxLines
    /\ link \in [Viewers -> {"off", "down", "up"}]
    /\ pending \in [Viewers -> Seq(Requests)]
    /\ toServer \in [Viewers -> Seq(Requests)]
    /\ toClient \in [Viewers -> Seq(Lines)]
    /\ screen \in [Viewers -> Seq(Lines)]
    /\ room \subseteq Viewers
    /\ dismissed \in [Viewers -> SUBSET Lines]
    /\ dropped \subseteq Viewers

FileInOrder == Increasing(file) /\ UpTo(file, count)

Linked(v) ==
    /\ link[v] # "up" => toServer[v] = <<>> /\ toClient[v] = <<>> /\ v \notin room
    /\ link[v] # "down" => pending[v] = <<>>
    /\ link[v] = "off" => screen[v] = <<>>

(* The file is replayed at most once per mount: while the request for it is *)
(* under way, the viewer has nothing of it and is in no room.               *)
AskedOnce(v) ==
    /\ AsksFirst(pending[v])
    /\ AsksFirst(toServer[v])
    /\ Asks(pending[v]) \/ Asks(toServer[v]) =>
          screen[v] = <<>> /\ toClient[v] = <<>> /\ v \notin room

(* What the viewer has, and is about to get.                                *)
Stream(v) == screen[v] \o toClient[v]

InOrder(v) == Increasing(Stream(v)) /\ UpTo(Stream(v), count)

SeesAll(v) ==
    v \in room => Range(file) \subseteq Range(Stream(v)) \cup dismissed[v]

ViewerInv(v) == Linked(v) /\ AskedOnce(v) /\ InOrder(v) /\ SeesAll(v)

StreamInv == Typed /\ FileInOrder /\ \A v \in Viewers : ViewerInv(v)

(* The properties of the runs are parts of the invariant.                   *)
LEMMA InvImplies == StreamInv => TypeOK /\ ScreenInOrder /\ RoomSeesAll
  <1> SUFFICES ASSUME StreamInv
               PROVE  TypeOK /\ ScreenInOrder /\ RoomSeesAll
    OBVIOUS
  <1>1. TypeOK
    BY DEF StreamInv, Typed, ViewerInv, Linked, TypeOK
  <1>2. ScreenInOrder
    BY DEF StreamInv, ViewerInv, InOrder, Stream, Increasing, ScreenInOrder
  <1>3. RoomSeesAll
    BY DEF StreamInv, Typed, ViewerInv, SeesAll, Stream, RoomSeesAll
  <1> QED
    BY <1>1, <1>2, <1>3

(* Lines are numbers.                                                       *)
LEMMA LineFacts ==
    /\ MaxLines \in Nat
    /\ Lines \subseteq Nat
    /\ \A s \in Seq(Lines) : s \in Seq(Nat)
  <1>1. MaxLines \in Nat /\ Lines \subseteq Nat
    BY StreamAssumption DEF Lines
  <1> QED
    BY <1>1, SeqMonotonic

(* A viewer that an action does not touch stays as it should be.            *)
LEMMA OtherViewer ==
    ASSUME NEW w \in Viewers, ViewerInv(w),
           link'[w] = link[w], pending'[w] = pending[w],
           toServer'[w] = toServer[w], toClient'[w] = toClient[w],
           screen'[w] = screen[w], dismissed'[w] = dismissed[w],
           w \in room' <=> w \in room,
           file' = file, count' = count
    PROVE  ViewerInv(w)'
  <1>1. Linked(w)'
    BY DEF ViewerInv, Linked
  <1>2. AskedOnce(w)'
    BY DEF ViewerInv, AskedOnce
  <1>3. InOrder(w)'
    BY DEF ViewerInv, InOrder, Stream
  <1>4. SeesAll(w)'
    BY DEF ViewerInv, SeesAll, Stream
  <1> QED
    BY <1>1, <1>2, <1>3, <1>4 DEF ViewerInv

(* The invariant holds when nothing is mounted.                             *)
LEMMA StreamInit == Init => StreamInv
  <1> SUFFICES ASSUME Init PROVE StreamInv
    OBVIOUS
  <1>1. Typed
    BY LineFacts, EmptySeq DEF Init, Typed
  <1>2. FileInOrder
    BY DEF Init, FileInOrder, Increasing, UpTo
  <1>3. ASSUME NEW v \in Viewers
        PROVE  ViewerInv(v)
    <2>1. <<>> \o <<>> = <<>>
      BY ConcatEmptySeq, EmptySeq
    <2>2. Linked(v)
      BY DEF Init, Linked
    <2>3. AskedOnce(v)
      BY AsksEmpty DEF Init, AskedOnce
    <2>4. InOrder(v)
      BY <2>1 DEF Init, InOrder, Stream, Increasing, UpTo
    <2>5. SeesAll(v)
      BY DEF Init, SeesAll
    <2> QED
      BY <2>2, <2>3, <2>4, <2>5 DEF ViewerInv
  <1> QED
    BY <1>1, <1>2, <1>3 DEF StreamInv

-----------------------------------------------------------------------------
(* The browser's steps.                                                     *)

(* The request of a mount is the first of its queue.                        *)
LEMMA MountStep ==
    ASSUME StreamInv, NEW v \in Viewers, Mount(v)
    PROVE  StreamInv'
  <1>1. "request-logs" \in Requests
    BY DEF Requests
  <1>2. /\ link[v] = "off" /\ pending[v] = <<>> /\ toServer[v] = <<>>
        /\ toClient[v] = <<>> /\ v \notin room /\ screen[v] = <<>>
    BY DEF StreamInv, ViewerInv, Linked, Mount
  <1>3. /\ link' = [link EXCEPT ![v] = "down"]
        /\ pending' = [pending EXCEPT ![v] = Append(@, "request-logs")]
        /\ UNCHANGED <<file, count, toServer, toClient, room, screen, dismissed>>
        /\ dropped' = dropped \ {v}
    BY <1>2 DEF Mount, Emit
  <1>4. Append(pending[v], "request-logs") \in Seq(Requests)
    BY <1>1, AppendProperties DEF StreamInv, Typed
  <1>5. Typed'
    BY <1>3, <1>4 DEF StreamInv, Typed
  <1>6. FileInOrder'
    BY <1>3 DEF StreamInv, FileInOrder
  <1>7. ViewerInv(v)'
    <2>1. link'[v] = "down" /\ pending'[v] = Append(pending[v], "request-logs")
      BY <1>3 DEF StreamInv, Typed
    <2>2. Linked(v)'
      BY <1>2, <1>3, <2>1 DEF Linked
    <2>3. pending[v] \in Seq(Requests) /\ AsksFirst(pending[v])
      BY DEF StreamInv, Typed, ViewerInv, AskedOnce
    <2>4. AsksFirst(pending'[v])
      BY <1>1, <1>2, <2>1, <2>3, AsksAppend
    <2>5. AskedOnce(v)'
      BY <1>2, <1>3, <2>4, AsksEmpty DEF AskedOnce
    <2>6. InOrder(v)' /\ SeesAll(v)'
      BY <1>3 DEF StreamInv, ViewerInv, InOrder, SeesAll, Stream
    <2> QED
      BY <2>2, <2>5, <2>6 DEF ViewerInv
  <1>8. ASSUME NEW w \in Viewers, w # v
        PROVE  ViewerInv(w)'
    BY <1>3, <1>8, OtherViewer DEF StreamInv, Typed
  <1> QED
    BY <1>5, <1>6, <1>7, <1>8 DEF StreamInv

(* A connection delivers what was queued for it.                            *)
LEMMA ConnectStep ==
    ASSUME StreamInv, NEW v \in Viewers, Connect(v)
    PROVE  StreamInv'
  <1>1. /\ link[v] = "down" /\ toServer[v] = <<>> /\ toClient[v] = <<>> /\ v \notin room
        /\ AskedOnce(v)
    BY DEF StreamInv, ViewerInv, Linked, Connect
  <1>2. /\ link' = [link EXCEPT ![v] = "up"]
        /\ toServer' = [toServer EXCEPT ![v] = pending[v]]
        /\ pending' = [pending EXCEPT ![v] = <<>>]
        /\ UNCHANGED <<file, count, toClient, room, screen, dismissed, dropped>>
    BY DEF Connect
  <1>3. Typed'
    BY <1>2, EmptySeq DEF StreamInv, Typed
  <1>4. FileInOrder'
    BY <1>2 DEF StreamInv, FileInOrder
  <1>5. ViewerInv(v)'
    <2>1. link'[v] = "up" /\ pending'[v] = <<>> /\ toServer'[v] = pending[v]
      BY <1>2 DEF StreamInv, Typed
    <2>2. Linked(v)'
      BY <2>1 DEF Linked
    <2>3. AskedOnce(v)'
      BY <1>1, <1>2, <2>1, AsksEmpty DEF AskedOnce
    <2>4. InOrder(v)' /\ SeesAll(v)'
      BY <1>2 DEF StreamInv, ViewerInv, InOrder, SeesAll, Stream
    <2> QED
      BY <2>2, <2>3, <2>4 DEF ViewerInv
  <1>6. ASSUME NEW w \in Viewers, w # v
        PROVE  ViewerInv(w)'
    BY <1>2, <1>6, OtherViewer DEF StreamInv, Typed
  <1> QED
    BY <1>3, <1>4, <1>5, <1>6 DEF StreamInv

(* A click clears the screen, not what is under way, and its request is     *)
(* queued behind that of the mount.                                         *)
LEMMA ClickStep ==
    ASSUME StreamInv, NEW v \in Viewers,
           NEW x \in {"clear-logs", "run-script"}, Click(v, x)
    PROVE  StreamInv'
  <1>1. x \in Requests /\ x # "request-logs"
    BY DEF Requests
  <1>2. /\ screen' = [screen EXCEPT ![v] = <<>>]
        /\ dismissed' = [dismissed EXCEPT ![v] = @ \cup Range(screen[v])]
        /\ UNCHANGED <<file, count, link, toClient, room, dropped>>
        /\ link[v] # "off"
    BY DEF Click, ClearScreen
  <1>3. \/ /\ link[v] = "up"
           /\ toServer' = [toServer EXCEPT ![v] = Append(@, x)]
           /\ pending' = pending
        \/ /\ link[v] = "down"
           /\ pending' = [pending EXCEPT ![v] = Append(@, x)]
           /\ toServer' = toServer
    BY <1>2 DEF Click, Emit, StreamInv, Typed
  <1>4. /\ pending[v] \in Seq(Requests) /\ toServer[v] \in Seq(Requests)
        /\ screen[v] \in Seq(Lines) /\ toClient[v] \in Seq(Lines)
        /\ Linked(v) /\ AskedOnce(v) /\ InOrder(v) /\ SeesAll(v)
    BY DEF StreamInv, Typed, ViewerInv
  <1>5. /\ Append(pending[v], x) \in Seq(Requests)
        /\ Append(toServer[v], x) \in Seq(Requests)
    BY <1>1, <1>4, AppendProperties
  <1>6. Range(screen[v]) \subseteq Lines
    BY <1>4, RangeOfSeq
  <1>7. Typed'
    <2>1. pending' \in [Viewers -> Seq(Requests)] /\ toServer' \in [Viewers -> Seq(Requests)]
      BY <1>3, <1>5 DEF StreamInv, Typed
    <2>2. screen' \in [Viewers -> Seq(Lines)]
      BY <1>2, EmptySeq DEF StreamInv, Typed
    <2>3. dismissed' \in [Viewers -> SUBSET Lines]
      BY <1>2, <1>6 DEF StreamInv, Typed
    <2> QED
      BY <1>2, <2>1, <2>2, <2>3 DEF StreamInv, Typed
  <1>8. FileInOrder'
    BY <1>2 DEF StreamInv, FileInOrder
  <1>9. ViewerInv(v)'
    <2>1. /\ screen'[v] = <<>> /\ dismissed'[v] = dismissed[v] \cup Range(screen[v])
          /\ toClient'[v] = toClient[v]
      BY <1>2 DEF StreamInv, Typed
    <2>2. \/ /\ link[v] = "up" /\ pending'[v] = pending[v]
             /\ toServer'[v] = Append(toServer[v], x)
          \/ /\ link[v] = "down" /\ toServer'[v] = toServer[v]
             /\ pending'[v] = Append(pending[v], x)
      BY <1>3 DEF StreamInv, Typed
    <2>3. Linked(v)'
      BY <1>2, <1>4, <2>1, <2>2 DEF Linked
    <2>4. /\ AsksFirst(Append(pending[v], x)) /\ AsksFirst(Append(toServer[v], x))
          /\ Asks(Append(pending[v], x)) <=> Asks(pending[v])
          /\ Asks(Append(toServer[v], x)) <=> Asks(toServer[v])
      BY <1>1, <1>4, AsksAppend DEF AskedOnce
    <2>5. AskedOnce(v)'
      BY <1>2, <1>4, <2>1, <2>2, <2>4 DEF AskedOnce
    <2>6. InOrder(v)'
      <3>1. Increasing(screen[v] \o toClient[v]) /\ UpTo(screen[v] \o toClient[v], count)
        BY <1>4 DEF InOrder, Stream
      <3>2. screen[v] \in Seq(Nat) /\ toClient[v] \in Seq(Nat) /\ count \in Nat
        BY <1>4, LineFacts DEF StreamInv, Typed
      <3>3. Increasing(<<>> \o toClient[v]) /\ UpTo(<<>> \o toClient[v], count)
        BY <3>1, <3>2, IncreasingSuffix
      <3> QED
        BY <1>2, <2>1, <3>3 DEF InOrder, Stream
    <2>7. SeesAll(v)'
      <3>1. Range(screen[v] \o toClient[v]) = Range(screen[v]) \cup Range(toClient[v])
        BY <1>4, RangeConcatenation
      <3>2. <<>> \o toClient[v] = toClient[v]
        BY <1>4, ConcatEmptySeq
      <3> QED
        BY <1>2, <1>4, <2>1, <3>1, <3>2 DEF SeesAll, Stream
    <2> QED
      BY <2>3, <2>5, <2>6, <2>7 DEF ViewerInv
  <1>10. ASSUME NEW w \in Viewers, w # v
         PROVE  ViewerInv(w)'
    <2>1. /\ screen'[w] = screen[w] /\ dismissed'[w] = dismissed[w]
          /\ pending'[w] = pending[w] /\ toServer'[w] = toServer[w]
      BY <1>2, <1>3, <1>10 DEF StreamInv, Typed
    <2> QED
      BY <1>2, <2>1, OtherViewer DEF StreamInv
  <1> QED
    BY <1>7, <1>8, <1>9, <1>10 DEF StreamInv

(* Showing a line leaves the stream as it is.                               *)
LEMMA ShowStep ==
    ASSUME StreamInv, NEW v \in Viewers, Show(v)
    PROVE  StreamInv'
  <1>1. /\ toClient[v] # <<>>
        /\ screen' = [screen EXCEPT ![v] = Append(@, Head(toClient[v]))]
        /\ toClient' = [toClient EXCEPT ![v] = Tail(@)]
        /\ UNCHANGED <<file, count, toServer, room, link, pending, dismissed, dropped>>
    BY DEF Show
  <1>2. /\ screen[v] \in Seq(Lines) /\ toClient[v] \in Seq(Lines)
        /\ Linked(v) /\ AskedOnce(v) /\ InOrder(v) /\ SeesAll(v)
    BY DEF StreamInv, Typed, ViewerInv
  <1>3. Head(toClient[v]) \in Lines /\ Tail(toClient[v]) \in Seq(Lines)
    BY <1>1, <1>2, HeadTailProperties
  <1>4. Append(screen[v], Head(toClient[v])) \in Seq(Lines)
    BY <1>2, <1>3, AppendProperties
  <1>5. Typed'
    BY <1>1, <1>3, <1>4 DEF StreamInv, Typed
  <1>6. FileInOrder'
    BY <1>1 DEF StreamInv, FileInOrder
  <1>7. ViewerInv(v)'
    <2>1. /\ screen'[v] = Append(screen[v], Head(toClient[v]))
          /\ toClient'[v] = Tail(toClient[v])
      BY <1>1 DEF StreamInv, Typed
    <2>2. Stream(v)' = Stream(v)
      BY <1>1, <1>2, <2>1, ShowConcat DEF Stream
    <2>3. link[v] = "up"
      BY <1>1, <1>2 DEF Linked, StreamInv, Typed
    <2>4. Linked(v)'
      BY <1>1, <1>2, <2>3 DEF Linked
    <2>5. ~Asks(pending[v]) /\ ~Asks(toServer[v])
      BY <1>1, <1>2 DEF AskedOnce
    <2>6. AskedOnce(v)'
      BY <1>1, <1>2, <2>5 DEF AskedOnce
    <2>7. InOrder(v)' /\ SeesAll(v)'
      BY <1>1, <1>2, <2>2 DEF InOrder, SeesAll
    <2> QED
      BY <2>4, <2>6, <2>7 DEF ViewerInv
  <1>8. ASSUME NEW w \in Viewers, w # v
        PROVE  ViewerInv(w)'
    BY <1>1, <1>8, OtherViewer DEF StreamInv, Typed
  <1> QED
    BY <1>5, <1>6, <1>7, <1>8 DEF StreamInv

(* Lines that were shown stay in order when those under way are lost.       *)
LEMMA DropOrder ==
    ASSUME NEW s \in Seq(Nat), NEW t \in Seq(Nat), NEW n \in Nat,
           Increasing(s \o t), UpTo(s \o t, n)
    PROVE  Increasing(s \o <<>>) /\ UpTo(s \o <<>>, n)
  <1> DEFINE c == s \o t
  <1>1. /\ c \in Seq(Nat)
        /\ Len(c) = Len(s) + Len(t)
        /\ \A i \in 1..(Len(s) + Len(t)) :
              c[i] = IF i <= Len(s) THEN s[i] ELSE t[i - Len(s)]
    BY ConcatProperties
  <1>2. /\ DOMAIN s = 1..Len(s) /\ Len(t) \in Nat /\ Len(s) \in Nat
        /\ DOMAIN c = 1..(Len(s) + Len(t))
    BY <1>1, LenProperties
  <1>3. Increasing(c) /\ UpTo(c, n)
    OBVIOUS
  <1> HIDE DEF c
  <1>4. \A i \in DOMAIN s : s[i] = c[i] /\ i \in DOMAIN c
    BY <1>1, <1>2
  <1>5. s \o <<>> = s
    BY ConcatEmptySeq
  <1> QED
    BY <1>3, <1>4, <1>5 DEF Increasing, UpTo

(* A lost connection leaves nothing under way and no place in the room.     *)
LEMMA DropStep ==
    ASSUME StreamInv, NEW v \in Viewers, Drop(v)
    PROVE  StreamInv'
  <1>1. /\ link[v] = "up"
        /\ link' = [link EXCEPT ![v] = "down"]
        /\ dropped' = dropped \cup {v}
        /\ toServer' = [toServer EXCEPT ![v] = <<>>]
        /\ toClient' = [toClient EXCEPT ![v] = <<>>]
        /\ room' = room \ {v}
        /\ UNCHANGED <<file, count, pending, screen, dismissed>>
    BY DEF Drop, Disconnect
  <1>2. /\ screen[v] \in Seq(Lines) /\ toClient[v] \in Seq(Lines)
        /\ Linked(v) /\ AskedOnce(v) /\ InOrder(v)
    BY DEF StreamInv, Typed, ViewerInv
  <1>3. Typed'
    BY <1>1, EmptySeq DEF StreamInv, Typed
  <1>4. FileInOrder'
    BY <1>1 DEF StreamInv, FileInOrder
  <1>5. ViewerInv(v)'
    <2>1. link'[v] = "down" /\ toServer'[v] = <<>> /\ toClient'[v] = <<>> /\ v \notin room'
      BY <1>1 DEF StreamInv, Typed
    <2>2. Linked(v)'
      BY <2>1 DEF Linked
    <2>3. pending'[v] = <<>>
      BY <1>1, <1>2 DEF Linked
    <2>4. AskedOnce(v)'
      BY <2>1, <2>3, AsksEmpty DEF AskedOnce
    <2>5. InOrder(v)'
      <3>1. Increasing(screen[v] \o toClient[v]) /\ UpTo(screen[v] \o toClient[v], count)
        BY <1>2 DEF InOrder, Stream
      <3>2. screen[v] \in Seq(Nat) /\ toClient[v] \in Seq(Nat) /\ count \in Nat
        BY <1>2, LineFacts DEF StreamInv, Typed
      <3>3. Increasing(screen[v] \o <<>>) /\ UpTo(screen[v] \o <<>>, count)
        BY <3>1, <3>2, DropOrder
      <3> QED
        BY <1>1, <2>1, <3>3 DEF InOrder, Stream
    <2>6. SeesAll(v)'
      BY <2>1 DEF SeesAll
    <2> QED
      BY <2>2, <2>4, <2>5, <2>6 DEF ViewerInv
  <1>6. ASSUME NEW w \in Viewers, w # v
        PROVE  ViewerInv(w)'
    BY <1>1, <1>6, OtherViewer DEF StreamInv, Typed
  <1> QED
    BY <1>3, <1>4, <1>5, <1>6 DEF StreamInv

(* The cleanup leaves the viewer with nothing.                              *)
LEMMA UnmountStep ==
    ASSUME StreamInv, NEW v \in Viewers, Unmount(v)
    PROVE  StreamInv'
  <1>1. /\ link' = [link EXCEPT ![v] = "off"]
        /\ pending' = [pending EXCEPT ![v] = <<>>]
        /\ screen' = [screen EXCEPT ![v] = <<>>]
        /\ dismissed' = [dismissed EXCEPT ![v] = {}]
        /\ toServer' = [toServer EXCEPT ![v] = <<>>]
        /\ toClient' = [toClient EXCEPT ![v] = <<>>]
        /\ room' = room \ {v}
        /\ UNCHANGED <<file, count, dropped>>
    BY DEF Unmount, Disconnect
  <1>2. Typed'
    BY <1>1, EmptySeq DEF StreamInv, Typed
  <1>3. FileInOrder'
    BY <1>1 DEF StreamInv, FileInOrder
  <1>4. ViewerInv(v)'
    <2>1. /\ link'[v] = "off" /\ pending'[v] = <<>> /\ toServer'[v] = <<>>
          /\ toClient'[v] = <<>> /\ screen'[v] = <<>> /\ v \notin room'
      BY <1>1 DEF StreamInv, Typed
    <2>2. Linked(v)' /\ AskedOnce(v)' /\ SeesAll(v)'
      BY <2>1, AsksEmpty DEF Linked, AskedOnce, SeesAll
    <2>3. <<>> \o <<>> = <<>>
      BY ConcatEmptySeq, EmptySeq
    <2>4. InOrder(v)'
      BY <2>1, <2>3 DEF InOrder, Stream, Increasing, UpTo
    <2> QED
      BY <2>2, <2>4 DEF ViewerInv
  <1>5. ASSUME NEW w \in Viewers, w # v
        PROVE  ViewerInv(w)'
    BY <1>1, <1>5, OtherViewer DEF StreamInv, Typed
  <1> QED
    BY <1>2, <1>3, <1>4, <1>5 DEF StreamInv

-----------------------------------------------------------------------------
(* The server's steps.                                                      *)

(* A line that is written goes to the end of the file and of the stream of  *)
(* everyone in the room; nobody else's stream changes.                      *)
LEMMA LogLine ==
    ASSUME StreamInv, logAndEmit, UNCHANGED <<room, screen, dismissed>>
    PROVE  /\ file' \in Seq(Lines) /\ count' \in 0..MaxLines
           /\ toClient' \in [Viewers -> Seq(Lines)]
           /\ FileInOrder'
           /\ \A w \in Viewers : /\ InOrder(w)' /\ SeesAll(w)'
                                 /\ w \notin room => toClient'[w] = toClient[w]
  <1> DEFINE n == count + 1
  <1>1. /\ count < MaxLines /\ count' = n /\ file' = Append(file, n)
        /\ toClient' = [v \in Viewers |->
              IF v \in room THEN Append(toClient[v], n) ELSE toClient[v]]
    BY DEF logAndEmit
  <1>2. /\ count \in Nat /\ n \in Lines /\ n \in 0..MaxLines
        /\ file \in Seq(Lines) /\ file \in Seq(Nat)
    BY <1>1, LineFacts DEF StreamInv, Typed, Lines
  <1>3. file' \in Seq(Lines) /\ count' \in 0..MaxLines
    BY <1>1, <1>2, AppendProperties
  <1>4. ASSUME NEW w \in Viewers
        PROVE  toClient[w] \in Seq(Lines) /\ Append(toClient[w], n) \in Seq(Lines)
    <2>1. toClient[w] \in Seq(Lines)
      BY DEF StreamInv, Typed
    <2> QED
      BY <1>2, <2>1, AppendProperties
  <1>5. toClient' \in [Viewers -> Seq(Lines)]
    BY <1>1, <1>4
  <1>6. FileInOrder'
    <2>1. Increasing(file) /\ UpTo(file, count)
      BY DEF StreamInv, FileInOrder
    <2>2. Increasing(Append(file, n)) /\ UpTo(Append(file, n), n)
      BY <1>2, <2>1, IncreasingAppend
    <2> QED
      BY <1>1, <2>2 DEF FileInOrder
  <1>7. ASSUME NEW w \in Viewers
        PROVE  /\ InOrder(w)' /\ SeesAll(w)'
               /\ w \notin room => toClient'[w] = toClient[w]
    <2>1. /\ screen[w] \in Seq(Lines) /\ toClient[w] \in Seq(Lines)
          /\ InOrder(w) /\ SeesAll(w)
      BY DEF StreamInv, Typed, ViewerInv
    <2>2. Stream(w) \in Seq(Lines) /\ Stream(w) \in Seq(Nat)
      <3>1. Stream(w) \in Seq(Lines)
        BY <2>1, ConcatProperties DEF Stream
      <3> QED
        BY <3>1, LineFacts
    <2>3. CASE w \in room
      <3>1. toClient'[w] = Append(toClient[w], n)
        BY <1>1, <2>3
      <3>2. Stream(w)' = Append(Stream(w), n)
        <4>1. \A s, t \in Seq(Lines), x \in Lines : s \o Append(t, x) = Append(s \o t, x)
          BY ConcatAppend
        <4>2. screen[w] \in Seq(Lines) /\ toClient[w] \in Seq(Lines) /\ n \in Lines
          BY <1>2, <2>1
        <4> HIDE DEF n
        <4>3. screen[w] \o Append(toClient[w], n) = Append(screen[w] \o toClient[w], n)
          BY <4>1, <4>2
        <4>4. Stream(w)' = screen[w] \o toClient'[w]
          BY DEF Stream
        <4> QED
          BY <3>1, <4>3, <4>4 DEF Stream
      <3>3. Increasing(Append(Stream(w), n)) /\ UpTo(Append(Stream(w), n), n)
        BY <1>2, <2>1, <2>2, IncreasingAppend DEF InOrder
      <3>4. InOrder(w)'
        BY <1>1, <3>2, <3>3 DEF InOrder
      <3>5. Range(Append(file, n)) = Range(file) \cup {n}
        BY <1>2, RangeAppend
      <3>6. Range(Append(Stream(w), n)) = Range(Stream(w)) \cup {n}
        BY <1>2, <2>2, RangeAppend
      <3>7. SeesAll(w)'
        BY <1>1, <2>1, <2>3, <3>2, <3>5, <3>6 DEF SeesAll
      <3> QED
        BY <2>3, <3>4, <3>7
    <2>4. CASE w \notin room
      <3>1. toClient'[w] = toClient[w] /\ Stream(w)' = Stream(w)
        BY <1>1, <2>4 DEF Stream
      <3>2. \A i \in DOMAIN Stream(w) : Stream(w)[i] \in Nat /\ Stream(w)[i] <= count
        BY <2>1, <2>2, ElementOfSeq, LenProperties DEF InOrder, UpTo
      <3>3. \A i \in DOMAIN Stream(w) : Stream(w)[i] <= n
        BY <1>2, <3>2
      <3>4. InOrder(w)'
        BY <1>1, <2>1, <3>1, <3>3 DEF InOrder, UpTo
      <3> QED
        BY <2>4, <3>1, <3>4 DEF SeesAll
    <2> QED
      BY <2>3, <2>4
  <1> QED
    BY <1>3, <1>5, <1>6, <1>7

(* A deployment's line, the first one of an accepted start included.  q is  *)
(* what remains of the requests that viewer v sent.                         *)
LEMMA LineStep ==
    ASSUME StreamInv, logAndEmit, UNCHANGED <<room, client>>,
           toServer' \in [Viewers -> Seq(Requests)],
           \A w \in Viewers : /\ AsksFirst(toServer'[w])
                              /\ Asks(toServer'[w]) => Asks(toServer[w])
                              /\ toServer[w] = <<>> => toServer'[w] = <<>>
    PROVE  StreamInv'
  <1>1. UNCHANGED <<room, screen, dismissed, link, pending, dropped>>
    BY DEF client
  <1>2. Typed' /\ FileInOrder'
    BY <1>1, LogLine DEF StreamInv, Typed
  <1>3. ASSUME NEW w \in Viewers
        PROVE  ViewerInv(w)'
    <2>1. /\ InOrder(w)' /\ SeesAll(w)'
          /\ w \notin room => toClient'[w] = toClient[w]
      BY <1>1, LogLine
    <2>2. Linked(w) /\ AskedOnce(w)
      BY DEF StreamInv, ViewerInv
    <2>3. Linked(w)'
      BY <1>1, <2>1, <2>2 DEF Linked
    <2>4. AskedOnce(w)'
      BY <1>1, <2>1, <2>2 DEF AskedOnce
    <2> QED
      BY <2>1, <2>3, <2>4 DEF ViewerInv
  <1> QED
    BY <1>2, <1>3 DEF StreamInv

(* What Output leaves alone.                                                *)
LEMMA OutputStep ==
    ASSUME StreamInv, Output
    PROVE  StreamInv'
  <1>1. logAndEmit /\ UNCHANGED <<toServer, room, client>>
    BY DEF Output
  <1>2. toServer \in [Viewers -> Seq(Requests)]
        /\ \A w \in Viewers : AsksFirst(toServer[w])
    BY DEF StreamInv, Typed, ViewerInv, AskedOnce
  <1> QED
    BY <1>1, <1>2, LineStep

(* A request that is taken off the queue leaves none for the log behind.    *)
LEMMA ReceiveFacts ==
    ASSUME StreamInv, NEW v \in Viewers, NEW x \in Requests, Receive(v, x)
    PROVE  /\ toServer' \in [Viewers -> Seq(Requests)]
           /\ toServer' = [toServer EXCEPT ![v] = Tail(@)]
           /\ \A w \in Viewers : w # v => toServer'[w] = toServer[w]
           /\ toServer[v] # <<>> /\ link[v] = "up" /\ pending[v] = <<>>
           /\ ~Asks(toServer'[v]) /\ AsksFirst(toServer'[v])
           /\ x = "request-logs" => Asks(toServer[v])
  <1>1. /\ toServer[v] # <<>> /\ Head(toServer[v]) = x
        /\ toServer' = [toServer EXCEPT ![v] = Tail(@)]
    BY DEF Receive
  <1>2. toServer[v] \in Seq(Requests) /\ Linked(v) /\ AskedOnce(v)
    BY DEF StreamInv, Typed, ViewerInv
  <1>3. Tail(toServer[v]) \in Seq(Requests)
    BY <1>1, <1>2, HeadTailProperties
  <1>4. toServer'[v] = Tail(toServer[v])
    BY <1>1 DEF StreamInv, Typed
  <1>5. /\ ~Asks(Tail(toServer[v])) /\ AsksFirst(Tail(toServer[v]))
        /\ x = "request-logs" => Asks(toServer[v])
    BY <1>1, <1>2, AsksTail DEF AskedOnce
  <1>6. link[v] = "up" /\ pending[v] = <<>>
    BY <1>1, <1>2 DEF Linked
  <1> QED
    BY <1>1, <1>3, <1>4, <1>5, <1>6 DEF StreamInv, Typed

(* The replay meets an empty screen: the viewer gets the file once, as it   *)
(* is, and joins the room in the same step.                                 *)
LEMMA RequestLogsStep ==
    ASSUME StreamInv, NEW v \in Viewers, RequestLogs(v)
    PROVE  StreamInv'
  <1>1. /\ Receive(v, "request-logs")
        /\ toClient' = [toClient EXCEPT ![v] = @ \o file]
        /\ room' = room \cup {v}
        /\ UNCHANGED <<file, count, link, pending, screen, dismissed, dropped>>
    BY DEF RequestLogs, client
  <1>2. "request-logs" \in Requests
    BY DEF Requests
  <1>3. /\ toServer' \in [Viewers -> Seq(Requests)]
        /\ \A w \in Viewers : w # v => toServer'[w] = toServer[w]
        /\ toServer[v] # <<>> /\ link[v] = "up" /\ pending[v] = <<>>
        /\ ~Asks(toServer'[v]) /\ AsksFirst(toServer'[v]) /\ Asks(toServer[v])
    BY <1>1, <1>2, ReceiveFacts
  <1>4. screen[v] = <<>> /\ toClient[v] = <<>>
    BY <1>3 DEF StreamInv, ViewerInv, AskedOnce
  <1>5. file \in Seq(Lines) /\ <<>> \o file = file
    BY ConcatEmptySeq DEF StreamInv, Typed
  <1>6. toClient'[v] = file /\ Stream(v)' = file
    BY <1>1, <1>4, <1>5 DEF StreamInv, Typed, Stream
  <1>7. Typed'
    BY <1>1, <1>3, <1>4, <1>5 DEF StreamInv, Typed
  <1>8. FileInOrder'
    BY <1>1 DEF StreamInv, FileInOrder
  <1>9. ViewerInv(v)'
    <2>1. Linked(v)' /\ AskedOnce(v)'
      BY <1>1, <1>3, AsksEmpty DEF Linked, AskedOnce
    <2>2. InOrder(v)' /\ SeesAll(v)'
      BY <1>1, <1>6, <1>8 DEF InOrder, SeesAll, FileInOrder
    <2> QED
      BY <2>1, <2>2 DEF ViewerInv
  <1>10. ASSUME NEW w \in Viewers, w # v
         PROVE  ViewerInv(w)'
    BY <1>1, <1>3, <1>10, OtherViewer DEF StreamInv, Typed
  <1> QED
    BY <1>7, <1>8, <1>9, <1>10 DEF StreamInv

(* A start writes one line or none.                                         *)
LEMMA RunScriptStep ==
    ASSUME StreamInv, NEW v \in Viewers, RunScript(v)
    PROVE  StreamInv'
  <1>1. /\ Receive(v, "run-script") /\ UNCHANGED <<room, client>>
        /\ logAndEmit \/ UNCHANGED <<file, count, toClient>>
    BY DEF RunScript
  <1>2. "run-script" \in Requests
    BY DEF Requests
  <1>3. /\ toServer' \in [Viewers -> Seq(Requests)]
        /\ \A w \in Viewers : w # v => toServer'[w] = toServer[w]
        /\ toServer[v] # <<>> /\ link[v] = "up" /\ pending[v] = <<>>
        /\ ~Asks(toServer'[v]) /\ AsksFirst(toServer'[v])
    BY <1>1, <1>2, ReceiveFacts
  <1>4. CASE logAndEmit
    <2>1. \A w \in Viewers : AsksFirst(toServer[w])
      BY DEF StreamInv, ViewerInv, AskedOnce
    <2>2. \A w \in Viewers : /\ AsksFirst(toServer'[w])
                             /\ Asks(toServer'[w]) => Asks(toServer[w])
                             /\ toServer[w] = <<>> => toServer'[w] = <<>>
      BY <1>3, <2>1
    <2> QED
      BY <1>1, <1>3, <1>4, <2>2, LineStep
  <1>5. CASE UNCHANGED <<file, count, toClient>>
    <2>1. UNCHANGED <<room, link, pending, screen, dismissed, dropped>>
      BY <1>1 DEF client
    <2>2. Typed' /\ FileInOrder'
      BY <1>3, <1>5, <2>1 DEF StreamInv, Typed, FileInOrder
    <2>3. ViewerInv(v)'
      BY <1>3, <1>5, <2>1, AsksEmpty
         DEF StreamInv, ViewerInv, Linked, AskedOnce, InOrder, SeesAll, Stream
    <2>4. ASSUME NEW w \in Viewers, w # v
          PROVE  ViewerInv(w)'
      BY <1>3, <1>5, <2>1, <2>4, OtherViewer DEF StreamInv
    <2> QED
      BY <2>2, <2>3, <2>4 DEF StreamInv
  <1> QED
    BY <1>1, <1>4, <1>5

(* Clearing the file takes nothing from those who have its lines.           *)
LEMMA ClearLogsStep ==
    ASSUME StreamInv, NEW v \in Viewers, ClearLogs(v)
    PROVE  StreamInv'
  <1>1. /\ Receive(v, "clear-logs")
        /\ file' = <<>> \/ UNCHANGED file
        /\ UNCHANGED <<count, toClient, room, link, pending, screen, dismissed, dropped>>
    BY DEF ClearLogs, client
  <1>2. "clear-logs" \in Requests
    BY DEF Requests
  <1>3. /\ toServer' \in [Viewers -> Seq(Requests)]
        /\ \A w \in Viewers : w # v => toServer'[w] = toServer[w]
        /\ toServer[v] # <<>> /\ link[v] = "up" /\ pending[v] = <<>>
        /\ ~Asks(toServer'[v]) /\ AsksFirst(toServer'[v])
    BY <1>1, <1>2, ReceiveFacts
  <1>4. Range(file') \subseteq Range(file)
    BY <1>1 DEF Range
  <1>5. Typed' /\ FileInOrder'
    BY <1>1, <1>3, EmptySeq DEF StreamInv, Typed, FileInOrder, Increasing, UpTo
  <1>6. ASSUME NEW w \in Viewers
        PROVE  ViewerInv(w)'
    <2>1. Linked(w) /\ AskedOnce(w) /\ InOrder(w) /\ SeesAll(w)
      BY DEF StreamInv, ViewerInv
    <2>2. Linked(w)' /\ AskedOnce(w)'
      BY <1>1, <1>3, <2>1, AsksEmpty DEF Linked, AskedOnce
    <2>3. InOrder(w)' /\ SeesAll(w)'
      BY <1>1, <1>4, <2>1 DEF InOrder, SeesAll, Stream
    <2> QED
      BY <2>2, <2>3 DEF ViewerInv
  <1> QED
    BY <1>5, <1>6 DEF StreamInv

-----------------------------------------------------------------------------
(* The theorems.                                                            *)

(* Every step of a browser or of the server preserves the invariant.        *)
LEMMA StreamNext == StreamInv /\ [Next]_vars => StreamInv'
  <1> SUFFICES ASSUME StreamInv, [Next]_vars
               PROVE  StreamInv'
    OBVIOUS
  <1>1. CASE Output
    BY <1>1, OutputStep
  <1>2. ASSUME NEW v \in Viewers,
               \/ Mount(v) \/ Connect(v) \/ Show(v) \/ Drop(v) \/ Unmount(v)
               \/ Click(v, "clear-logs") \/ Click(v, "run-script")
               \/ Serve(v)
        PROVE  StreamInv'
    <2>1. CASE Mount(v) \/ Connect(v) \/ Show(v) \/ Drop(v) \/ Unmount(v)
      BY <2>1, MountStep, ConnectStep, ShowStep, DropStep, UnmountStep
    <2>2. CASE Click(v, "clear-logs") \/ Click(v, "run-script")
      BY <2>2, ClickStep
    <2>3. CASE Serve(v)
      BY <2>3, RequestLogsStep, RunScriptStep, ClearLogsStep DEF Serve
    <2> QED
      BY <1>2, <2>1, <2>2, <2>3
  <1>3. CASE UNCHANGED vars
    <2>1. UNCHANGED <<file, count, link, pending, toServer, toClient, room, screen,
                      dismissed, dropped>>
      BY <1>3 DEF vars, client
    <2>2. Typed' /\ FileInOrder'
      BY <2>1 DEF StreamInv, Typed, FileInOrder
    <2>3. \A v \in Viewers : ViewerInv(v)'
      BY <2>1, OtherViewer DEF StreamInv
    <2> QED
      BY <2>2, <2>3 DEF StreamInv
  <1> QED
    BY <1>1, <1>2, <1>3 DEF Next

(* Every reachable state is typed: only a connected viewer has packets      *)
(* under way or a place in the room, however connections come and go.       *)
THEOREM StreamTypes == Spec => []TypeOK
  BY StreamInit, StreamNext, InvImplies, PTL DEF Spec

(* No browser shows a line twice or after a later one: the replay of the    *)
(* file and the emissions to the room cannot overlap or cross.              *)
THEOREM ScreensInOrder == Spec => []ScreenInOrder
  BY StreamInit, StreamNext, InvImplies, PTL DEF Spec

(* Whoever is in the room has, or will get, every line of the file that the *)
(* user did not dismiss: no line falls between the replay and the join.     *)
THEOREM RoomIsComplete == Spec => []RoomSeesAll
  BY StreamInit, StreamNext, InvImplies, PTL DEF Spec
=============================================================================
