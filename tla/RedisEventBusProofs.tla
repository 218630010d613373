------------------------ MODULE RedisEventBusProofs -------------------------
(***************************************************************************)
(* Proofs about RedisEventBus, for any capacities of the two channels and  *)
(* any number of messages.                                                 *)
(***************************************************************************)
EXTENDS RedisEventBus, SequenceTheorems, TLAPS

USE MaxMessagesAssumption, InboxAssumption, EventChAssumption

-----------------------------------------------------------------------------
(* The inductive invariant, stage by stage.                                *)

Increasing(s) == \A i, j \in 1 .. Len(s) : i < j => s[i] < s[j]
Before(s, t) == \A i \in 1 .. Len(s), j \in 1 .. Len(t) : s[i] < t[j]
UpTo(s, n) == \A i \in 1 .. Len(s) : s[i] <= n

\* The stages hold increasing numbers, each stage lower ones than the next, all of
\* messages that were delivered.
OrderInv ==
    /\ Increasing(forwarded) /\ Increasing(eventCh) /\ Increasing(hand) /\ Increasing(inbox)
    /\ Before(forwarded, eventCh) /\ Before(forwarded, hand) /\ Before(forwarded, inbox)
    /\ Before(eventCh, hand) /\ Before(eventCh, inbox) /\ Before(hand, inbox)
    /\ UpTo(forwarded, delivered) /\ UpTo(eventCh, delivered)
    /\ UpTo(hand, delivered) /\ UpTo(inbox, delivered)

OnTheWay(n) ==
    Contains(forwarded, n) \/ Contains(eventCh, n) \/ Contains(hand, n) \/ Contains(inbox, n)

\* Nothing is lost while the subscription is open.
CompleteInv ==
    ~closed => \A n \in 1 .. delivered : n \in skipped \cup dropped \/ OnTheWay(n)

\* The forwarder's hand is empty while it waits and full while it holds.
HandInv ==
    /\ forwarder = "waiting" => hand = <<>>
    /\ forwarder = "holding" => Len(hand) = 1

BusInv == TypeOK /\ HandInv /\ OrderInv /\ CompleteInv

-----------------------------------------------------------------------------
(* Sequences.                                                              *)

\* What Append does to the elements of a sequence.
LEMMA AppendFacts ==
    ASSUME NEW S, NEW s \in Seq(S), NEW x \in S
    PROVE  /\ Append(s, x) \in Seq(S) /\ Len(Append(s, x)) = Len(s) + 1
           /\ Append(s, x)[Len(s) + 1] = x
           /\ \A i \in 1 .. Len(s) : Append(s, x)[i] = s[i]
           /\ \A y : Contains(Append(s, x), y) <=> Contains(s, y) \/ y = x
<1>1. /\ Append(s, x) \in Seq(S) /\ Len(Append(s, x)) = Len(s) + 1
      /\ Append(s, x)[Len(s) + 1] = x /\ \A i \in 1 .. Len(s) : Append(s, x)[i] = s[i]
      /\ Len(s) \in Nat
  OBVIOUS
<1>2. \A y : Contains(Append(s, x), y) <=> Contains(s, y) \/ y = x
  <2> DEFINE t == Append(s, x)
  <2> SUFFICES ASSUME NEW y
               PROVE  (\E i \in 1 .. Len(t) : t[i] = y)
                          <=> (\E i \in 1 .. Len(s) : s[i] = y) \/ y = x
    BY DEF Contains
  <2>1. /\ Len(t) = Len(s) + 1 /\ t[Len(s) + 1] = x
        /\ \A i \in 1 .. Len(s) : t[i] = s[i]
    BY <1>1
  <2> HIDE DEF t
  <2> QED BY <1>1, <2>1
<1> QED BY <1>1, <1>2

\* What taking the first element leaves.
LEMMA TailFacts ==
    ASSUME NEW S, NEW s \in Seq(S), s # <<>>
    PROVE  /\ Tail(s) \in Seq(S) /\ Len(s) = Len(Tail(s)) + 1
           /\ Head(s) \in S /\ Head(s) = s[1] /\ 1 \in 1 .. Len(s)
           /\ \A i \in 1 .. Len(Tail(s)) : Tail(s)[i] = s[i + 1] /\ i + 1 \in 1 .. Len(s)
           /\ \A y : Contains(s, y) <=> y = Head(s) \/ Contains(Tail(s), y)
<1>1. /\ Tail(s) \in Seq(S) /\ Len(s) = Len(Tail(s)) + 1
      /\ Head(s) \in S /\ Head(s) = s[1] /\ Len(s) \in Nat \ {0}
      /\ \A i \in 1 .. Len(s) - 1 : Tail(s)[i] = s[i + 1]
  OBVIOUS
<1>2. ASSUME NEW y PROVE Contains(s, y) <=> y = Head(s) \/ Contains(Tail(s), y)
  <2> DEFINE t == Tail(s)
  <2>1. /\ Len(s) = Len(t) + 1 /\ Len(t) \in Nat /\ Head(s) = s[1]
        /\ \A i \in 1 .. Len(t) : t[i] = s[i + 1]
    BY <1>1
  <2> HIDE DEF t
  <2>2. ASSUME NEW i \in 1 .. Len(s), s[i] = y PROVE y = Head(s) \/ Contains(t, y)
    <3>1. CASE i = 1  BY <2>1, <2>2, <3>1
    <3>2. CASE i # 1
      <4>1. i - 1 \in 1 .. Len(t) /\ t[i - 1] = y
        BY <2>1, <2>2, <3>2
      <4> QED BY <4>1 DEF Contains
    <3> QED BY <3>1, <3>2
  <2>3. ASSUME NEW i \in 1 .. Len(t), t[i] = y PROVE Contains(s, y)
    <3>1. i + 1 \in 1 .. Len(s) /\ s[i + 1] = y
      BY <2>1, <2>3
    <3> QED BY <3>1 DEF Contains
  <2>4. y = Head(s) => Contains(s, y)
    BY <2>1 DEF Contains
  <2> QED BY <2>2, <2>3, <2>4 DEF Contains, t
<1> QED BY <1>1, <1>2

\* How the order of stages survives an element put at the end of one ...
LEMMA OrderAppend ==
    ASSUME NEW s \in Seq(Messages), NEW x \in Messages, Increasing(s),
           \A i \in 1 .. Len(s) : s[i] < x
    PROVE  /\ Increasing(Append(s, x))
           /\ \A t \in Seq(Messages) :
                 /\ Before(s, t) /\ (\A j \in 1 .. Len(t) : x < t[j]) => Before(Append(s, x), t)
                 /\ Before(t, s) /\ (\A j \in 1 .. Len(t) : t[j] < x) => Before(t, Append(s, x))
           /\ \A n \in Nat : UpTo(s, n) /\ x <= n => UpTo(Append(s, x), n)
<1> DEFINE a == Append(s, x)
<1>1. /\ Len(a) = Len(s) + 1 /\ Len(s) \in Nat /\ a[Len(s) + 1] = x
      /\ \A i \in 1 .. Len(s) : a[i] = s[i] /\ s[i] \in Nat
      /\ x \in Nat
  BY AppendFacts DEF Messages
<1> HIDE DEF a
<1>2. \A i \in 1 .. Len(a) : i \in 1 .. Len(s) \/ i = Len(s) + 1
  BY <1>1
<1>3. Increasing(a)
  BY <1>1, <1>2 DEF Increasing
<1>4. \A n \in Nat : UpTo(s, n) /\ x <= n => UpTo(a, n)
  BY <1>1, <1>2 DEF UpTo
<1>5. ASSUME NEW t \in Seq(Messages)
      PROVE  /\ Before(s, t) /\ (\A j \in 1 .. Len(t) : x < t[j]) => Before(a, t)
             /\ Before(t, s) /\ (\A j \in 1 .. Len(t) : t[j] < x) => Before(t, a)
  BY <1>1, <1>2 DEF Before
<1> QED BY <1>3, <1>4, <1>5 DEF a

\* ... and one taken from its front.
LEMMA OrderTail ==
    ASSUME NEW s \in Seq(Messages), s # <<>>, Increasing(s)
    PROVE  /\ Increasing(Tail(s))
           /\ \A j \in 1 .. Len(Tail(s)) : Head(s) < Tail(s)[j]
           /\ \A t \in Seq(Messages) :
                 /\ Before(s, t) => Before(Tail(s), t) /\ \A j \in 1 .. Len(t) : Head(s) < t[j]
                 /\ Before(t, s) => Before(t, Tail(s)) /\ \A j \in 1 .. Len(t) : t[j] < Head(s)
           /\ \A n \in Nat : UpTo(s, n) => UpTo(Tail(s), n) /\ Head(s) <= n
<1> DEFINE a == Tail(s)
           x == Head(s)
<1>1. /\ Len(s) = Len(a) + 1 /\ Len(a) \in Nat /\ x = s[1] /\ 1 \in 1 .. Len(s)
      /\ \A i \in 1 .. Len(a) : a[i] = s[i + 1] /\ i + 1 \in 1 .. Len(s) /\ 1 < i + 1
  BY TailFacts
<1> HIDE DEF a, x
<1>2. Increasing(a) /\ \A j \in 1 .. Len(a) : x < a[j]
  <2>1. \A j \in 1 .. Len(a) : x < a[j]
    BY <1>1 DEF Increasing
  <2>2. ASSUME NEW i \in 1 .. Len(a), NEW j \in 1 .. Len(a), i < j PROVE a[i] < a[j]
    <3>1. /\ a[i] = s[i + 1] /\ i + 1 \in 1 .. Len(s)
          /\ a[j] = s[j + 1] /\ j + 1 \in 1 .. Len(s) /\ i + 1 < j + 1
      BY <1>1, <2>2
    <3> QED BY <3>1 DEF Increasing
  <2> QED BY <2>1, <2>2 DEF Increasing
<1>3. \A n \in Nat : UpTo(s, n) => UpTo(a, n) /\ x <= n
  BY <1>1 DEF UpTo
<1>4. ASSUME NEW t \in Seq(Messages)
      PROVE  /\ Before(s, t) => Before(a, t) /\ \A j \in 1 .. Len(t) : x < t[j]
             /\ Before(t, s) => Before(t, a) /\ \A j \in 1 .. Len(t) : t[j] < x
  BY <1>1 DEF Before
<1> QED BY <1>2, <1>3, <1>4 DEF a, x

\* The forwarder's hand holds one message at most.
LEMMA OneInHand ==
    ASSUME NEW x \in Messages
    PROVE  /\ <<x>> \in Seq(Messages) /\ Len(<<x>>) = 1 /\ <<x>>[1] = x
           /\ Increasing(<<x>>) /\ \A y : Contains(<<x>>, y) <=> y = x
BY DEF Increasing, Contains

\* The empty sequence.
LEMMA EmptyStage ==
    /\ <<>> \in Seq(Messages) /\ Len(<<>>) = 0 /\ Increasing(<<>>)
    /\ \A s : Before(<<>>, s) /\ Before(s, <<>>)
    /\ \A n : UpTo(<<>>, n) /\ ~Contains(<<>>, n)
BY DEF Increasing, Before, UpTo, Contains

-----------------------------------------------------------------------------
(* The invariant.                                                          *)

\* BusInv holds initially.
LEMMA InitBusInv == Init => BusInv
<1> SUFFICES ASSUME Init PROVE BusInv
  OBVIOUS
<1>1. /\ inbox = <<>> /\ hand = <<>> /\ eventCh = <<>> /\ forwarded = <<>>
      /\ delivered = 0 /\ skipped = {} /\ dropped = {} /\ forwarder = "waiting"
      /\ handler = "streaming" /\ closed = FALSE /\ ctxDone = FALSE
  BY DEF Init
<1>2. TypeOK
  <2>1. 0 \in 0 .. MaxMessages /\ 0 <= Inbox /\ 0 <= Buffer /\ 0 <= 1
    OBVIOUS
  <2>2. closed \in BOOLEAN /\ ctxDone \in BOOLEAN
    BY <1>1
  <2> QED BY <1>1, <2>1, <2>2, EmptyStage, Zenon DEF TypeOK
<1>3. HandInv /\ OrderInv
  BY <1>1, EmptyStage DEF HandInv, OrderInv
<1>4. CompleteInv
  BY <1>1 DEF CompleteInv
<1> QED BY <1>2, <1>3, <1>4 DEF BusInv

\* A message arrives with a higher number than all before it.
LEMMA ArriveInv ==
    ASSUME BusInv, Arrive
    PROVE  BusInv'
<1>1. /\ delivered < MaxMessages /\ Len(inbox) < Inbox
      /\ delivered' = delivered + 1 /\ inbox' = Append(inbox, delivered + 1)
      /\ UNCHANGED <<forwarder, hand, eventCh, closed, ctxDone, handler, forwarded,
                     skipped, dropped>>
  BY DEF Arrive
<1>2. delivered \in Nat /\ delivered + 1 \in Messages /\ inbox \in Seq(Messages)
  BY <1>1 DEF BusInv, TypeOK, Messages
<1>3. /\ inbox' \in Seq(Messages) /\ Len(inbox') = Len(inbox) + 1
      /\ \A y : Contains(inbox', y) <=> Contains(inbox, y) \/ y = delivered + 1
  BY <1>1, <1>2, AppendFacts
<1>4. TypeOK' /\ HandInv'
  BY <1>1, <1>2, <1>3 DEF BusInv, TypeOK, HandInv
<1>5. OrderInv'
  <2>1. ASSUME NEW s \in Seq(Messages), UpTo(s, delivered)
        PROVE  (\A i \in 1 .. Len(s) : s[i] < delivered + 1) /\ UpTo(s, delivered + 1)
    BY <1>2, <2>1 DEF UpTo, Messages
  <2>2. /\ forwarded \in Seq(Messages) /\ eventCh \in Seq(Messages) /\ hand \in Seq(Messages)
        /\ OrderInv
    BY DEF BusInv, TypeOK
  <2>3. /\ Increasing(inbox') /\ UpTo(inbox', delivered')
        /\ \A t \in Seq(Messages) : Before(t, inbox) /\ UpTo(t, delivered) => Before(t, inbox')
    <3>1. Increasing(inbox) /\ UpTo(inbox, delivered)
      BY <2>2 DEF OrderInv
    <3>2. \A i \in 1 .. Len(inbox) : inbox[i] < delivered + 1
      BY <1>2, <2>1, <3>1
    <3>3. UpTo(inbox, delivered + 1) /\ delivered + 1 \in Nat /\ delivered + 1 <= delivered + 1
      BY <1>2, <2>1, <3>1
    <3>4. /\ Increasing(Append(inbox, delivered + 1))
          /\ \A t \in Seq(Messages) :
                Before(t, inbox) /\ (\A j \in 1 .. Len(t) : t[j] < delivered + 1)
                    => Before(t, Append(inbox, delivered + 1))
          /\ \A n \in Nat : UpTo(inbox, n) /\ delivered + 1 <= n
                    => UpTo(Append(inbox, delivered + 1), n)
      BY <1>2, <3>1, <3>2, OrderAppend
    <3> QED BY <1>1, <2>1, <3>3, <3>4
  <2> QED BY <1>1, <2>1, <2>2, <2>3 DEF OrderInv
<1>6. CompleteInv'
  <2> SUFFICES ASSUME ~closed, NEW n \in 1 .. delivered + 1
               PROVE  n \in skipped \cup dropped \/ OnTheWay(n)'
    BY <1>1 DEF CompleteInv
  <2>1. n \in 1 .. delivered \/ n = delivered + 1
    BY <1>2
  <2> QED BY <1>1, <1>3, <2>1 DEF BusInv, CompleteInv, OnTheWay
<1> QED BY <1>4, <1>5, <1>6 DEF BusInv

\* A message that is given up has a number of its own.
LEMMA DropInv ==
    ASSUME BusInv, Drop
    PROVE  BusInv'
<1>1. /\ delivered < MaxMessages /\ delivered' = delivered + 1
      /\ dropped' = dropped \cup {delivered + 1}
      /\ UNCHANGED <<inbox, forwarder, hand, eventCh, closed, ctxDone, handler,
                     forwarded, skipped>>
  BY DEF Drop
<1>2. delivered \in Nat /\ delivered + 1 \in Messages
  BY <1>1 DEF BusInv, TypeOK, Messages
<1>3. TypeOK' /\ HandInv'
  BY <1>1, <1>2 DEF BusInv, TypeOK, HandInv
<1>4. OrderInv'
  <2>1. ASSUME NEW s \in Seq(Messages), UpTo(s, delivered) PROVE UpTo(s, delivered + 1)
    BY <1>2, <2>1 DEF UpTo, Messages
  <2> QED BY <1>1, <2>1 DEF BusInv, TypeOK, OrderInv
<1>5. CompleteInv'
  <2> SUFFICES ASSUME ~closed, NEW n \in 1 .. delivered + 1
               PROVE  n \in skipped \cup dropped' \/ OnTheWay(n)
    BY <1>1 DEF CompleteInv, OnTheWay
  <2>1. n \in 1 .. delivered \/ n = delivered + 1
    BY <1>2
  <2> QED BY <1>1, <2>1 DEF BusInv, CompleteInv
<1> QED BY <1>3, <1>4, <1>5 DEF BusInv

\* The forwarder takes the oldest message of its inbox.
LEMMA TakeInv ==
    ASSUME BusInv, Take \/ Skip
    PROVE  BusInv'
<1>1. /\ inbox # <<>> /\ inbox' = Tail(inbox) /\ forwarder = "waiting"
      /\ \/ /\ hand' = <<Head(inbox)>> /\ forwarder' = "holding" /\ skipped' = skipped
         \/ /\ hand' = hand /\ forwarder' = forwarder
            /\ skipped' = skipped \cup {Head(inbox)}
      /\ UNCHANGED <<delivered, eventCh, closed, ctxDone, handler, forwarded, dropped>>
  BY DEF Take, Skip
<1>2. /\ delivered \in Nat /\ inbox \in Seq(Messages) /\ hand = <<>>
      /\ forwarded \in Seq(Messages) /\ eventCh \in Seq(Messages)
  BY <1>1 DEF BusInv, HandInv, TypeOK, Messages
<1> DEFINE x == Head(inbox)
<1>3. /\ x \in Messages /\ inbox' \in Seq(Messages) /\ Len(inbox) = Len(inbox') + 1
      /\ \A y : Contains(inbox, y) <=> y = x \/ Contains(inbox', y)
  BY <1>1, <1>2, TailFacts
<1>4. /\ Increasing(inbox') /\ UpTo(inbox', delivered) /\ x <= delivered
      /\ \A j \in 1 .. Len(inbox') : x < inbox'[j]
      /\ \A t \in Seq(Messages) : Before(t, inbox) =>
            Before(t, inbox') /\ \A j \in 1 .. Len(t) : t[j] < x
  BY <1>1, <1>2, OrderTail DEF BusInv, OrderInv
<1>5. /\ <<x>> \in Seq(Messages) /\ Len(<<x>>) = 1 /\ <<x>>[1] = x
      /\ Increasing(<<x>>) /\ \A y : Contains(<<x>>, y) <=> y = x
  BY <1>3, OneInHand
<1> HIDE DEF x
<1>6. TypeOK' /\ HandInv'
  <2>1. /\ hand' \in Seq(Messages) /\ Len(hand') <= 1 /\ skipped' \in SUBSET Messages
        /\ (forwarder' = "waiting" => hand' = <<>>) /\ (forwarder' = "holding" => Len(hand') = 1)
        /\ forwarder' \in {"waiting", "holding"}
    <3>1. CASE hand' = <<Head(inbox)>> /\ forwarder' = "holding" /\ skipped' = skipped
      <4>1. hand' = <<x>>
        BY <3>1 DEF x
      <4> QED BY <1>5, <3>1, <4>1 DEF BusInv, TypeOK
    <3>2. CASE hand' = hand /\ forwarder' = forwarder /\ skipped' = skipped \cup {Head(inbox)}
      <4>1. skipped' \in SUBSET Messages
        BY <1>3, <3>2 DEF x, BusInv, TypeOK
      <4> QED BY <1>1, <1>2, <3>2, <4>1, EmptyStage
    <3> QED BY <1>1, <3>1, <3>2
  <2>2. Len(inbox') \in Nat /\ Len(inbox') <= Inbox
    BY <1>2, <1>3 DEF BusInv, TypeOK
  <2> QED BY <1>1, <1>3, <2>1, <2>2 DEF BusInv, TypeOK, HandInv
<1>7. OrderInv'
  <2>1. OrderInv
    BY DEF BusInv
  <2>2. CASE hand' = hand
    BY <1>1, <1>2, <1>4, <2>1, <2>2, EmptyStage DEF OrderInv
  <2>3. CASE hand' = <<x>>
    <3>1. Before(<<x>>, inbox') /\ UpTo(<<x>>, delivered)
      BY <1>4, <1>5 DEF Before, UpTo
    <3>2. Before(forwarded, <<x>>) /\ Before(eventCh, <<x>>)
      BY <1>2, <1>4, <1>5, <2>1 DEF Before, OrderInv
    <3> QED BY <1>1, <1>2, <1>4, <1>5, <2>1, <2>3, <3>1, <3>2 DEF OrderInv
  <2> QED BY <1>1, <2>2, <2>3 DEF x
<1>8. CompleteInv'
  <2> SUFFICES ASSUME ~closed, NEW n \in 1 .. delivered
               PROVE  n \in skipped' \cup dropped \/ OnTheWay(n)'
    BY <1>1 DEF CompleteInv
  <2>1. n \in skipped \cup dropped \/ OnTheWay(n)
    BY DEF BusInv, CompleteInv
  <2>2. ~Contains(hand, n)
    BY <1>2, EmptyStage
  <2> QED BY <1>1, <1>3, <1>5, <2>1, <2>2 DEF OnTheWay, x
<1> QED BY <1>6, <1>7, <1>8 DEF BusInv

\* What the forwarder holds goes behind the events of eventCh.
LEMMA SendInv ==
    ASSUME BusInv, Send
    PROVE  BusInv'
<1>1. /\ forwarder = "holding" /\ Len(eventCh) < Buffer /\ eventCh' = eventCh \o hand
      /\ hand' = <<>> /\ forwarder' = "waiting"
      /\ UNCHANGED <<delivered, inbox, closed, ctxDone, handler, forwarded, skipped, dropped>>
  BY DEF Send, Room
<1>2. /\ delivered \in Nat /\ inbox \in Seq(Messages) /\ hand \in Seq(Messages)
      /\ Len(hand) = 1 /\ forwarded \in Seq(Messages) /\ eventCh \in Seq(Messages)
  BY <1>1 DEF BusInv, HandInv, TypeOK, Messages
<1> DEFINE x == hand[1]
<1>3. x \in Messages /\ hand = <<x>> /\ eventCh' = Append(eventCh, x)
  <2>1. x \in Messages /\ hand = <<x>>
    <3>1. x \in Messages
      <4>1. 1 \in 1 .. Len(hand)
        BY <1>2
      <4>2. \A i \in 1 .. Len(hand) : hand[i] \in Messages
        BY <1>2, ElementOfSeq
      <4> QED BY <4>1, <4>2 DEF x
    <3>2. <<x>> \in Seq(Messages) /\ Len(<<x>>) = 1 /\ \A i \in 1 .. 1 : <<x>>[i] = hand[i]
      BY <1>2, <3>1
    <3> QED BY <1>2, <3>1, <3>2, SeqEqual
  <2>2. eventCh \o <<x>> = Append(eventCh, x)
    BY <1>2, <2>1
  <2> QED BY <1>1, <2>1, <2>2
<1>4. /\ <<x>> \in Seq(Messages) /\ Len(<<x>>) = 1 /\ <<x>>[1] = x
      /\ \A y : Contains(<<x>>, y) <=> y = x
  BY <1>3, OneInHand
<1>5. /\ eventCh' \in Seq(Messages) /\ Len(eventCh') = Len(eventCh) + 1
      /\ \A y : Contains(eventCh', y) <=> Contains(eventCh, y) \/ y = x
  BY <1>2, <1>3, AppendFacts
<1> HIDE DEF x
<1>6. TypeOK' /\ HandInv'
  BY <1>1, <1>2, <1>5, EmptyStage DEF BusInv, TypeOK, HandInv
<1>7. OrderInv'
  <2>1. /\ OrderInv /\ \A j \in 1 .. Len(inbox) : x < inbox[j]
        /\ \A i \in 1 .. Len(eventCh) : eventCh[i] < x
        /\ \A i \in 1 .. Len(forwarded) : forwarded[i] < x
        /\ x <= delivered
    BY <1>2, <1>3, <1>4 DEF BusInv, OrderInv, Before, UpTo
  <2>2. /\ Increasing(eventCh') /\ UpTo(eventCh', delivered)
        /\ Before(forwarded, eventCh') /\ Before(eventCh', inbox)
    BY <1>2, <1>3, <2>1, OrderAppend DEF OrderInv
  <2> QED BY <1>1, <2>1, <2>2, EmptyStage DEF OrderInv
<1>8. CompleteInv'
  <2> SUFFICES ASSUME ~closed, NEW n \in 1 .. delivered
               PROVE  n \in skipped \cup dropped \/ OnTheWay(n)'
    BY <1>1 DEF CompleteInv
  <2>1. n \in skipped \cup dropped \/ OnTheWay(n)
    BY DEF BusInv, CompleteInv
  <2> QED BY <1>1, <1>3, <1>4, <1>5, <2>1 DEF OnTheWay
<1> QED BY <1>6, <1>7, <1>8 DEF BusInv

\* The handler takes the oldest event of eventCh.
LEMMA ReceiveInv ==
    ASSUME BusInv, Receive
    PROVE  BusInv'
<1>1. /\ eventCh # <<>> /\ eventCh' = Tail(eventCh)
      /\ forwarded' = Append(forwarded, Head(eventCh))
      /\ UNCHANGED <<delivered, inbox, forwarder, hand, closed, ctxDone, handler,
                     skipped, dropped>>
  BY DEF Receive
<1>2. /\ delivered \in Nat /\ inbox \in Seq(Messages) /\ hand \in Seq(Messages)
      /\ forwarded \in Seq(Messages) /\ eventCh \in Seq(Messages) /\ OrderInv
  BY DEF BusInv, TypeOK
<1> DEFINE x == Head(eventCh)
<1>3. /\ x \in Messages /\ eventCh' \in Seq(Messages) /\ Len(eventCh) = Len(eventCh') + 1
      /\ \A y : Contains(eventCh, y) <=> y = x \/ Contains(eventCh', y)
  BY <1>1, <1>2, TailFacts
<1>4. /\ Increasing(eventCh') /\ UpTo(eventCh', delivered) /\ x <= delivered
      /\ \A j \in 1 .. Len(eventCh') : x < eventCh'[j]
      /\ \A t \in Seq(Messages) :
            /\ Before(eventCh, t) => Before(eventCh', t) /\ \A j \in 1 .. Len(t) : x < t[j]
            /\ Before(t, eventCh) => Before(t, eventCh') /\ \A j \in 1 .. Len(t) : t[j] < x
  BY <1>1, <1>2, OrderTail DEF OrderInv
<1>5. /\ forwarded' \in Seq(Messages)
      /\ \A y : Contains(forwarded', y) <=> Contains(forwarded, y) \/ y = x
  BY <1>1, <1>2, <1>3, AppendFacts
<1>6. forwarded' = Append(forwarded, x)
  BY <1>1
<1> HIDE DEF x
<1>7. TypeOK' /\ HandInv'
  <2>1. Len(eventCh') \in Nat /\ Len(eventCh') <= Buffer
    BY <1>2, <1>3 DEF BusInv, TypeOK
  <2> QED BY <1>1, <1>3, <1>5, <2>1 DEF BusInv, TypeOK, HandInv
<1>8. OrderInv'
  <2>1. \A i \in 1 .. Len(forwarded) : forwarded[i] < x
    BY <1>2, <1>4 DEF OrderInv
  <2>2. /\ Increasing(forwarded') /\ UpTo(forwarded', delivered)
        /\ \A t \in Seq(Messages) :
              Before(forwarded, t) /\ (\A j \in 1 .. Len(t) : x < t[j]) => Before(forwarded', t)
    BY <1>2, <1>3, <1>4, <1>6, <2>1, OrderAppend DEF OrderInv
  <2>3. Before(forwarded, eventCh')
    BY <1>2, <1>4 DEF OrderInv
  <2> QED BY <1>1, <1>2, <1>3, <1>4, <2>2, <2>3 DEF OrderInv
<1>9. CompleteInv'
  <2> SUFFICES ASSUME ~closed, NEW n \in 1 .. delivered
               PROVE  n \in skipped \cup dropped \/ OnTheWay(n)'
    BY <1>1 DEF CompleteInv
  <2>1. n \in skipped \cup dropped \/ OnTheWay(n)
    BY DEF BusInv, CompleteInv
  <2> QED BY <1>1, <1>3, <1>5, <2>1 DEF OnTheWay
<1> QED BY <1>7, <1>8, <1>9 DEF BusInv

\* The other steps move no message.
LEMMA StillInv ==
    ASSUME BusInv,
           SendOnClosed \/ Exit \/ Disconnect \/ Unsubscribe \/ Return \/ UNCHANGED vars
    PROVE  BusInv'
<1>1. /\ UNCHANGED <<delivered, inbox, hand, eventCh, forwarded, skipped, dropped>>
      /\ forwarder' = forwarder \/ forwarder' \in {"exited", "panicked"}
      /\ closed' = closed \/ closed' = TRUE
      /\ ctxDone' = ctxDone \/ ctxDone' = TRUE
      /\ handler' = handler \/ handler' \in {"unsubscribed", "returned"}
  BY DEF SendOnClosed, Exit, Disconnect, Unsubscribe, Return, vars
<1>2. TypeOK'
  <2>1. closed' \in BOOLEAN /\ ctxDone' \in BOOLEAN
    BY <1>1, Zenon DEF BusInv, TypeOK
  <2> QED BY <1>1, <2>1 DEF BusInv, TypeOK
<1>3. HandInv' /\ OrderInv' /\ CompleteInv'
  BY <1>1 DEF BusInv, HandInv, OrderInv, CompleteInv, OnTheWay
<1> QED BY <1>2, <1>3 DEF BusInv

\* BusInv is preserved by every step of Redis, the forwarder and the handler.
LEMMA NextBusInv == BusInv /\ [Next]_vars => BusInv'
BY ArriveInv, DropInv, TakeInv, SendInv, ReceiveInv, StillInv DEF Next, ForwarderStep

\* The inductive invariant holds throughout.
LEMMA BusInvHolds == Spec => []BusInv
BY InitBusInv, NextBusInv, PTL DEF Spec

\* Every variable stays in its type, no channel exceeds its capacity.
THEOREM TypeCorrect == Spec => []TypeOK
<1>1. BusInv => TypeOK  BY DEF BusInv
<1> QED BY <1>1, BusInvHolds, PTL

\* What the client gets is what Redis delivers, in its order, without repetition
\* and, until somebody closes the subscription, without a gap but for messages
\* that were not decoded and those go-redis gave up on.
THEOREM NothingLostWhileOpen == Spec => []DeliveredInFull
<1>1. BusInv => InOrder
  <2> SUFFICES ASSUME BusInv, NEW a \in 1 .. 4, NEW b \in 1 .. 4,
                      NEW i \in 1 .. Len(Stages[a]), NEW j \in 1 .. Len(Stages[b]),
                      a < b \/ (a = b /\ i < j)
               PROVE  Stages[a][i] < Stages[b][j]
    BY DEF InOrder
  <2>1. /\ Stages[1] = forwarded /\ Stages[2] = eventCh /\ Stages[3] = hand
        /\ Stages[4] = inbox /\ OrderInv
    BY DEF Stages, BusInv
  <2>2. a \in {1, 2, 3, 4} /\ b \in {1, 2, 3, 4}
    OBVIOUS
  <2>3. CASE a = b
    BY <2>1, <2>2, <2>3 DEF OrderInv, Increasing
  <2>4. CASE a = 1 /\ b \in {2, 3, 4}
    BY <2>1, <2>4 DEF OrderInv, Before
  <2>5. CASE a = 2 /\ b \in {3, 4}
    BY <2>1, <2>5 DEF OrderInv, Before
  <2>6. CASE a = 3 /\ b = 4
    BY <2>1, <2>6 DEF OrderInv, Before
  <2> QED BY <2>2, <2>3, <2>4, <2>5, <2>6
<1>2. BusInv => Complete
  <2> SUFFICES ASSUME BusInv, ~closed, NEW n \in 1 .. delivered
               PROVE  n \in skipped \cup dropped \/ \E a \in 1 .. 4 : Contains(Stages[a], n)
    BY DEF Complete
  <2>1. /\ Stages[1] = forwarded /\ Stages[2] = eventCh /\ Stages[3] = hand
        /\ Stages[4] = inbox
    BY DEF Stages
  <2>2. n \in skipped \cup dropped \/ OnTheWay(n)
    BY DEF BusInv, CompleteInv
  <2>3. 1 \in 1 .. 4 /\ 2 \in 1 .. 4 /\ 3 \in 1 .. 4 /\ 4 \in 1 .. 4
    OBVIOUS
  <2> QED BY <2>1, <2>2, <2>3 DEF OnTheWay
<1> QED BY <1>1, <1>2, BusInvHolds, PTL DEF DeliveredInFull

-----------------------------------------------------------------------------
(* What unsubscribing may cost.                                            *)

\* CancelIsSafe does not hold; what does: the forwarder's send panics only after
\* the handler that owns the subscription has left its loop, never under a
\* client that is still being served.
PanicExplained ==
    forwarder = "panicked" => closed /\ handler # "streaming"

\* The forwarder closes the subscription itself only as it exits.
ClosedBy == closed => handler # "streaming" \/ forwarder = "exited"

\* A panic of the forwarder always comes from the handler's unsubscribe.
THEOREM PanicOnlyByUnsubscribe == Spec => []PanicExplained
<1> DEFINE Inv == ClosedBy /\ PanicExplained
<1>1. Init => Inv
  BY DEF Init, ClosedBy, PanicExplained
<1>2. TypeOK /\ Inv /\ [Next]_vars => Inv'
  BY DEF TypeOK, ClosedBy, PanicExplained, Next, ForwarderStep, vars, Arrive, Drop, Take,
         Skip, Send, SendOnClosed, Exit, Stops, Receive, Disconnect, Unsubscribe, Return
<1> QED BY <1>1, <1>2, TypeCorrect, PTL DEF Spec
=============================================================================
