-------------------------- MODULE LiveStreamProofs ---------------------------
(***************************************************************************)
(* Proofs about MemoryEventBus and LiveStream, for any number of clients   *)
(* and of events and any capacity of the channels.                         *)
(***************************************************************************)
EXTENDS LiveStream, SequenceTheorems, TLAPS

USE BufferAssumption, StepsAssumption, PublishersAssumption

-----------------------------------------------------------------------------
(* The inductive invariant, in parts.                                      *)

Distinct(s) == \A i, j \in 1 .. Len(s) : s[i] = s[j] => i = j

\* Only a publisher that holds the read lock has an event and channels to serve,
\* all of them open and different; a closed bus serves none.
FanoutOpen ==
    \A p \in Publishers :
        /\ p \in locked => sent[p] > 0
        /\ p \notin locked \/ closed => fanout[p] = <<>>
        /\ Distinct(fanout[p])
        /\ \A i \in 1 .. Len(fanout[p]) : state[fanout[p][i]] = "open"

\* A channel was closed by its own cleanup function or by the shutdown.
ClosedBy == \A s \in Subscribers : state[s] = "closed" => s \in cleaned \/ closed

\* Handlers subscribe once the submission was accepted; before that their
\* channels hold nothing.
HandlerOrder ==
    \A c \in Clients :
        /\ ws[c] # "away" => accepted
        /\ ws[c] = "reporting" => record
        /\ state[c] # "none" => ws[c] \in {"streaming", "writing", "returning", "gone"}
        /\ state[c] = "none" => channel[c] = <<>> /\ received[c] = <<>>

\* QUEUED goes out before anyone listens; the final event is the worker's last.
ServerOrder ==
    /\ accepted => sent[api] = 1 /\ api \notin locked
    /\ fanout[api] = <<>>
    /\ final = 0 => sent[worker] <= Steps
    /\ final > 0 => record /\ final = sent[worker]
    /\ reported # {} => record

\* What a client has received and what its channel holds.
Pipe(c) == received[c] \o channel[c]

\* The worker's running Publish has still to serve this client.
Pending(c) == Contains(fanout[worker], c)

Increasing(s) == \A i, j \in 1 .. Len(s) : i < j => s[i][2] < s[j][2]
Below(s, n) == \A i \in 1 .. Len(s) : s[i][2] <= n
Gaps(s, missing) ==
    \A i \in 1 .. Len(s) - 1 : \A n \in s[i][2] + 1 .. s[i + 1][2] - 1 :
        <<worker, n>> \in missing
After(s, last, missing) ==
    Len(s) > 0 => \A n \in s[Len(s)][2] + 1 .. last : <<worker, n>> \in missing

\* The number of the last event this client was served.
Served(c) == IF Pending(c) THEN sent[worker] - 1 ELSE sent[worker]

\* The stream s of a client that was served up to event last: in order, with the
\* missing ones dropped, also at its end while the client is still listening.
Stream(s, last, missing, listening) ==
    /\ Increasing(s) /\ Below(s, last) /\ Gaps(s, missing)
    /\ listening => After(s, last, missing)

\* What a client gets grows at its end, and what it misses was dropped.
StreamInv ==
    \A c \in Clients :
        Stream(Pipe(c), Served(c), dropped[c], state[c] = "open" /\ ~closed)

-----------------------------------------------------------------------------
(* Sequences.                                                              *)

\* What Append does to the elements of a sequence.
LEMMA AppendFacts ==
    ASSUME NEW S, NEW s \in Seq(S), NEW x \in S
    PROVE  /\ Append(s, x) \in Seq(S) /\ Len(Append(s, x)) = Len(s) + 1
           /\ Append(s, x)[Len(s) + 1] = x
           /\ \A i \in 1 .. Len(s) : Append(s, x)[i] = s[i]
           /\ \A y : Contains(Append(s, x), y) <=> Contains(s, y) \/ y = x
BY DEF Contains

\* What Head and Tail do to the elements of a sequence.
LEMMA TailFacts ==
    ASSUME NEW S, NEW s \in Seq(S), s # <<>>
    PROVE  /\ Head(s) \in S /\ Head(s) = s[1] /\ Len(s) > 0
           /\ Tail(s) \in Seq(S) /\ Len(Tail(s)) = Len(s) - 1
           /\ \A i \in 1 .. Len(s) - 1 : Tail(s)[i] = s[i + 1]
           /\ \A y : Contains(Tail(s), y) => Contains(s, y)
           /\ \A y : Contains(s, y) => Contains(Tail(s), y) \/ y = Head(s)
           /\ Distinct(s) => Distinct(Tail(s)) /\ ~Contains(Tail(s), Head(s))
<1>1. /\ Head(s) \in S /\ Head(s) = s[1] /\ Len(s) > 0 /\ Len(s) \in Nat
      /\ Tail(s) \in Seq(S) /\ Len(Tail(s)) = Len(s) - 1
      /\ \A i \in 1 .. Len(s) - 1 : Tail(s)[i] = s[i + 1]
  OBVIOUS
<1>2. \A y : Contains(Tail(s), y) => Contains(s, y)
  BY <1>1 DEF Contains
<1>3. ASSUME NEW y, Contains(s, y) PROVE Contains(Tail(s), y) \/ y = Head(s)
  <2>1. PICK i \in 1 .. Len(s) : s[i] = y
    BY <1>3 DEF Contains
  <2>2. CASE i = 1
    BY <1>1, <2>1, <2>2
  <2>3. CASE i # 1
    <3>1. i - 1 \in 1 .. Len(Tail(s)) /\ Tail(s)[i - 1] = y
      BY <1>1, <2>1, <2>3
    <3> QED BY <3>1 DEF Contains
  <2> QED BY <2>2, <2>3
<1>4. ASSUME Distinct(s) PROVE Distinct(Tail(s)) /\ ~Contains(Tail(s), Head(s))
  BY <1>1, <1>4 DEF Distinct, Contains
<1> QED BY <1>1, <1>2, <1>3, <1>4

\* RemoveFirst takes one element out of a sequence that has it once.
LEMMA RemoveFacts ==
    ASSUME NEW S, NEW s \in Seq(S), Distinct(s), NEW e
    PROVE  /\ RemoveFirst(s, e) \in Seq(S) /\ Distinct(RemoveFirst(s, e))
           /\ \A y : Contains(RemoveFirst(s, e), y) <=> Contains(s, y) /\ y # e
<1>1. CASE ~Contains(s, e)
  BY <1>1 DEF Contains, RemoveFirst
<1>2. CASE Contains(s, e)
  <2>1. PICK k \in 1 .. Len(s) : s[k] = e
    BY <1>2 DEF Contains
  <2>2. {i \in 1 .. Len(s) : s[i] = e} = {k}
    BY <2>1 DEF Distinct
  <2>3. SelectInSeq(s, LAMBDA v : v = e) = Min({k})
    BY <2>2 DEF SelectInSeq
  <2>4. Min({k}) = k
    BY <2>1 DEF Min
  <2>5. RemoveFirst(s, e) = RemoveAt(s, k)
    BY <2>1, <2>3, <2>4 DEF RemoveFirst
  <2> DEFINE r == SubSeq(s, 1, k - 1) \o SubSeq(s, k + 1, Len(s))
  <2>6. RemoveFirst(s, e) = r
    BY <2>5 DEF RemoveAt
  <2>7. /\ Len(s) \in Nat /\ r \in Seq(S) /\ Len(r) = Len(s) - 1
        /\ \A i \in 1 .. Len(r) : r[i] = IF i < k THEN s[i] ELSE s[i + 1]
    <3> DEFINE a == SubSeq(s, 1, k - 1)
               b == SubSeq(s, k + 1, Len(s))
    <3>1. Len(s) \in Nat /\ k \in Nat
      OBVIOUS
    <3>2. /\ a \in Seq(S) /\ Len(a) = k - 1
          /\ \A i \in 1 .. k - 1 : a[i] = s[i]
      BY <3>1, SubSeqProperties
    <3>3. /\ b \in Seq(S) /\ Len(b) = Len(s) - k
          /\ \A i \in 1 .. Len(s) - k : b[i] = s[k + i]
      BY <3>1, SubSeqProperties
    <3> HIDE DEF a, b
    <3>4. /\ a \o b \in Seq(S)
          /\ Len(a \o b) = Len(a) + Len(b)
          /\ \A i \in 1 .. Len(a) + Len(b) :
                (a \o b)[i] = IF i <= Len(a) THEN a[i] ELSE b[i - Len(a)]
      BY <3>2, <3>3, ConcatProperties
    <3>5. r = a \o b
      BY DEF a, b
    <3> HIDE DEF r
    <3>6. r \in Seq(S) /\ Len(r) = Len(s) - 1
      <4>1. r \in Seq(S) /\ Len(r) = Len(a) + Len(b)
        BY <3>4, <3>5, Zenon
      <4> QED BY <3>1, <3>2, <3>3, <4>1
    <3>7. ASSUME NEW i \in 1 .. Len(r) PROVE r[i] = IF i < k THEN s[i] ELSE s[i + 1]
      <4>1. CASE i < k
        BY <3>1, <3>2, <3>3, <3>4, <3>5, <3>6, <4>1
      <4>2. CASE ~(i < k)
        <5>1. i - Len(a) \in 1 .. Len(s) - k /\ k + (i - Len(a)) = i + 1
          BY <3>1, <3>2, <3>6, <4>2
        <5>2. r[i] = b[i - Len(a)]
          BY <3>1, <3>2, <3>3, <3>4, <3>5, <3>6, <4>2
        <5> QED BY <3>3, <4>2, <5>1, <5>2
      <4> QED BY <4>1, <4>2
    <3> QED BY <3>1, <3>6, <3>7
  <2> HIDE DEF r
  <2>8. Distinct(r)
    BY <2>7 DEF Distinct
  <2>9. \A y : Contains(r, y) => Contains(s, y) /\ y # e
    BY <2>1, <2>7 DEF Contains, Distinct
  <2>10. ASSUME NEW y, Contains(s, y), y # e PROVE Contains(r, y)
    <3>1. PICK i \in 1 .. Len(s) : s[i] = y
      BY <2>10 DEF Contains
    <3>2. CASE i < k
      <4>1. i \in 1 .. Len(r) /\ r[i] = y
        BY <2>1, <2>7, <3>1, <3>2
      <4> QED BY <4>1 DEF Contains
    <3>3. CASE i > k
      <4>1. i - 1 \in 1 .. Len(r) /\ r[i - 1] = y
        BY <2>1, <2>7, <3>1, <3>3
      <4> QED BY <4>1 DEF Contains
    <3> QED BY <2>1, <2>7, <2>10, <3>1, <3>2, <3>3
  <2> QED BY <2>6, <2>7, <2>8, <2>9, <2>10
<1> QED BY <1>1, <1>2

-----------------------------------------------------------------------------
(* The bus, whoever calls it.                                              *)

BusInv == BusTypeOK /\ FanoutOpen /\ ChannelsSafe /\ ClosedBy

\* BusInv holds initially: nobody has subscribed.
LEMMA InitBus == BusInit => BusInv
<1> SUFFICES ASSUME BusInit PROVE BusInv
  OBVIOUS
<1>1. BusTypeOK
  <2>1. closed \in BOOLEAN /\ locked \in SUBSET Publishers /\ cleaned \in SUBSET Subscribers
        /\ panics \in SUBSET {"send on closed channel", "close of closed channel"}
    BY DEF BusInit
  <2>2. /\ subscribers \in Seq(Subscribers) /\ sent \in [Publishers -> Nat]
        /\ fanout \in [Publishers -> Seq(Subscribers)]
        /\ state \in [Subscribers -> {"none", "open", "closed"}]
    BY DEF BusInit
  <2>3. /\ channel \in [Subscribers -> Seq(Message)]
        /\ received \in [Subscribers -> Seq(Message)]
        /\ \A s \in Subscribers : Len(channel[s]) <= Buffer
    BY DEF BusInit
  <2>4. dropped \in [Subscribers -> SUBSET Message]
    BY DEF BusInit
  <2> QED BY <2>1, <2>2, <2>3, <2>4 DEF BusTypeOK
<1>2. FanoutOpen
  BY DEF BusInit, FanoutOpen, Distinct
<1>3. ChannelsSafe /\ ClosedBy
  BY DEF BusInit, ChannelsSafe, NoSendOnClosed, RegisteredIffOpen,
         DoubleCloseOnlyAtShutdown, ClosedBy, Contains
<1> QED BY <1>1, <1>2, <1>3 DEF BusInv

\* A step outside the bus keeps BusInv.
LEMMA UnchangedBus == BusInv /\ UNCHANGED busVars => BusInv'
<1> SUFFICES ASSUME BusInv, UNCHANGED busVars PROVE BusInv'
  OBVIOUS
<1> USE DEF BusInv, busVars
<1>1. BusTypeOK'
  BY DEF BusTypeOK
<1>2. FanoutOpen'
  BY DEF FanoutOpen, Distinct
<1>3. ChannelsSafe' /\ ClosedBy'
  BY DEF ChannelsSafe, NoSendOnClosed, RegisteredIffOpen, DoubleCloseOnlyAtShutdown,
         ClosedBy, Contains
<1> QED BY <1>1, <1>2, <1>3

\* Taking the read lock and the list of subscribers keeps BusInv: the ones on
\* the list are open and listed once.
LEMMA BeginPublishBus ==
    ASSUME BusInv, NEW p \in Publishers, BeginPublish(p)
    PROVE  BusInv'
<1> USE DEF BusInv
<1>0. /\ sent' = [sent EXCEPT ![p] = @ + 1] /\ locked' = locked \cup {p}
      /\ UNCHANGED <<subscribers, closed, state, cleaned, channel, received, dropped,
                     panics>>
  BY DEF BeginPublish
<1>5. fanout' = [fanout EXCEPT ![p] = IF closed THEN <<>> ELSE subscribers]
  BY DEF BeginPublish
<1>6. sent \in [Publishers -> Nat]
  BY DEF BusTypeOK
<1>4. sent' \in [Publishers -> Nat] /\ sent'[p] > 0
      /\ \A q \in Publishers : q # p => sent'[q] = sent[q]
  BY <1>0, <1>6
<1>1. BusTypeOK'
  <2>1. locked' \in SUBSET Publishers
    BY <1>0 DEF BusTypeOK
  <2>2. fanout' \in [Publishers -> Seq(Subscribers)]
    <3>1. <<>> \in Seq(Subscribers)
      OBVIOUS
    <3>2. CASE closed
      BY <1>5, <3>1, <3>2 DEF BusTypeOK
    <3>3. CASE ~closed
      BY <1>5, <3>3 DEF BusTypeOK
    <3> QED BY <3>2, <3>3
  <2> QED BY <1>0, <1>4, <2>1, <2>2 DEF BusTypeOK
<1>2. FanoutOpen'
  <2> SUFFICES ASSUME NEW q \in Publishers
               PROVE  /\ q \in locked' => sent'[q] > 0
                      /\ q \notin locked' \/ closed' => fanout'[q] = <<>>
                      /\ Distinct(fanout'[q])
                      /\ \A i \in 1 .. Len(fanout'[q]) : state'[fanout'[q][i]] = "open"
    BY DEF FanoutOpen, Distinct
  <2>1. CASE q # p
    <3>1. fanout'[q] = fanout[q] /\ (q \in locked' <=> q \in locked) /\ sent'[q] = sent[q]
      BY <1>0, <1>4, <1>5, <2>1 DEF BusTypeOK
    <3> QED BY <1>0, <3>1 DEF FanoutOpen
  <2>2. CASE q = p /\ closed
    <3>1. fanout'[q] = <<>> /\ sent'[q] > 0
      BY <1>4, <1>5, <2>2 DEF BusTypeOK
    <3> QED BY <1>0, <2>2, <3>1 DEF Distinct
  <2>3. CASE q = p /\ ~closed
    <3>1. fanout'[q] = subscribers /\ sent'[q] > 0
      BY <1>4, <1>5, <2>3 DEF BusTypeOK
    <3>2. \A i \in 1 .. Len(subscribers) :
             subscribers[i] \in Subscribers /\ Contains(subscribers, subscribers[i])
      <4>1. subscribers \in Seq(Subscribers)
        BY DEF BusTypeOK
      <4> QED BY <4>1 DEF Contains
    <3> QED BY <1>0, <2>3, <3>1, <3>2 DEF ChannelsSafe, RegisteredIffOpen, Distinct
  <2> QED BY <2>1, <2>2, <2>3
<1>3. ChannelsSafe' /\ ClosedBy'
  BY <1>0 DEF ChannelsSafe, NoSendOnClosed, RegisteredIffOpen, DoubleCloseOnlyAtShutdown,
         ClosedBy, Contains
<1> QED BY <1>1, <1>2, <1>3

\* What one send does: its channel is open.
LEMMA SendEffect ==
    ASSUME BusInv, NEW p \in Publishers, Send(p), NEW s, s = Head(fanout[p])
    PROVE  /\ s \in Subscribers /\ state[s] = "open" /\ ~closed /\ p \in locked
           /\ Contains(fanout[p], s)
           /\ fanout' = [fanout EXCEPT ![p] = Tail(fanout[p])]
           /\ <<p, sent[p]>> \in Message
           /\ \/ /\ Fits(s) /\ channel' = [channel EXCEPT ![s] = Append(@, <<p, sent[p]>>)]
                 /\ UNCHANGED dropped
              \/ /\ dropped' = [dropped EXCEPT ![s] = @ \cup {<<p, sent[p]>>}]
                 /\ UNCHANGED channel
           /\ UNCHANGED <<subscribers, closed, sent, locked, state, cleaned, received,
                          panics>>
<1> USE DEF BusInv
<1>1. fanout[p] \in Seq(Subscribers) /\ fanout[p] # <<>> /\ p \in locked
  BY DEF Send, BusTypeOK
<1>2. s \in Subscribers /\ s = fanout[p][1] /\ Len(fanout[p]) > 0
  BY <1>1, TailFacts
<1>3. state[s] = "open" /\ ~closed /\ Contains(fanout[p], s)
  BY <1>1, <1>2 DEF FanoutOpen, Contains
<1>4. /\ fanout' = [fanout EXCEPT ![p] = Tail(fanout[p])]
      /\ UNCHANGED <<subscribers, closed, sent, locked, state, cleaned, received>>
      /\ sent[p] \in Nat /\ sent[p] > 0
  BY DEF Send, BusTypeOK, FanoutOpen
<1>8. <<p, sent[p]>> \in Message
  BY <1>4 DEF Message
<1>5. UNCHANGED panics
  BY <1>3 DEF Send
<1>6. CASE Fits(s)
  <2>1. channel' = [channel EXCEPT ![s] = Append(@, <<p, sent[p]>>)]
    BY <1>3, <1>6 DEF Send
  <2>2. dropped' = [dropped EXCEPT ![s] = @]
    BY <1>3, <1>6 DEF Send
  <2>3. UNCHANGED dropped
    BY <2>2 DEF BusTypeOK
  <2> QED BY <1>1, <1>2, <1>3, <1>4, <1>5, <1>6, <1>8, <2>1, <2>3
<1>7. CASE ~Fits(s)
  <2>1. dropped' = [dropped EXCEPT ![s] = @ \cup {<<p, sent[p]>>}]
    BY <1>3, <1>7 DEF Send
  <2>2. channel' = [channel EXCEPT ![s] = @]
    BY <1>3, <1>7 DEF Send
  <2>3. UNCHANGED channel
    BY <2>2 DEF BusTypeOK
  <2> QED BY <1>1, <1>2, <1>3, <1>4, <1>5, <1>8, <2>1, <2>3
<1> QED BY <1>6, <1>7

\* Serving one subscriber keeps BusInv: the read lock has kept its channel open.
LEMMA SendBus ==
    ASSUME BusInv, NEW p \in Publishers, Send(p)
    PROVE  BusInv'
<1> DEFINE s == Head(fanout[p])
<1>1. /\ s \in Subscribers /\ state[s] = "open" /\ ~closed /\ p \in locked
      /\ fanout' = [fanout EXCEPT ![p] = Tail(fanout[p])]
      /\ <<p, sent[p]>> \in Message
      /\ \/ /\ Fits(s) /\ channel' = [channel EXCEPT ![s] = Append(@, <<p, sent[p]>>)]
            /\ UNCHANGED dropped
         \/ /\ dropped' = [dropped EXCEPT ![s] = @ \cup {<<p, sent[p]>>}]
            /\ UNCHANGED channel
      /\ UNCHANGED <<subscribers, closed, sent, locked, state, cleaned, received, panics>>
  BY SendEffect
<1> HIDE DEF s
<1> USE DEF BusInv
<1>2. /\ fanout[p] \in Seq(Subscribers) /\ fanout[p] # <<>>
      /\ Tail(fanout[p]) \in Seq(Subscribers)
      /\ Len(Tail(fanout[p])) = Len(fanout[p]) - 1
      /\ \A i \in 1 .. Len(fanout[p]) - 1 : Tail(fanout[p])[i] = fanout[p][i + 1]
      /\ Distinct(Tail(fanout[p]))
  <2>1. fanout[p] \in Seq(Subscribers) /\ fanout[p] # <<>> /\ Distinct(fanout[p])
    BY DEF Send, BusTypeOK, FanoutOpen
  <2> QED BY <2>1, TailFacts
<1>3. BusTypeOK'
  <2>1. fanout' \in [Publishers -> Seq(Subscribers)]
    BY <1>1, <1>2 DEF BusTypeOK
  <2>2. /\ channel' \in [Subscribers -> Seq(Message)]
        /\ dropped' \in [Subscribers -> SUBSET Message]
        /\ \A t \in Subscribers : Len(channel'[t]) <= Buffer
    <3>1. CASE UNCHANGED channel /\ dropped' = [dropped EXCEPT ![s] = @ \cup {<<p, sent[p]>>}]
      BY <1>1, <3>1 DEF BusTypeOK
    <3>2. CASE UNCHANGED dropped /\ Fits(s)
               /\ channel' = [channel EXCEPT ![s] = Append(@, <<p, sent[p]>>)]
      <4>1. channel[s] \in Seq(Message) /\ Len(channel[s]) < Buffer /\ Len(channel[s]) \in Nat
        <5>1. channel[s] \in Seq(Message)
          BY <1>1 DEF BusTypeOK
        <5> QED BY <3>2, <5>1 DEF Fits
      <4>2. /\ Append(channel[s], <<p, sent[p]>>) \in Seq(Message)
            /\ Len(Append(channel[s], <<p, sent[p]>>)) = Len(channel[s]) + 1
        BY <1>1, <4>1, AppendFacts
      <4> HIDE DEF Message
      <4> DEFINE a == Append(channel[s], <<p, sent[p]>>)
      <4>3. channel' = [channel EXCEPT ![s] = a]
        BY <3>2
      <4>4. a \in Seq(Message) /\ Len(a) <= Buffer
        BY <4>1, <4>2
      <4> HIDE DEF a
      <4>5. /\ channel \in [Subscribers -> Seq(Message)]
            /\ \A t \in Subscribers : Len(channel[t]) <= Buffer
        BY DEF BusTypeOK
      <4>6. channel' \in [Subscribers -> Seq(Message)]
        BY <1>1, <4>3, <4>4, <4>5
      <4>7. \A t \in Subscribers : Len(channel'[t]) <= Buffer
        BY <1>1, <4>3, <4>4, <4>5
      <4>8. dropped' \in [Subscribers -> SUBSET Message]
        BY <3>2 DEF BusTypeOK
      <4> QED BY <4>6, <4>7, <4>8
    <3> QED BY <1>1, <3>1, <3>2
  <2> QED BY <1>1, <2>1, <2>2 DEF BusTypeOK
<1>4. FanoutOpen'
  <2> SUFFICES ASSUME NEW q \in Publishers
               PROVE  /\ q \in locked => sent[q] > 0
                      /\ q \notin locked \/ closed => fanout'[q] = <<>>
                      /\ Distinct(fanout'[q])
                      /\ \A i \in 1 .. Len(fanout'[q]) : state[fanout'[q][i]] = "open"
    BY <1>1 DEF FanoutOpen, Distinct
  <2>1. CASE q # p
    BY <1>1, <2>1 DEF FanoutOpen, BusTypeOK
  <2>2. CASE q = p
    <3>1. fanout'[q] = Tail(fanout[p])
      BY <1>1, <2>2 DEF BusTypeOK
    <3>2. \A i \in 1 .. Len(Tail(fanout[p])) : state[Tail(fanout[p])[i]] = "open"
      <4>1. \A i \in 1 .. Len(fanout[p]) : state[fanout[p][i]] = "open"
        BY DEF FanoutOpen
      <4> QED BY <1>2, <4>1
    <3> QED BY <1>1, <1>2, <2>2, <3>1, <3>2 DEF FanoutOpen
  <2> QED BY <2>1, <2>2
<1>5. ChannelsSafe' /\ ClosedBy'
  BY <1>1 DEF ChannelsSafe, NoSendOnClosed, RegisteredIffOpen, DoubleCloseOnlyAtShutdown,
         ClosedBy, Contains
<1> QED BY <1>3, <1>4, <1>5

\* Giving the read lock back keeps BusInv.
LEMMA EndPublishBus ==
    ASSUME BusInv, NEW p \in Publishers, EndPublish(p)
    PROVE  BusInv'
<1> USE DEF BusInv, EndPublish
<1>1. BusTypeOK'
  BY DEF BusTypeOK
<1>2. FanoutOpen'
  BY DEF FanoutOpen, Distinct
<1>3. ChannelsSafe' /\ ClosedBy'
  BY DEF ChannelsSafe, NoSendOnClosed, RegisteredIffOpen, DoubleCloseOnlyAtShutdown,
         ClosedBy, Contains
<1> QED BY <1>1, <1>2, <1>3

\* Nobody has anything to serve while the write lock is held.
LEMMA NothingPending ==
    ASSUME BusInv, WriteLockFree, UNCHANGED <<fanout, locked>>
    PROVE  FanoutOpen' /\ \A p \in Publishers : fanout[p] = <<>>
<1>1. \A p \in Publishers : fanout[p] = <<>> /\ p \notin locked
  BY DEF BusInv, FanoutOpen, WriteLockFree
<1>2. Distinct(<<>>) /\ \A i \in 1 .. Len(<<>>) : FALSE
  BY DEF Distinct
<1> QED BY <1>1, <1>2 DEF FanoutOpen, Distinct

\* A new subscriber is open, listed once and served by no running Publish.
LEMMA SubscribeBus ==
    ASSUME BusInv, NEW s \in Subscribers, Subscribe(s)
    PROVE  BusInv'
<1> USE DEF BusInv
<1>1. /\ state[s] = "none" /\ state' = [state EXCEPT ![s] = "open"] /\ WriteLockFree
      /\ subscribers' = Append(subscribers, s)
      /\ UNCHANGED <<closed, sent, fanout, locked, cleaned, channel, received, dropped,
                     panics>>
  BY DEF Subscribe
<1>2. /\ subscribers \in Seq(Subscribers) /\ Len(subscribers) \in Nat
      /\ subscribers' \in Seq(Subscribers)
      /\ Len(subscribers') = Len(subscribers) + 1 /\ subscribers'[Len(subscribers) + 1] = s
      /\ \A i \in 1 .. Len(subscribers) : subscribers'[i] = subscribers[i]
      /\ \A y : Contains(subscribers', y) <=> Contains(subscribers, y) \/ y = s
  <2>1. subscribers \in Seq(Subscribers)
    BY DEF BusTypeOK
  <2>2. Len(subscribers) \in Nat
    BY <2>1
  <2> QED BY <1>1, <2>1, <2>2, AppendFacts
<1>3. BusTypeOK'
  <2>1. state' \in [Subscribers -> {"none", "open", "closed"}]
    BY <1>1 DEF BusTypeOK
  <2> QED BY <1>1, <1>2, <2>1 DEF BusTypeOK
<1>4. FanoutOpen'
  BY <1>1, NothingPending
<1>5. RegisteredIffOpen'
  <2>1. \A t \in Subscribers : state[t] = "open" <=> Contains(subscribers, t)
    BY DEF ChannelsSafe, RegisteredIffOpen
  <2>2. \A t \in Subscribers : state'[t] = "open" <=> Contains(subscribers', t)
    BY <1>1, <1>2, <2>1 DEF BusTypeOK
  <2>3. \A i, j \in 1 .. Len(subscribers) : subscribers[i] = subscribers[j] => i = j
    BY DEF ChannelsSafe, RegisteredIffOpen
  <2>4. \A i \in 1 .. Len(subscribers) : subscribers[i] # s
    BY <1>1, <2>1 DEF Contains
  <2>5. \A i, j \in 1 .. Len(subscribers') : subscribers'[i] = subscribers'[j] => i = j
    BY <1>2, <2>3, <2>4
  <2> QED BY <2>2, <2>5 DEF RegisteredIffOpen
<1>6. ChannelsSafe' /\ ClosedBy'
  BY <1>1, <1>5 DEF ChannelsSafe, NoSendOnClosed, DoubleCloseOnlyAtShutdown, ClosedBy,
                    BusTypeOK
<1> QED BY <1>3, <1>4, <1>6

\* Receiving from a channel keeps BusInv.
LEMMA ReceiveBus ==
    ASSUME BusInv, NEW s \in Subscribers, Receive(s)
    PROVE  BusInv'
<1> USE DEF BusInv
<1>1. /\ channel[s] # <<>>
      /\ received' = [received EXCEPT ![s] = Append(received[s], Head(channel[s]))]
      /\ channel' = [channel EXCEPT ![s] = Tail(channel[s])]
      /\ UNCHANGED <<subscribers, closed, sent, fanout, locked, state, cleaned, dropped,
                     panics>>
  BY DEF Receive, BusTypeOK
<1>2. /\ channel \in [Subscribers -> Seq(Message)]
      /\ received \in [Subscribers -> Seq(Message)]
      /\ \A t \in Subscribers : Len(channel[t]) <= Buffer
  BY DEF BusTypeOK
<1>3. channel[s] \in Seq(Message) /\ received[s] \in Seq(Message)
  BY <1>2
<1>4. /\ Head(channel[s]) \in Message /\ Tail(channel[s]) \in Seq(Message)
      /\ Len(Tail(channel[s])) = Len(channel[s]) - 1
  BY <1>1, <1>3, TailFacts
<1>5. Append(received[s], Head(channel[s])) \in Seq(Message)
  BY <1>3, <1>4, AppendFacts
<1>6. BusTypeOK'
  <2>1. Len(Tail(channel[s])) <= Buffer
    BY <1>2, <1>3, <1>4
  <2>2. \A t \in Subscribers : Len(channel'[t]) <= Buffer
    BY <1>1, <1>2, <2>1
  <2>3. channel' \in [Subscribers -> Seq(Message)] /\ received' \in [Subscribers -> Seq(Message)]
    BY <1>1, <1>2, <1>4, <1>5
  <2> QED BY <1>1, <2>2, <2>3 DEF BusTypeOK
<1>7. FanoutOpen'
  BY <1>1 DEF FanoutOpen, Distinct
<1>8. ChannelsSafe' /\ ClosedBy'
  BY <1>1 DEF ChannelsSafe, NoSendOnClosed, RegisteredIffOpen, DoubleCloseOnlyAtShutdown,
         ClosedBy, Contains
<1> QED BY <1>6, <1>7, <1>8

\* The cleanup function closes a channel that no Publish is serving, once.
LEMMA UnsubscribeBus ==
    ASSUME BusInv, NEW s \in Subscribers, Unsubscribe(s)
    PROVE  BusInv'
<1> USE DEF BusInv
<1>1. /\ WriteLockFree /\ s \notin cleaned /\ cleaned' = cleaned \cup {s}
      /\ subscribers' = RemoveFirst(subscribers, s)
      /\ state' = [state EXCEPT ![s] = "closed"]
      /\ panics' = IF state[s] = "closed"
                   THEN panics \cup {"close of closed channel"} ELSE panics
      /\ UNCHANGED <<closed, sent, fanout, locked, channel, received, dropped>>
  BY DEF Unsubscribe, Unregister
<1>2. /\ subscribers' \in Seq(Subscribers) /\ Distinct(subscribers')
      /\ \A y : Contains(subscribers', y) <=> Contains(subscribers, y) /\ y # s
  <2>1. subscribers \in Seq(Subscribers) /\ Distinct(subscribers)
    BY DEF BusTypeOK, ChannelsSafe, RegisteredIffOpen, Distinct
  <2> QED BY <1>1, <2>1, RemoveFacts
<1>3. BusTypeOK'
  <2>1. state' \in [Subscribers -> {"none", "open", "closed"}]
    BY <1>1 DEF BusTypeOK
  <2>2. cleaned' \in SUBSET Subscribers
        /\ panics' \in SUBSET {"send on closed channel", "close of closed channel"}
    BY <1>1 DEF BusTypeOK
  <2> QED BY <1>1, <1>2, <2>1, <2>2 DEF BusTypeOK
<1>4. FanoutOpen'
  BY <1>1, NothingPending
<1>5. RegisteredIffOpen'
  <2>1. \A t \in Subscribers : state[t] = "open" <=> Contains(subscribers, t)
    BY DEF ChannelsSafe, RegisteredIffOpen
  <2>2. \A t \in Subscribers : state'[t] = "open" <=> Contains(subscribers', t)
    BY <1>1, <1>2, <2>1 DEF BusTypeOK
  <2> QED BY <1>2, <2>2 DEF RegisteredIffOpen, Distinct
<1>6. NoSendOnClosed' /\ DoubleCloseOnlyAtShutdown'
  <2>1. state[s] = "closed" => closed
    BY <1>1 DEF ClosedBy
  <2> QED BY <1>1, <2>1 DEF ChannelsSafe, NoSendOnClosed, DoubleCloseOnlyAtShutdown
<1>7. ClosedBy'
  BY <1>1 DEF ClosedBy, BusTypeOK
<1> QED BY <1>3, <1>4, <1>5, <1>6, <1>7 DEF ChannelsSafe

\* Close closes the channels that are still open, with no Publish running.
LEMMA CloseBus ==
    ASSUME BusInv, Close
    PROVE  BusInv'
<1> USE DEF BusInv
<1>1. /\ WriteLockFree /\ closed' = TRUE /\ subscribers' = <<>>
      /\ state' = [s \in Subscribers |->
                      IF Contains(subscribers, s) THEN "closed" ELSE state[s]]
      /\ UNCHANGED <<sent, fanout, locked, cleaned, channel, received, dropped, panics>>
  BY DEF Close
<1>2. \A s \in Subscribers : state'[s] # "open" /\ state'[s] \in {"none", "closed"}
  BY <1>1 DEF ChannelsSafe, RegisteredIffOpen, BusTypeOK
<1>3. BusTypeOK'
  <2>1. state' \in [Subscribers -> {"none", "open", "closed"}]
    BY <1>1, <1>2
  <2>2. closed' \in BOOLEAN /\ subscribers' \in Seq(Subscribers)
    BY <1>1
  <2> QED BY <1>1, <2>1, <2>2 DEF BusTypeOK
<1>4. FanoutOpen'
  BY <1>1, NothingPending
<1>5. RegisteredIffOpen'
  BY <1>1, <1>2 DEF RegisteredIffOpen, Contains
<1>6. NoSendOnClosed' /\ DoubleCloseOnlyAtShutdown' /\ ClosedBy'
  BY <1>1 DEF ChannelsSafe, NoSendOnClosed, DoubleCloseOnlyAtShutdown, ClosedBy
<1> QED BY <1>3, <1>4, <1>5, <1>6 DEF ChannelsSafe

\* Every step of the composition is one operation of the bus or none.
BusStep ==
    \/ UNCHANGED busVars
    \/ \E p \in Publishers : BeginPublish(p) \/ Send(p) \/ EndPublish(p)
    \/ \E s \in Subscribers : Subscribe(s) \/ Receive(s) \/ Unsubscribe(s)
    \/ Close

\* Every step of the gateway is a step of the bus, or leaves it alone.
LEMMA NextIsBusStep == [Next]_vars => BusStep
<1> USE DEF BusStep
<1>1. ServerStep => BusStep
  BY DEF ServerStep, PublishQueued, Respond, SaveFinal, PublishFinal
<1>2. PublishStep \/ Shutdown \/ UNCHANGED vars => BusStep
  BY DEF PublishStep, Shutdown, vars
<1>3. ASSUME NEW p \in Publishers, FanOut(p) PROVE BusStep
  BY <1>3 DEF FanOut
<1>4. ASSUME NEW c \in Clients,
             Connect(c) \/ HandlerStep(c) \/ WriteEnds(c) \/ Leave(c)
      PROVE  BusStep
  BY <1>4 DEF Connect, HandlerStep, WriteEnds, SendStored, ReportWritten, NotFinished,
              Listen, Forward, FrameWritten, ChannelClosed, Return, Leave, Clients
<1> QED BY <1>1, <1>2, <1>3, <1>4 DEF Next

\* BusInv is preserved by every step.
LEMMA NextBus == BusInv /\ [Next]_vars => BusInv'
<1> SUFFICES ASSUME BusInv, BusStep PROVE BusInv'
  BY NextIsBusStep
<1> QED
  BY UnchangedBus, BeginPublishBus, SendBus, EndPublishBus, SubscribeBus, ReceiveBus,
     UnsubscribeBus, CloseBus DEF BusStep

\* BusInv is an invariant of the gateway.
LEMMA BusInvHolds == Spec => []BusInv
<1>1. Init => BusInv
  BY InitBus DEF Init
<1> QED BY <1>1, NextBus, PTL DEF Spec

\* Publishing, unsubscribing and shutting down, in any order, use every channel
\* as it may be used: no send on a closed one, no registration of a closed one,
\* and a second close only after the shutdown.
THEOREM BusChannelsSafe == Spec => []ChannelsSafe
<1>1. BusInv => ChannelsSafe
  BY DEF BusInv
<1> QED BY <1>1, BusInvHolds, PTL

-----------------------------------------------------------------------------
(* The server and the handlers.                                            *)

ControlTypes ==
    /\ accepted \in BOOLEAN /\ record \in BOOLEAN
    /\ final \in 0 .. Steps + 1
    /\ ws \in [Clients -> WsStates]
    /\ reported \in SUBSET Clients /\ left \in SUBSET Clients
ControlInv == ControlTypes /\ HandlerOrder /\ ServerOrder

\* ControlInv holds initially.
LEMMA InitControl == Init => ControlInv
<1> SUFFICES ASSUME Init PROVE ControlInv
  OBVIOUS
<1>1. accepted = FALSE /\ record = FALSE /\ final = 0 /\ reported = {} /\ left = {}
      /\ ws = [c \in Clients |-> "away"]
  BY DEF Init
<1>2. ControlTypes
  <2>1. 0 \in 0 .. Steps + 1
    OBVIOUS
  <2> QED BY <1>1, <2>1, Zenon DEF ControlTypes, WsStates
<1>3. HandlerOrder
  BY <1>1 DEF Init, BusInit, HandlerOrder, Clients
<1>4. sent[worker] = 0 /\ fanout[api] = <<>>
  BY DEF Init, BusInit
<1>5. ServerOrder
  BY <1>1, <1>4 DEF ServerOrder
<1> QED BY <1>2, <1>3, <1>5 DEF ControlInv

\* Before the submission is accepted nobody is registered.
LEMMA NobodyEarly ==
    ASSUME BusInv, ControlInv, ~accepted
    PROVE  subscribers = <<>>
<1>1. \A s \in Subscribers : ~Contains(subscribers, s)
  BY DEF BusInv, ChannelsSafe, RegisteredIffOpen, ControlInv, HandlerOrder, Clients
<1>2. subscribers \in Seq(Subscribers)
  BY DEF BusInv, BusTypeOK
<1>3. Len(subscribers) = 0
  <2> SUFFICES ASSUME Len(subscribers) > 0 PROVE FALSE
    BY <1>2
  <2>1. 1 \in 1 .. Len(subscribers) /\ subscribers[1] \in Subscribers
    BY <1>2
  <2> QED BY <1>1, <2>1 DEF Contains
<1> QED BY <1>2, <1>3, EmptySeq

\* A new event of publisher p.
LEMMA BeginEffect ==
    ASSUME BusInv, NEW p \in Publishers, BeginPublish(p)
    PROVE  /\ sent'[p] = sent[p] + 1 /\ sent[p] \in Nat /\ sent' \in [Publishers -> Nat]
           /\ \A q \in Publishers : q # p => /\ sent'[q] = sent[q]
                                             /\ fanout'[q] = fanout[q]
           /\ p \notin locked /\ locked' = locked \cup {p}
           /\ fanout'[p] = (IF closed THEN <<>> ELSE subscribers)
           /\ UNCHANGED <<subscribers, closed, state, cleaned, channel, received,
                          dropped, panics>>
<1>1. /\ p \notin locked /\ sent' = [sent EXCEPT ![p] = @ + 1]
      /\ fanout' = [fanout EXCEPT ![p] = IF closed THEN <<>> ELSE subscribers]
      /\ locked' = locked \cup {p}
      /\ UNCHANGED <<subscribers, closed, state, cleaned, channel, received,
                     dropped, panics>>
  BY DEF BeginPublish
<1>2. sent \in [Publishers -> Nat] /\ DOMAIN fanout = Publishers
  BY DEF BusInv, BusTypeOK
<1>3. sent'[p] = sent[p] + 1 /\ sent[p] \in Nat /\ sent' \in [Publishers -> Nat]
      /\ \A q \in Publishers : q # p => sent'[q] = sent[q]
  BY <1>1, <1>2
<1>4. fanout'[p] = (IF closed THEN <<>> ELSE subscribers)
      /\ \A q \in Publishers : q # p => fanout'[q] = fanout[q]
  BY <1>1, <1>2
<1> QED BY <1>1, <1>3, <1>4

\* The steps of the API handler and of the worker.
LEMMA ServerControl ==
    ASSUME BusInv, ControlInv, ServerStep \/ PublishStep
    PROVE  ControlInv'
<1> USE DEF ControlInv
<1>1. api \in Publishers /\ worker \in Publishers /\ api # worker
  OBVIOUS
<1>2. CASE PublishQueued
  <2>1. /\ sent[api] = 0 /\ BeginPublish(api) /\ UNCHANGED <<serverVars, handlerVars>>
    BY <1>2 DEF PublishQueued
  <2>2. ~accepted /\ subscribers = <<>>
    BY <2>1, NobodyEarly DEF ServerOrder
  <2>3. /\ sent'[worker] = sent[worker] /\ fanout'[api] = <<>>
        /\ UNCHANGED <<state, channel, received>>
    BY <1>1, <2>1, <2>2, BeginEffect
  <2>4. ControlTypes' /\ HandlerOrder'
    BY <2>1, <2>3 DEF ControlTypes, HandlerOrder, serverVars, handlerVars
  <2>5. ServerOrder'
    BY <2>1, <2>2, <2>3 DEF ServerOrder, serverVars, handlerVars
  <2> QED BY <2>4, <2>5
<1>3. CASE Respond
  <2>1. /\ sent[api] = 1 /\ api \notin locked /\ accepted' = TRUE
        /\ UNCHANGED <<busVars, record, final, handlerVars>>
    BY <1>3 DEF Respond
  <2>2. ControlTypes'
    <3>1. accepted' \in BOOLEAN
      BY <2>1
    <3> QED BY <2>1, <3>1 DEF ControlTypes, handlerVars
  <2>3. HandlerOrder'
    BY <2>1 DEF HandlerOrder, busVars, handlerVars
  <2>4. ServerOrder'
    BY <2>1 DEF ServerOrder, busVars, handlerVars
  <2> QED BY <2>2, <2>3, <2>4
<1>4. CASE SaveFinal
  <2>1. ~record /\ record' = TRUE /\ UNCHANGED <<busVars, accepted, final, handlerVars>>
    BY <1>4 DEF SaveFinal
  <2>2. ControlTypes'
    <3>1. record' \in BOOLEAN
      BY <2>1
    <3> QED BY <2>1, <3>1 DEF ControlTypes, handlerVars
  <2>3. HandlerOrder'
    BY <2>1 DEF HandlerOrder, busVars, handlerVars
  <2>4. ServerOrder'
    BY <2>1 DEF ServerOrder, busVars, handlerVars
  <2> QED BY <2>2, <2>3, <2>4
<1>5. CASE PublishFinal \/ PublishStep
  <2>1. /\ BeginPublish(worker) /\ UNCHANGED <<accepted, record, handlerVars>>
        /\ final = 0
        /\ \/ ~record /\ sent[worker] < Steps /\ final' = final
           \/ record /\ final' = sent[worker] + 1
    <3>1. CASE PublishFinal
      BY <3>1 DEF PublishFinal
    <3>2. CASE PublishStep
      BY <3>2 DEF PublishStep, serverVars, ServerOrder, ControlTypes
    <3> QED BY <1>5, <3>1, <3>2
  <2>2. /\ sent'[worker] = sent[worker] + 1 /\ sent[worker] \in Nat
        /\ sent'[api] = sent[api] /\ fanout'[api] = fanout[api]
        /\ locked' = locked \cup {worker}
        /\ UNCHANGED <<state, channel, received>>
    BY <1>1, <2>1, BeginEffect
  <2>3. sent[worker] <= Steps
    BY <2>1 DEF ServerOrder
  <2>4. final' \in 0 .. Steps + 1
    BY <2>1, <2>2, <2>3
  <2>5. ControlTypes' /\ HandlerOrder'
    BY <2>1, <2>2, <2>4 DEF ControlTypes, HandlerOrder, handlerVars
  <2>6. ServerOrder'
    <3>1. accepted' => sent'[api] = 1 /\ api \notin locked'
      BY <1>1, <2>1, <2>2 DEF ServerOrder
    <3>2. final' = 0 => sent'[worker] <= Steps
      BY <2>1, <2>2
    <3>3. final' > 0 => record' /\ final' = sent'[worker]
      BY <2>1, <2>2
    <3>4. fanout'[api] = <<>> /\ (reported' # {} => record')
      BY <2>1, <2>2 DEF ServerOrder, handlerVars
    <3> QED BY <3>1, <3>2, <3>3, <3>4 DEF ServerOrder
  <2> QED BY <2>5, <2>6
<1> QED BY <1>2, <1>3, <1>4, <1>5 DEF ServerStep

\* The fan-out of a Publish: only open channels get anything, the API handler
\* has none to serve.
LEMMA FanOutControl ==
    ASSUME BusInv, ControlInv, NEW p \in Publishers, FanOut(p)
    PROVE  ControlInv'
<1> USE DEF ControlInv
<1>1. UNCHANGED <<serverVars, handlerVars>>
  BY DEF FanOut
<1>2. ControlTypes'
  BY <1>1 DEF ControlTypes, serverVars, handlerVars
<1>3. CASE Send(p)
  <2> DEFINE s == Head(fanout[p])
  <2>1. /\ s \in Subscribers /\ state[s] = "open"
        /\ fanout' = [fanout EXCEPT ![p] = Tail(fanout[p])]
        /\ \/ channel' = [channel EXCEPT ![s] = Append(@, <<p, sent[p]>>)]
           \/ UNCHANGED channel
        /\ UNCHANGED <<sent, locked, state, received>>
    BY <1>3, SendEffect
  <2> HIDE DEF s
  <2>2. \A c \in Clients : c # s => channel'[c] = channel[c]
    BY <2>1 DEF BusInv, BusTypeOK, Clients
  <2>3. HandlerOrder'
    BY <1>1, <2>1, <2>2 DEF HandlerOrder, Clients, serverVars, handlerVars
  <2>4. p # api /\ fanout'[api] = fanout[api]
    BY <1>3, <2>1 DEF Send, ServerOrder, BusInv, BusTypeOK
  <2>5. ServerOrder'
    BY <1>1, <2>1, <2>4 DEF ServerOrder, serverVars, handlerVars
  <2> QED BY <1>2, <2>3, <2>5
<1>4. CASE EndPublish(p)
  <2>1. locked' \subseteq locked /\ UNCHANGED <<sent, fanout, state, channel, received>>
    BY <1>4 DEF EndPublish
  <2>2. HandlerOrder'
    BY <1>1, <2>1 DEF HandlerOrder, serverVars, handlerVars
  <2>3. ServerOrder'
    BY <1>1, <2>1 DEF ServerOrder, serverVars, handlerVars
  <2> QED BY <1>2, <2>2, <2>3
<1> QED BY <1>3, <1>4 DEF FanOut

\* The steps of a WebSocket handler.
LEMMA HandlerControl ==
    ASSUME BusInv, ControlInv, NEW c \in Clients,
           Connect(c) \/ HandlerStep(c) \/ WriteEnds(c) \/ Leave(c)
    PROVE  ControlInv'
<1> USE DEF ControlInv
<1>1. /\ UNCHANGED serverVars /\ UNCHANGED <<sent, fanout, locked>>
      /\ accepted /\ \E w \in WsStates \ {"away"} : ws' = [ws EXCEPT ![c] = w]
      /\ ws[c] \notin {"away", "gone"} \/ Connect(c)
      /\ (reported' = reported \/ (record /\ reported' = reported \cup {c}))
      /\ left' \subseteq left \cup {c}
  <2> USE DEF Goto, WsStates, busVars
  <2>1. (ws[c] # "away" => accepted) /\ (ws[c] = "reporting" => record)
    BY DEF HandlerOrder
  <2>2. CASE Connect(c)
    BY <2>2 DEF Connect
  <2>3. CASE SendStored(c) \/ NotFinished(c) \/ ChannelClosed(c) \/ Leave(c)
    BY <2>1, <2>3 DEF SendStored, NotFinished, ChannelClosed, Leave
  <2>4. CASE Listen(c)
    BY <2>1, <2>4 DEF Listen, Subscribe
  <2>5. CASE Return(c)
    BY <2>1, <2>5 DEF Return, Unsubscribe
  <2>6. CASE Forward(c)
    BY <2>1, <2>6 DEF Forward, Receive
  <2>7. CASE WriteEnds(c)
    BY <2>1, <2>7 DEF WriteEnds, ReportWritten, FrameWritten
  <2> QED BY <2>2, <2>3, <2>4, <2>5, <2>6, <2>7 DEF HandlerStep
<1>2. PICK w \in WsStates \ {"away"} : ws' = [ws EXCEPT ![c] = w]
  BY <1>1
<1>3. ControlTypes'
  <2>1. ws' \in [Clients -> WsStates]
    BY <1>2 DEF ControlTypes
  <2>2. reported' \in SUBSET Clients /\ left' \in SUBSET Clients
    BY <1>1 DEF ControlTypes
  <2> QED BY <1>1, <2>1, <2>2 DEF ControlTypes, serverVars
<1>4. ServerOrder'
  BY <1>1 DEF ServerOrder, serverVars
<1>5. /\ \A d \in Clients : d # c => /\ ws'[d] = ws[d] /\ state'[d] = state[d]
                                     /\ channel'[d] = channel[d] /\ received'[d] = received[d]
      /\ ws'[c] = "reporting" => record
      /\ state'[c] # "none" => ws'[c] \in {"streaming", "writing", "returning", "gone"}
      /\ state'[c] = "none" =>
            state[c] = "none" /\ channel'[c] = channel[c] /\ received'[c] = received[c]
  <2>0. /\ DOMAIN ws = Clients /\ DOMAIN state = Clients /\ DOMAIN channel = Clients
        /\ DOMAIN received = Clients
    BY DEF BusInv, BusTypeOK, ControlTypes, Clients
  <2>1. /\ state[c] # "none" => ws[c] \in {"streaming", "writing", "returning", "gone"}
        /\ state[c] = "none" => channel[c] = <<>>
    BY DEF HandlerOrder
  <2> USE DEF Goto, busVars
  <2>2. CASE Connect(c) \/ SendStored(c) \/ NotFinished(c) \/ ChannelClosed(c) \/ Leave(c)
    BY <2>0, <2>1, <2>2 DEF Connect, SendStored, NotFinished, ChannelClosed, Leave
  <2>3. CASE Listen(c)
    BY <2>0, <2>1, <2>3 DEF Listen, Subscribe
  <2>4. CASE Return(c)
    BY <2>0, <2>1, <2>4 DEF Return, Unsubscribe
  <2>5. CASE Forward(c)
    <3>1. /\ channel[c] # <<>> /\ UNCHANGED state
          /\ ws' = [ws EXCEPT ![c] = "writing"]
      BY <2>5 DEF Forward, Receive
    <3>2. \E r, q : /\ received' = [received EXCEPT ![c] = r]
                    /\ channel' = [channel EXCEPT ![c] = q]
      BY <2>0, <2>5 DEF Forward, Receive
    <3>3. ws'[c] = "writing"
          /\ \A d \in Clients : d # c => ws'[d] = ws[d]
      BY <2>0, <3>1
    <3> QED BY <2>0, <2>1, <3>1, <3>2, <3>3
  <2>6. CASE WriteEnds(c)
    BY <2>0, <2>1, <2>6 DEF WriteEnds, ReportWritten, FrameWritten
  <2> QED BY <2>2, <2>3, <2>4, <2>5, <2>6 DEF HandlerStep, Connect, Leave
<1>6. HandlerOrder'
  BY <1>1, <1>5 DEF HandlerOrder, serverVars
<1> QED BY <1>3, <1>4, <1>6

\* ControlInv is preserved by every step.
LEMMA NextControl == BusInv /\ ControlInv /\ [Next]_vars => ControlInv'
<1> SUFFICES ASSUME BusInv, ControlInv, [Next]_vars PROVE ControlInv'
  OBVIOUS
<1>1. CASE UNCHANGED vars
  BY <1>1 DEF vars, busVars, serverVars, handlerVars, ControlInv, ControlTypes,
              HandlerOrder, ServerOrder
<1>2. CASE Shutdown
  <2>1. /\ UNCHANGED <<sent, fanout, locked, channel, received, serverVars, handlerVars>>
        /\ state' = [s \in Subscribers |->
                        IF Contains(subscribers, s) THEN "closed" ELSE state[s]]
    BY <1>2 DEF Shutdown, Close
  <2>2. \A c \in Clients : state'[c] = "none" <=> state[c] = "none"
    BY <2>1 DEF BusInv, ChannelsSafe, RegisteredIffOpen, Clients
  <2>3. ControlTypes' /\ ServerOrder'
    BY <2>1 DEF ControlInv, ControlTypes, ServerOrder, serverVars, handlerVars
  <2>4. HandlerOrder'
    BY <2>1, <2>2 DEF ControlInv, HandlerOrder, serverVars, handlerVars
  <2> QED BY <2>3, <2>4 DEF ControlInv
<1> QED
  BY <1>1, <1>2, ServerControl, FanOutControl, HandlerControl DEF Next

\* ControlInv is an invariant.
LEMMA ControlInvHolds == Spec => []ControlInv
BY InitControl, NextControl, BusInvHolds, PTL DEF Spec

\* The bus, the server and the handlers keep their types; no channel ever holds
\* more than its capacity.
THEOREM TypeCorrect == Spec => []TypeOK
<1>1. BusInv /\ ControlInv => TypeOK
  BY DEF BusInv, ControlInv, ControlTypes, TypeOK
<1> QED BY <1>1, BusInvHolds, ControlInvHolds, PTL

-----------------------------------------------------------------------------
(* What a client sees.                                                     *)

\* Taking an event out of the channel does not change the stream.
LEMMA ReceivePipe ==
    ASSUME NEW S, NEW r \in Seq(S), NEW q \in Seq(S), q # <<>>
    PROVE  Append(r, Head(q)) \o Tail(q) = r \o q
<1>1. /\ Head(q) \in S /\ Tail(q) \in Seq(S)
      /\ <<Head(q)>> \in Seq(S) /\ q = <<Head(q)>> \o Tail(q)
  BY TailFacts
<1>2. Append(r, Head(q)) = r \o <<Head(q)>>
  BY <1>1
<1>3. (r \o <<Head(q)>>) \o Tail(q) = r \o (<<Head(q)>> \o Tail(q))
  BY <1>1, ConcatAssociative
<1> QED BY <1>1, <1>2, <1>3

\* A buffered event is the next one of the stream.
LEMMA SendPipe ==
    ASSUME NEW S, NEW r \in Seq(S), NEW q \in Seq(S), NEW x \in S
    PROVE  r \o Append(q, x) = Append(r \o q, x)
<1>1. Append(q, x) = q \o <<x>> /\ <<x>> \in Seq(S)
  OBVIOUS
<1>2. (r \o q) \o <<x>> = r \o (q \o <<x>>)
  BY <1>1, ConcatAssociative
<1>3. r \o q \in Seq(S)
  BY ConcatProperties
<1>4. Append(r \o q, x) = (r \o q) \o <<x>>
  BY <1>3
<1> QED BY <1>1, <1>2, <1>4

\* Events are numbered from one.
LEMMA Numbers ==
    ASSUME NEW s \in Seq(Message)
    PROVE  Len(s) \in Nat /\ \A i \in 1 .. Len(s) : s[i][2] \in Nat \ {0}
BY DEF Message

\* The next event is buffered, or it is dropped.
LEMMA StreamGrows ==
    ASSUME NEW s \in Seq(Message), NEW n \in Nat \ {0}, NEW missing,
           Stream(s, n - 1, missing, TRUE)
    PROVE  Stream(Append(s, <<worker, n>>), n, missing, TRUE)
<1>1. /\ Increasing(s) /\ Below(s, n - 1) /\ Gaps(s, missing)
      /\ After(s, n - 1, missing)
  BY DEF Stream
<1>2. <<worker, n>> \in Message /\ <<worker, n>>[2] = n
  BY DEF Message
<1> DEFINE t == Append(s, <<worker, n>>)
<1>3. /\ t \in Seq(Message) /\ Len(t) = Len(s) + 1 /\ t[Len(s) + 1] = <<worker, n>>
      /\ \A i \in 1 .. Len(s) : t[i] = s[i]
  BY <1>2, AppendFacts
<1>4. t[Len(s) + 1][2] = n
  BY <1>2, <1>3
<1> HIDE DEF t
<1>5. Len(s) \in Nat /\ \A i \in 1 .. Len(s) : s[i][2] \in Nat \ {0}
  BY Numbers
<1>6. Below(t, n)
  BY <1>1, <1>3, <1>4, <1>5 DEF Below
<1>7. Increasing(t)
  <2> SUFFICES ASSUME NEW i \in 1 .. Len(t), NEW j \in 1 .. Len(t), i < j
               PROVE  t[i][2] < t[j][2]
    BY DEF Increasing
  <2>1. CASE j = Len(s) + 1
    BY <1>1, <1>3, <1>4, <1>5, <2>1 DEF Below
  <2>2. CASE j # Len(s) + 1
    BY <1>1, <1>3, <1>5, <2>2 DEF Increasing
  <2> QED BY <2>1, <2>2
<1>8. Gaps(t, missing)
  <2> SUFFICES ASSUME NEW i \in 1 .. Len(t) - 1, NEW m \in t[i][2] + 1 .. t[i + 1][2] - 1
               PROVE  <<worker, m>> \in missing
    BY DEF Gaps
  <2>1. CASE i = Len(s)
    BY <1>1, <1>3, <1>4, <1>5, <2>1 DEF After
  <2>2. CASE i # Len(s)
    BY <1>1, <1>3, <1>5, <2>2 DEF Gaps
  <2> QED BY <2>1, <2>2
<1>9. After(t, n, missing)
  BY <1>3, <1>4, <1>5 DEF After
<1> QED BY <1>6, <1>7, <1>8, <1>9 DEF Stream, t

\* An event that was dropped is recorded as missing.
LEMMA StreamMisses ==
    ASSUME NEW s \in Seq(Message), NEW n \in Nat \ {0}, NEW missing,
           Stream(s, n - 1, missing, TRUE)
    PROVE  Stream(s, n, missing \cup {<<worker, n>>}, TRUE)
<1>1. Len(s) \in Nat /\ \A i \in 1 .. Len(s) : s[i][2] \in Nat \ {0}
  BY Numbers
<1>2. Increasing(s) /\ Below(s, n)
  BY <1>1 DEF Stream, Below
<1>3. Gaps(s, missing \cup {<<worker, n>>})
  BY DEF Stream, Gaps
<1>4. After(s, n, missing \cup {<<worker, n>>})
  <2> SUFFICES ASSUME Len(s) > 0, NEW m \in s[Len(s)][2] + 1 .. n
               PROVE  <<worker, m>> \in missing \cup {<<worker, n>>}
    BY DEF After
  <2>1. CASE m = n
    BY <2>1
  <2>2. CASE m # n
    <3>1. m \in s[Len(s)][2] + 1 .. n - 1
      BY <1>1, <2>2
    <3> QED BY <3>1 DEF Stream, After
  <2> QED BY <2>1, <2>2
<1> QED BY <1>2, <1>3, <1>4 DEF Stream

\* A client that is not served any more has seen the end of its stream.
LEMMA StreamWeaker ==
    ASSUME NEW s \in Seq(Message), NEW m \in Int, NEW n \in Int, m <= n, NEW missing,
           Stream(s, m, missing, FALSE)
    PROVE  Stream(s, n, missing, FALSE)
<1>1. Len(s) \in Nat /\ \A i \in 1 .. Len(s) : s[i][2] \in Nat \ {0}
  BY Numbers
<1> QED BY <1>1 DEF Stream, Below

\* The streams are sequences of messages.
LEMMA PipeType ==
    ASSUME BusInv, NEW c \in Clients
    PROVE  /\ Pipe(c) \in Seq(Message) /\ sent[worker] \in Nat
           /\ received[c] \in Seq(Message) /\ channel[c] \in Seq(Message)
<1>1. received[c] \in Seq(Message) /\ channel[c] \in Seq(Message)
  BY DEF BusInv, BusTypeOK, Clients
<1>2. sent[worker] \in Nat
  BY DEF BusInv, BusTypeOK
<1> QED BY <1>1, <1>2, ConcatProperties DEF Pipe

\* A step that leaves the streams and the worker's Publish alone, and lets
\* nobody listen again.
LEMMA StreamUntouched ==
    ASSUME BusInv, StreamInv, UNCHANGED <<dropped, fanout>>, sent'[worker] = sent[worker],
           NEW c \in Clients, Pipe(c)' = Pipe(c),
           state'[c] = "open" /\ ~closed' => state[c] = "open" /\ ~closed
    PROVE  Stream(Pipe(c)', Served(c)', dropped'[c], state'[c] = "open" /\ ~closed')
<1>1. Served(c)' = Served(c)
  BY DEF Served, Pending
<1>2. Stream(Pipe(c), Served(c), dropped[c], state[c] = "open" /\ ~closed)
  BY DEF StreamInv
<1> QED BY <1>1, <1>2 DEF Stream

\* Serving one subscriber keeps every stream: its event is the next one of that
\* client, buffered or dropped.
LEMMA SendStream ==
    ASSUME BusInv, ControlInv, StreamInv, NEW p \in Publishers, Send(p),
           NEW c \in Clients
    PROVE  Stream(Pipe(c)', Served(c)', dropped'[c], state'[c] = "open" /\ ~closed')
<1> DEFINE s == Head(fanout[p])
<1>1. /\ s \in Subscribers /\ state[s] = "open" /\ ~closed /\ p \in locked
      /\ Contains(fanout[p], s)
      /\ fanout' = [fanout EXCEPT ![p] = Tail(fanout[p])]
      /\ <<p, sent[p]>> \in Message
      /\ \/ /\ channel' = [channel EXCEPT ![s] = Append(@, <<p, sent[p]>>)]
            /\ UNCHANGED dropped
         \/ /\ dropped' = [dropped EXCEPT ![s] = @ \cup {<<p, sent[p]>>}]
            /\ UNCHANGED channel
      /\ UNCHANGED <<closed, sent, state, received>>
  BY SendEffect
<1>2. p = worker
  BY DEF Send, ControlInv, ServerOrder
<1>3. /\ fanout[worker] \in Seq(Subscribers) /\ fanout[worker] # <<>>
      /\ Distinct(fanout[worker]) /\ sent[worker] \in Nat \ {0}
  <2>1. fanout[worker] \in Seq(Subscribers) /\ sent[worker] \in Nat
    BY DEF BusInv, BusTypeOK
  <2>2. fanout[worker] # <<>>
    BY <1>2 DEF Send
  <2>3. Distinct(fanout[worker]) /\ sent[worker] > 0
    BY <1>1, <1>2 DEF BusInv, FanoutOpen
  <2> QED BY <2>1, <2>2, <2>3
<1>4. /\ \A y : Contains(Tail(fanout[worker]), y) => Contains(fanout[worker], y)
      /\ \A y : Contains(fanout[worker], y) => Contains(Tail(fanout[worker]), y) \/ y = s
      /\ ~Contains(Tail(fanout[worker]), s)
  BY <1>2, <1>3, TailFacts
<1> HIDE DEF s
<1>5. fanout'[worker] = Tail(fanout[worker])
  BY <1>1, <1>2 DEF BusInv, BusTypeOK
<1>6. DOMAIN channel = Clients /\ DOMAIN dropped = Clients /\ s \in Clients
  BY <1>1 DEF BusInv, BusTypeOK, Clients
<1>7. Stream(Pipe(c), Served(c), dropped[c], state[c] = "open" /\ ~closed)
  BY DEF StreamInv
<1>8. CASE c # s
  <2>1. channel'[c] = channel[c] /\ dropped'[c] = dropped[c]
    BY <1>1, <1>6, <1>8
  <2>2. Pipe(c)' = Pipe(c)
    BY <1>1, <2>1 DEF Pipe
  <2>3. Served(c)' = Served(c)
    BY <1>1, <1>4, <1>5, <1>8 DEF Served, Pending
  <2> QED BY <1>1, <1>7, <2>1, <2>2, <2>3 DEF Stream
<1>9. CASE c = s
  <2>1. Served(c) = sent[worker] - 1 /\ Served(c)' = sent[worker]
    BY <1>1, <1>2, <1>4, <1>5, <1>9 DEF Served, Pending
  <2>2. Stream(Pipe(c), sent[worker] - 1, dropped[c], TRUE)
    BY <1>1, <1>7, <1>9, <2>1 DEF Stream
  <2>3. Pipe(c) \in Seq(Message) /\ received[c] \in Seq(Message)
        /\ channel[c] \in Seq(Message)
    BY PipeType
  <2>4. Stream(Pipe(c)', sent[worker], dropped'[c], TRUE)
    <3>1. CASE UNCHANGED dropped
               /\ channel' = [channel EXCEPT ![s] = Append(@, <<p, sent[p]>>)]
      <4>1. channel'[c] = Append(channel[c], <<worker, sent[worker]>>)
        BY <1>2, <1>6, <1>9, <3>1
      <4>2. Pipe(c)' = Append(Pipe(c), <<worker, sent[worker]>>)
        <5>1. <<worker, sent[worker]>> \in Message
          BY <1>1, <1>2
        <5> DEFINE m == <<worker, sent[worker]>>
        <5> HIDE DEF m
        <5>2. received[c] \o Append(channel[c], m) = Append(received[c] \o channel[c], m)
          <6>1. m \in Message
            BY <5>1 DEF m
          <6>2. \A r, q \in Seq(Message), x \in Message :
                   r \o Append(q, x) = Append(r \o q, x)
            BY SendPipe
          <6> QED BY <2>3, <6>1, <6>2
        <5> QED BY <1>1, <4>1, <5>2 DEF Pipe, m
      <4>3. Stream(Append(Pipe(c), <<worker, sent[worker]>>), sent[worker], dropped[c], TRUE)
        BY <1>3, <2>2, <2>3, StreamGrows
      <4> QED BY <3>1, <4>2, <4>3
    <3>2. CASE UNCHANGED channel
               /\ dropped' = [dropped EXCEPT ![s] = @ \cup {<<p, sent[p]>>}]
      <4>1. dropped'[c] = dropped[c] \cup {<<worker, sent[worker]>>}
        BY <1>2, <1>6, <1>9, <3>2
      <4>2. Pipe(c)' = Pipe(c)
        BY <1>1, <3>2 DEF Pipe
      <4>3. Stream(Pipe(c), sent[worker], dropped[c] \cup {<<worker, sent[worker]>>}, TRUE)
        BY <1>3, <2>2, <2>3, StreamMisses
      <4> QED BY <4>1, <4>2, <4>3
    <3> QED BY <1>1, <3>1, <3>2
  <2> QED BY <2>1, <2>4 DEF Stream
<1> QED BY <1>8, <1>9

\* A new event of the worker leaves every stream one behind, until it is served.
LEMMA BeginStream ==
    ASSUME BusInv, StreamInv, NEW p \in Publishers, BeginPublish(p), NEW c \in Clients
    PROVE  Stream(Pipe(c)', Served(c)', dropped'[c], state'[c] = "open" /\ ~closed')
<1>1. /\ sent'[p] = sent[p] + 1 /\ sent[p] \in Nat
      /\ \A q \in Publishers : q # p => sent'[q] = sent[q] /\ fanout'[q] = fanout[q]
      /\ p \notin locked
      /\ fanout'[p] = (IF closed THEN <<>> ELSE subscribers)
      /\ UNCHANGED <<closed, state, channel, received, dropped>>
  BY BeginEffect
<1>2. Stream(Pipe(c), Served(c), dropped[c], state[c] = "open" /\ ~closed)
  BY DEF StreamInv
<1>3. Pipe(c)' = Pipe(c)
  BY <1>1 DEF Pipe
<1>4. CASE p # worker
  <2>1. Served(c)' = Served(c)
    BY <1>1, <1>4 DEF Served, Pending
  <2> QED BY <1>1, <1>2, <1>3, <2>1
<1>5. CASE p = worker
  <2>1. Served(c) = sent[worker]
    <3>1. fanout[worker] = <<>>
      BY <1>1, <1>5 DEF BusInv, FanoutOpen
    <3> QED BY <3>1 DEF Served, Pending, Contains
  <2>2. CASE state[c] = "open" /\ ~closed
    <3>1. Contains(subscribers, c)
      BY <2>2 DEF BusInv, ChannelsSafe, RegisteredIffOpen, Clients
    <3>2. Served(c)' = sent[worker]
      BY <1>1, <1>5, <2>2, <3>1 DEF Served, Pending
    <3> QED BY <1>1, <1>2, <1>3, <2>1, <3>2
  <2>3. CASE ~(state[c] = "open" /\ ~closed)
    <3>1. Served(c)' \in Int /\ Served(c)' >= sent[worker]
      BY <1>1, <1>5 DEF Served
    <3>2. Stream(Pipe(c), Served(c)', dropped[c], FALSE)
      <4>1. Pipe(c) \in Seq(Message)
        BY PipeType
      <4>2. Stream(Pipe(c), sent[worker], dropped[c], FALSE)
        BY <1>2, <2>1 DEF Stream
      <4>3. sent[worker] \in Int
        BY <1>1, <1>5
      <4> QED BY <3>1, <4>1, <4>2, <4>3, StreamWeaker
    <3> QED BY <1>1, <1>3, <2>3, <3>2 DEF Stream
  <2> QED BY <2>2, <2>3
<1> QED BY <1>4, <1>5

\* StreamInv is preserved by every step.
LEMMA NextStream == BusInv /\ ControlInv /\ StreamInv /\ [Next]_vars => StreamInv'
<1> SUFFICES ASSUME BusInv, ControlInv, StreamInv, BusStep, NEW c \in Clients
             PROVE  Stream(Pipe(c)', Served(c)', dropped'[c],
                           state'[c] = "open" /\ ~closed')
  BY NextIsBusStep DEF StreamInv
<1>1. CASE UNCHANGED busVars
  <2>1. Pipe(c)' = Pipe(c)
    BY <1>1 DEF Pipe, busVars
  <2> QED BY <1>1, <2>1, StreamUntouched DEF busVars
<1>2. ASSUME NEW p \in Publishers, EndPublish(p)
      PROVE  Stream(Pipe(c)', Served(c)', dropped'[c], state'[c] = "open" /\ ~closed')
  <2>1. Pipe(c)' = Pipe(c) /\ UNCHANGED <<dropped, fanout, sent, state, closed>>
    BY <1>2 DEF Pipe, EndPublish
  <2> QED BY <2>1, StreamUntouched
<1>3. ASSUME NEW s \in Subscribers, Receive(s)
      PROVE  Stream(Pipe(c)', Served(c)', dropped'[c], state'[c] = "open" /\ ~closed')
  <2>1. /\ UNCHANGED <<dropped, fanout, sent, state, closed>> /\ channel[s] # <<>>
        /\ received' = [received EXCEPT ![s] = Append(@, Head(channel[s]))]
        /\ channel' = [channel EXCEPT ![s] = Tail(@)]
    BY <1>3 DEF Receive
  <2>2. DOMAIN channel = Clients /\ DOMAIN received = Clients
    BY DEF BusInv, BusTypeOK, Clients
  <2>3. Pipe(c)' = Pipe(c)
    <3>1. CASE c # s
      BY <2>1, <2>2, <3>1 DEF Pipe
    <3>2. CASE c = s
      <4>1. received'[c] = Append(received[c], Head(channel[c]))
            /\ channel'[c] = Tail(channel[c])
        BY <2>1, <2>2, <3>2
      <4>2. received[c] \in Seq(Message) /\ channel[c] \in Seq(Message)
        BY PipeType
      <4>3. channel[c] # <<>>
        BY <2>1, <3>2
      <4>4. Append(received[c], Head(channel[c])) \o Tail(channel[c])
                = received[c] \o channel[c]
        BY <4>2, <4>3, ReceivePipe, Zenon
      <4>5. received'[c] \o channel'[c] = received[c] \o channel[c]
        BY <4>1, <4>4, Zenon
      <4> QED BY <4>5 DEF Pipe
    <3> QED BY <3>1, <3>2
  <2> QED BY <2>1, <2>3, StreamUntouched
<1>4. ASSUME NEW s \in Subscribers, Subscribe(s)
      PROVE  Stream(Pipe(c)', Served(c)', dropped'[c], state'[c] = "open" /\ ~closed')
  <2>1. /\ UNCHANGED <<dropped, fanout, sent, closed, channel, received>>
        /\ state[s] = "none" /\ state' = [state EXCEPT ![s] = "open"]
    BY <1>4 DEF Subscribe
  <2>2. Pipe(c)' = Pipe(c)
    BY <2>1 DEF Pipe
  <2>3. CASE c # s
    <3>1. state'[c] = state[c]
      <4>1. DOMAIN state = Clients
        BY DEF BusInv, BusTypeOK, Clients
      <4> QED BY <2>1, <2>3, <4>1
    <3> QED BY <2>1, <2>2, <3>1, StreamUntouched
  <2>4. CASE c = s
    <3>1. received[c] = <<>> /\ channel[c] = <<>>
      BY <2>1, <2>4 DEF ControlInv, HandlerOrder
    <3>2. Len(Pipe(c)) = 0
      BY <3>1 DEF Pipe
    <3> QED BY <2>2, <3>2 DEF Stream, Increasing, Below, Gaps, After
  <2> QED BY <2>3, <2>4
<1>5. ASSUME NEW s \in Subscribers, Unsubscribe(s)
      PROVE  Stream(Pipe(c)', Served(c)', dropped'[c], state'[c] = "open" /\ ~closed')
  <2>1. /\ UNCHANGED <<dropped, fanout, sent, closed, channel, received>>
        /\ state' = [state EXCEPT ![s] = "closed"]
    BY <1>5 DEF Unsubscribe
  <2>2. Pipe(c)' = Pipe(c)
    BY <2>1 DEF Pipe
  <2>3. state'[c] = "open" => state[c] = "open"
    BY <2>1 DEF BusInv, BusTypeOK, Clients
  <2> QED BY <2>1, <2>2, <2>3, StreamUntouched
<1>6. CASE Close
  <2>1. UNCHANGED <<dropped, fanout, sent, channel, received>> /\ closed' = TRUE
    BY <1>6 DEF Close
  <2>2. Pipe(c)' = Pipe(c)
    BY <2>1 DEF Pipe
  <2> QED BY <2>1, <2>2, StreamUntouched
<1> QED
  BY <1>1, <1>2, <1>3, <1>4, <1>5, <1>6, BeginStream, SendStream DEF BusStep

\* Whenever a client connects and however slow it is: it sees events in order,
\* each at most once, nothing after the final one, misses only what found its
\* channel full, and is told of a final record only when there is one.
THEOREM StreamsFaithful == Spec => []StreamFaithful
<1>1. Init => StreamInv
  <2> SUFFICES ASSUME Init, NEW c \in Clients PROVE Len(Pipe(c)) = 0
    BY DEF StreamInv, Stream, Increasing, Below, Gaps, After
  <2>1. received[c] = <<>> /\ channel[c] = <<>>
    BY DEF Init, BusInit, Clients
  <2> QED BY <2>1 DEF Pipe
<1>2. Spec => []StreamInv
  BY <1>1, NextStream, BusInvHolds, ControlInvHolds, PTL DEF Spec
<1>3. BusInv /\ ControlInv /\ StreamInv => StreamFaithful
  <2> SUFFICES ASSUME BusInv, ControlInv, StreamInv PROVE StreamFaithful
    OBVIOUS
  <2>1. ASSUME NEW c \in Clients
        PROVE  /\ Len(Pipeline(c)) = Len(Pipe(c)) /\ Len(Pipe(c)) \in Nat
               /\ \A i \in 1 .. Len(Pipe(c)) :
                     Pipeline(c)[i] = Pipe(c)[i][2] /\ Pipe(c)[i][2] \in Nat \ {0}
               /\ Stream(Pipe(c), Served(c), dropped[c], state[c] = "open" /\ ~closed)
               /\ \A i \in 1 .. Len(Pipe(c)) : Pipe(c)[i][2] <= sent[worker]
    <3>1. Pipe(c) \in Seq(Message) /\ sent[worker] \in Nat
      BY PipeType
    <3>2. Len(Pipe(c)) \in Nat /\ \A i \in 1 .. Len(Pipe(c)) : Pipe(c)[i][2] \in Nat \ {0}
      BY <3>1, Numbers
    <3>3. Stream(Pipe(c), Served(c), dropped[c], state[c] = "open" /\ ~closed)
      BY DEF StreamInv
    <3>4. Pipeline(c) = [i \in 1 .. Len(Pipe(c)) |-> Pipe(c)[i][2]]
      BY DEF Pipeline, Pipe
    <3>5. Len(Pipeline(c)) = Len(Pipe(c))
      BY <3>2, <3>4
    <3>6. Served(c) <= sent[worker] /\ Served(c) \in Int
      BY <3>1 DEF Served
    <3>7. \A i \in 1 .. Len(Pipe(c)) : Pipe(c)[i][2] <= sent[worker]
      BY <3>1, <3>2, <3>3, <3>6 DEF Stream, Below
    <3> QED BY <3>2, <3>3, <3>4, <3>5, <3>7
  <2>2. StreamInOrder
    <3> SUFFICES ASSUME NEW c \in Clients, NEW i \in 1 .. Len(Pipeline(c)),
                        NEW j \in 1 .. Len(Pipeline(c)), i < j
                 PROVE  Pipeline(c)[i] < Pipeline(c)[j] /\ Pipeline(c)[i] # final
      BY DEF StreamInOrder
    <3>1. Pipe(c)[i][2] < Pipe(c)[j][2]
      BY <2>1 DEF Stream, Increasing
    <3>2. final = 0 \/ final = sent[worker]
      BY DEF ControlInv, ControlTypes, ServerOrder
    <3>3. sent[worker] \in Nat
      BY PipeType
    <3> QED BY <2>1, <3>1, <3>2, <3>3
  <2>3. NoSilentGap
    BY <2>1 DEF NoSilentGap, Stream, Gaps
  <2>4. FinalFrameIsStored
    BY DEF FinalFrameIsStored, HasFinal, ControlInv, ServerOrder
  <2> QED BY <2>2, <2>3, <2>4 DEF StreamFaithful
<1> QED BY <1>2, <1>3, BusInvHolds, ControlInvHolds, PTL
=============================================================================
