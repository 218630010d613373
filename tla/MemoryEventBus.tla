--------------------------- MODULE MemoryEventBus ---------------------------
(***************************************************************************)
(* events.MemoryEventBus (pkg/events/memory_bus.go), the channels of one   *)
(* submission id: publishers send to every subscriber's channel while      *)
(* subscribers come and go and the gateway shuts the bus down.  Publish    *)
(* holds the read lock for its whole fan-out and is modelled send by send; *)
(* the bodies that hold the write lock (Subscribe, cleanup, Close) are     *)
(* single steps that need every read lock released.  Using a closed Go     *)
(* channel panics.                                                         *)
(*                                                                         *)
(* The module has the bus and its operations; LiveStream composes it with  *)
(* the goroutines that call them.                                          *)
(***************************************************************************)
EXTENDS Naturals, Sequences, SequencesExt

CONSTANTS
    Publishers,      \* goroutines that publish (API handler, worker)
    Subscribers,     \* Subscribe calls, each with its own channel
    Buffer           \* capacity of a channel (64 in the code)

ASSUME BufferAssumption == Buffer \in Nat \ {0}

VARIABLES
    subscribers,     \* m.subscribers[submissionID]: a slice of channels
    closed,          \* m.closed
    sent,            \* events each publisher has started to publish
    fanout,          \* channels the running Publish has still to serve
    locked,          \* publishers that hold the read lock
    state,           \* of each channel: "none", "open" or "closed"
    channel,         \* what is buffered in each channel
    cleaned,         \* channels whose cleanup function has run (sync.Once)
    received,        \* what each subscriber has taken out, in order
    dropped,         \* history: events that found a subscriber's channel full
    panics           \* runtime panics so far

busVars == <<subscribers, closed, sent, fanout, locked, state, cleaned,
             channel, received, dropped, panics>>

BusInit ==
    /\ subscribers = <<>>
    /\ closed = FALSE
    /\ sent = [p \in Publishers |-> 0]
    /\ fanout = [p \in Publishers |-> <<>>]
    /\ locked = {}
    /\ state = [s \in Subscribers |-> "none"]
    /\ cleaned = {}
    /\ channel = [s \in Subscribers |-> <<>>]
    /\ received = [s \in Subscribers |-> <<>>]
    /\ dropped = [s \in Subscribers |-> {}]
    /\ panics = {}

NoLocking == TRUE            \* mutant: the write lock is not taken

\* The write lock can be had when no publisher holds the read lock.
WriteLockFree == locked = {}

Fits(s) == Len(channel[s]) < Buffer

-----------------------------------------------------------------------------
(* Publish.                                                                *)

\* RLock; nothing to do on a closed bus or without subscribers.
BeginPublish(p) ==
    /\ p \notin locked
    /\ sent' = [sent EXCEPT ![p] = @ + 1]
    /\ fanout' = [fanout EXCEPT ![p] = IF closed THEN <<>> ELSE subscribers]
    /\ locked' = locked \cup {p}
    /\ UNCHANGED <<subscribers, closed, state, cleaned, channel, received,
                   dropped, panics>>

\* One non-blocking send: buffered, dropped when full, a panic when closed.
Send(p) ==
    /\ p \in locked
    /\ fanout[p] # <<>>
    /\ LET s == Head(fanout[p])
       IN  /\ channel' = [channel EXCEPT ![s] =
                IF state[s] = "open" /\ Fits(s)
                THEN Append(@, <<p, sent[p]>>) ELSE @]
           /\ dropped' = [dropped EXCEPT ![s] =
                IF state[s] = "open" /\ ~Fits(s)
                THEN @ \cup {<<p, sent[p]>>} ELSE @]
           /\ panics' = IF state[s] = "closed"
                        THEN panics \cup {"send on closed channel"} ELSE panics
    /\ fanout' = [fanout EXCEPT ![p] = Tail(@)]
    /\ UNCHANGED <<subscribers, closed, sent, locked, state, cleaned,
                   received>>

EndPublish(p) ==
    /\ p \in locked
    /\ fanout[p] = <<>>
    /\ locked' = locked \ {p}
    /\ UNCHANGED <<subscribers, closed, sent, fanout, state, cleaned, channel,
                   received, dropped, panics>>

-----------------------------------------------------------------------------
(* Subscribe, the cleanup function it returns, and the subscriber.         *)

\* Subscribe does not look at m.closed.
Subscribe(s) ==
    /\ WriteLockFree
    /\ state[s] = "none"
    /\ state' = [state EXCEPT ![s] = "open"]
    /\ subscribers' = Append(subscribers, s)
    /\ UNCHANGED <<closed, sent, fanout, locked, cleaned, channel, received,
                   dropped, panics>>

\* A subscriber takes the next event out of its channel.
Receive(s) ==
    /\ channel[s] # <<>>
    /\ received' = [received EXCEPT ![s] = Append(@, Head(channel[s]))]
    /\ channel' = [channel EXCEPT ![s] = Tail(@)]
    /\ UNCHANGED <<subscribers, closed, sent, fanout, locked, state, cleaned,
                   dropped, panics>>

\* The slice without channel s, which Subscribe has put there once.
Unregister(s) == RemoveFirst(subscribers, s)

\* The cleanup function (once.Do): leave the slice and close the channel,
\* which panics when Close has closed it before.
Unsubscribe(s) ==
    /\ WriteLockFree
    /\ state[s] # "none"
    /\ s \notin cleaned
    /\ cleaned' = cleaned \cup {s}
    /\ subscribers' = Unregister(s)
    /\ state' = [state EXCEPT ![s] = "closed"]
    /\ panics' = IF state[s] = "closed"
                 THEN panics \cup {"close of closed channel"} ELSE panics
    /\ UNCHANGED <<closed, sent, fanout, locked, channel, received, dropped>>

-----------------------------------------------------------------------------
\* Close: every registered channel is closed, the map is emptied.
Close ==
    /\ WriteLockFree
    /\ ~closed
    /\ closed' = TRUE
    /\ state' = [s \in Subscribers |->
                    IF Contains(subscribers, s) THEN "closed" ELSE state[s]]
    /\ subscribers' = <<>>
    /\ UNCHANGED <<sent, fanout, locked, cleaned, channel, received,
                   dropped, panics>>

-----------------------------------------------------------------------------
(* Properties.                                                             *)

Message == Publishers \X (Nat \ {0})

\* The bus's part of the type invariant; no channel exceeds its capacity.
BusTypeOK ==
    /\ subscribers \in Seq(Subscribers)
    /\ closed \in BOOLEAN
    /\ sent \in [Publishers -> Nat]
    /\ fanout \in [Publishers -> Seq(Subscribers)]
    /\ locked \in SUBSET Publishers
    /\ state \in [Subscribers -> {"none", "open", "closed"}]
    /\ cleaned \in SUBSET Subscribers
    /\ channel \in [Subscribers -> Seq(Message)]
    /\ received \in [Subscribers -> Seq(Message)]
    /\ dropped \in [Subscribers -> SUBSET Message]
    /\ panics \in SUBSET {"send on closed channel", "close of closed channel"}
    /\ \A s \in Subscribers : Len(channel[s]) <= Buffer

\* Publish never sends on a closed channel (which would take the publisher
\* down), however its sends interleave with unsubscribing and shutting down.
NoSendOnClosed == "send on closed channel" \notin panics

\* The slice holds the open channels and no other, each once: a subscriber
\* that is gone costs no publisher anything, one that is there is served.
RegisteredIffOpen ==
    /\ \A s \in Subscribers : state[s] = "open" <=> Contains(subscribers, s)
    /\ \A i, j \in 1 .. Len(subscribers) : subscribers[i] = subscribers[j] => i = j

\* A channel is closed twice only by a subscriber that unsubscribes after the
\* bus was shut down under it: cleanup functions that run twice or in any
\* order, and those of other subscribers, never do it.
DoubleCloseOnlyAtShutdown == "close of closed channel" \in panics => closed

\* Publishing, unsubscribing and shutting down, in any order, use every channel
\* as it may be used and keep track of the open ones.
ChannelsSafe == NoSendOnClosed /\ RegisteredIffOpen /\ DoubleCloseOnlyAtShutdown
=============================================================================
