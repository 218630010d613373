--------------------------- MODULE RedisEventBus ----------------------------
(***************************************************************************)
(* One subscription of events.RedisEventBus (pkg/events/redis_bus.go) and  *)
(* the WebSocket handler that owns it.  A forwarding goroutine moves       *)
(* messages from the Redis Pub/Sub channel to eventCh; cleanup closes both *)
(* and may be called by the handler (deferred unsubscribe, which runs      *)
(* before the deferred cancel) or by the forwarder itself.                 *)
(***************************************************************************)
EXTENDS Naturals, SequencesExt

CONSTANTS
    MaxMessages,    \* bound: messages Redis delivers to this subscription
    Inbox,          \* capacity of pubsub.Channel() (100 in go-redis)
    Buffer          \* capacity of eventCh (64 in the code)

ASSUME MaxMessagesAssumption == MaxMessages \in Nat
ASSUME InboxAssumption == Inbox \in Nat \ {0}
ASSUME EventChAssumption == Buffer \in Nat \ {0}

\* Messages are numbered in the order in which Redis delivers them.
VARIABLES
    delivered,    \* number of the last message Redis delivered
    inbox,        \* the ones waiting in pubsub.Channel()
    forwarder,    \* "waiting", "holding" a message, "exited" or "panicked"
    hand,         \* the message the forwarder holds, or held when it ended
    eventCh,      \* the events of eventCh
    closed,       \* cleanup has run: the Pub/Sub and eventCh are closed
    ctxDone,      \* the handler's context is cancelled
    handler,      \* "streaming", "unsubscribed" or "returned"
    forwarded,    \* what the handler took to send to its client
    skipped,      \* messages that were not decoded
    dropped       \* messages go-redis gave up on

vars == <<delivered, inbox, forwarder, hand, eventCh, closed, ctxDone, handler,
          forwarded, skipped, dropped>>

\* Subscribe has received the confirmation and started the forwarder.
Init ==
    /\ delivered = 0
    /\ inbox = <<>>
    /\ forwarder = "waiting"
    /\ hand = <<>>
    /\ eventCh = <<>>
    /\ closed = FALSE
    /\ ctxDone = FALSE
    /\ handler = "streaming"
    /\ forwarded = <<>>
    /\ skipped = {}
    /\ dropped = {}

\* eventCh takes one more event.
Room == Len(eventCh) < Buffer

\* Redis delivers a message to the open Pub/Sub.
Arrive ==
    /\ ~closed
    /\ delivered < MaxMessages
    /\ Len(inbox) < Inbox
    /\ delivered' = delivered + 1
    /\ inbox' = Append(inbox, delivered + 1)
    /\ UNCHANGED <<forwarder, hand, eventCh, closed, ctxDone, handler, forwarded,
                   skipped, dropped>>

\* go-redis drops a message it could not hand over for a minute: long enough
\* for the forwarder to be stuck on a full eventCh.
Drop ==
    /\ ~closed
    /\ delivered < MaxMessages
    /\ Len(inbox) = Inbox
    /\ forwarder = "holding"
    /\ ~Room
    /\ delivered' = delivered + 1
    /\ dropped' = dropped \cup {delivered + 1}
    /\ UNCHANGED <<inbox, forwarder, hand, eventCh, closed, ctxDone, handler,
                   forwarded, skipped>>

-----------------------------------------------------------------------------
(* The forwarding goroutine.                                               *)

\* It takes the next message and decodes it ...
Take ==
    /\ forwarder = "waiting"
    /\ inbox # <<>>
    /\ inbox' = Tail(inbox)
    /\ hand' = <<Head(inbox)>>
    /\ forwarder' = "holding"
    /\ UNCHANGED <<delivered, eventCh, closed, ctxDone, handler, forwarded,
                   skipped, dropped>>

\* ... or passes over one that is no event.
Skip ==
    /\ forwarder = "waiting"
    /\ inbox # <<>>
    /\ inbox' = Tail(inbox)
    /\ skipped' = skipped \cup {Head(inbox)}
    /\ UNCHANGED <<delivered, forwarder, hand, eventCh, closed, ctxDone, handler,
                   forwarded, dropped>>

\* Its select on eventCh: send when there is room ...
Send ==
    /\ forwarder = "holding"
    /\ ~closed
    /\ Room
    /\ eventCh' = eventCh \o hand
    /\ hand' = <<>>
    /\ forwarder' = "waiting"
    /\ UNCHANGED <<delivered, inbox, closed, ctxDone, handler, forwarded,
                   skipped, dropped>>

\* ... a send on the closed channel is chosen and panics ...
SendOnClosed ==
    /\ forwarder = "holding"
    /\ closed
    /\ forwarder' = "panicked"
    /\ UNCHANGED <<delivered, inbox, hand, eventCh, closed, ctxDone, handler,
                   forwarded, skipped, dropped>>

StopsOnlyHolding ==       \* mutant: the loop ends neither on the context nor on !ok
    forwarder = "holding" /\ ctxDone

\* ... or the context is done.  While waiting, the goroutine also ends when
\* the Pub/Sub is closed and what it had received is used up.
Stops ==
    \/ forwarder = "waiting" /\ (ctxDone \/ (closed /\ inbox = <<>>))
    \/ forwarder = "holding" /\ ctxDone

Exit ==
    /\ Stops
    /\ forwarder' = "exited"
    /\ closed' = TRUE
    /\ UNCHANGED <<delivered, inbox, hand, eventCh, ctxDone, handler, forwarded,
                   skipped, dropped>>

-----------------------------------------------------------------------------
(* HandleWebSocket.                                                        *)

DropsEvent ==             \* mutant: an event is taken and not sent on
    /\ handler = "streaming"
    /\ eventCh # <<>>
    /\ eventCh' = Tail(eventCh)
    /\ UNCHANGED <<delivered, inbox, forwarder, hand, closed, ctxDone, handler,
                   forwarded, skipped, dropped>>

Receive ==
    /\ handler = "streaming"
    /\ eventCh # <<>>
    /\ eventCh' = Tail(eventCh)
    /\ forwarded' = Append(forwarded, Head(eventCh))
    /\ UNCHANGED <<delivered, inbox, forwarder, hand, closed, ctxDone, handler,
                   skipped, dropped>>

\* The reader goroutine notices that the client is gone and cancels.
Disconnect ==
    /\ ~ctxDone
    /\ ctxDone' = TRUE
    /\ UNCHANGED <<delivered, inbox, forwarder, hand, eventCh, closed, handler,
                   forwarded, skipped, dropped>>

\* The handler leaves its loop: after a final event, a failed write, the
\* cancellation, or because eventCh was closed.  First unsubscribe ...
Unsubscribe ==
    /\ handler = "streaming"
    /\ handler' = "unsubscribed"
    /\ closed' = TRUE
    /\ UNCHANGED <<delivered, inbox, forwarder, hand, eventCh, ctxDone, forwarded,
                   skipped, dropped>>

\* ... then cancel.
Return ==
    /\ handler = "unsubscribed"
    /\ handler' = "returned"
    /\ ctxDone' = TRUE
    /\ UNCHANGED <<delivered, inbox, forwarder, hand, eventCh, closed, forwarded,
                   skipped, dropped>>

ForwarderStep == Take \/ Skip \/ Send \/ SendOnClosed \/ Exit

Next ==
    \/ Arrive \/ Drop
    \/ ForwarderStep
    \/ Receive \/ Disconnect \/ Unsubscribe \/ Return

\* The forwarder runs whenever it can, and a handler that has unsubscribed goes
\* on to cancel.  Clients owe nothing: one that does not read keeps its handler
\* in a write, and Receive from happening.
Spec ==
    /\ Init
    /\ [][Next]_vars
    /\ WF_vars(ForwarderStep)
    /\ WF_vars(Return)

-----------------------------------------------------------------------------
(* Properties.                                                             *)

Messages == 1 .. MaxMessages

\* Every variable stays in its type, no channel exceeds its capacity.
TypeOK ==
    /\ delivered \in 0 .. MaxMessages
    /\ inbox \in Seq(Messages) /\ Len(inbox) <= Inbox
    /\ forwarder \in {"waiting", "holding", "exited", "panicked"}
    /\ hand \in Seq(Messages) /\ Len(hand) <= 1
    /\ eventCh \in Seq(Messages) /\ Len(eventCh) <= Buffer
    /\ closed \in BOOLEAN
    /\ ctxDone \in BOOLEAN
    /\ handler \in {"streaming", "unsubscribed", "returned"}
    /\ forwarded \in Seq(Messages)
    /\ skipped \in SUBSET Messages
    /\ dropped \in SUBSET Messages

\* The way of a message, from the client back to Redis.
Stages == <<forwarded, eventCh, hand, inbox>>

\* No message overtakes another on that way or is there twice.
InOrder ==
    \A a, b \in 1 .. 4 : \A i \in 1 .. Len(Stages[a]), j \in 1 .. Len(Stages[b]) :
        a < b \/ (a = b /\ i < j) => Stages[a][i] < Stages[b][j]

\* While the subscription is open a message that is not on that way was not
\* decoded, or go-redis gave it up.
Complete ==
    ~closed => \A n \in 1 .. delivered :
                   \/ n \in skipped \cup dropped
                   \/ \E a \in 1 .. 4 : Contains(Stages[a], n)

\* What the client gets is what Redis delivers, in its order, without repetition
\* and, until somebody closes the subscription, without a gap but for messages
\* that were not decoded and those go-redis gave up on.
DeliveredInFull == InOrder /\ Complete

\* A handler that returns leaves no forwarding goroutine behind, although one
\* may be blocked on a full eventCh nobody reads any more.
ForwarderEnds ==
    handler # "streaming" ~> forwarder \in {"exited", "panicked"}

\* events.go:61, Subscribe "Returns a channel and a cancel function": calling
\* it must not bring down the process through the forwarder's send.
CancelIsSafe == forwarder # "panicked"
=============================================================================
