----------------------------- MODULE LiveStream -----------------------------
(***************************************************************************)
(* The live view of one submission in the standalone gateway: the API      *)
(* handler and the worker publish its events on the in-memory bus while    *)
(* WebSocket handlers (HandleWebSocket, pkg/api/websocket.go) come and go  *)
(* and cmd/api may close the bus under them.  A handler first looks into   *)
(* the store, then subscribes, then forwards what its channel delivers     *)
(* until the final event, and unsubscribes as it returns.                  *)
(*                                                                         *)
(* The API handler publishes one event, QUEUED; the worker publishes up to *)
(* Steps intermediate ones (COMPILING, RUNNING, the test cases) and then   *)
(* the final one, COMPLETED or FAILED.  (The second final event of a panic *)
(* in Cleanup is ProcessJob's subject.)                                    *)
(*                                                                         *)
(* A write to a connection has no deadline: while a client that stays      *)
(* connected does not read, its handler is in the write.  Pings are left   *)
(* out; one that is not read holds the handler up in the same way.         *)
(***************************************************************************)
EXTENDS MemoryEventBus

CONSTANTS
    api, worker,   \* the publishers
    Steps          \* bound: events between QUEUED and the final one

ASSUME StepsAssumption == Steps \in Nat
ASSUME PublishersAssumption == Publishers = {api, worker} /\ api # worker

Clients == Subscribers

VARIABLES
    accepted,      \* the POST was answered, so clients know the submission
    record,        \* the store holds a final record
    final,         \* number of the worker's final event, 0 before it
    ws,            \* where each WebSocket handler is
    reported,      \* clients that were sent the stored final record
    left           \* clients that closed the connection themselves

serverVars == <<accepted, record, final>>
handlerVars == <<ws, reported, left>>
vars == <<busVars, serverVars, handlerVars>>

WsStates == {"away", "upgraded", "reporting", "checked", "streaming", "writing",
             "returning", "gone"}

Init ==
    /\ BusInit
    /\ accepted = FALSE
    /\ record = FALSE
    /\ final = 0
    /\ ws = [c \in Clients |-> "away"]
    /\ reported = {}
    /\ left = {}

-----------------------------------------------------------------------------
(* The publishers; the job was enqueued before QUEUED is published, so the *)
(* worker may be ahead of the API handler.                                 *)

PublishQueued ==
    /\ sent[api] = 0
    /\ BeginPublish(api)
    /\ UNCHANGED <<serverVars, handlerVars>>

\* The 202 answer, after Publish came back.
Respond ==
    /\ sent[api] = 1
    /\ api \notin locked
    /\ ~accepted
    /\ accepted' = TRUE
    /\ UNCHANGED <<busVars, record, final, handlerVars>>

\* ProcessJob publishes its next intermediate event.
PublishStep ==
    /\ ~record
    /\ sent[worker] < Steps
    /\ BeginPublish(worker)
    /\ UNCHANGED <<serverVars, handlerVars>>

\* ProcessJob stores the final record, after its last test or early when the
\* submission fails ...
SaveFinal ==
    /\ worker \notin locked
    /\ ~record
    /\ record' = TRUE
    /\ UNCHANGED <<busVars, accepted, final, handlerVars>>

OnlyCompleteAnnounced ==     \* mutant: an early failure is stored in silence
    /\ record
    /\ final = 0
    /\ sent[worker] = Steps
    /\ BeginPublish(worker)
    /\ final' = sent[worker] + 1
    /\ UNCHANGED <<accepted, record, handlerVars>>

\* ... and then announces it.
PublishFinal ==
    /\ record
    /\ final = 0
    /\ BeginPublish(worker)
    /\ final' = sent[worker] + 1
    /\ UNCHANGED <<accepted, record, handlerVars>>

\* The fan-out of a running Publish.
FanOut(p) ==
    /\ Send(p) \/ EndPublish(p)
    /\ UNCHANGED <<serverVars, handlerVars>>

-----------------------------------------------------------------------------
(* HandleWebSocket.                                                        *)

Goto(c, where) == ws' = [ws EXCEPT ![c] = where]

\* The upgrade of a client that learnt the submission's id from the answer.
Connect(c) ==
    /\ accepted
    /\ ws[c] = "away"
    /\ Goto(c, "upgraded")
    /\ UNCHANGED <<busVars, serverVars, reported, left>>

\* GetState finds a final record: the handler writes one frame ...
SendStored(c) ==
    /\ ws[c] = "upgraded"
    /\ record
    /\ Goto(c, "reporting")
    /\ UNCHANGED <<busVars, serverVars, reported, left>>

\* ... and returns without having subscribed.
ReportWritten(c) ==
    /\ ws[c] = "reporting"
    /\ reported' = reported \cup {c}
    /\ Goto(c, "gone")
    /\ UNCHANGED <<busVars, serverVars, left>>

\* GetState finds a record that is not final.
NotFinished(c) ==
    /\ ws[c] = "upgraded"
    /\ ~record
    /\ Goto(c, "checked")
    /\ UNCHANGED <<busVars, serverVars, reported, left>>

Listen(c) ==
    /\ ws[c] = "checked"
    /\ Subscribe(c)
    /\ Goto(c, "streaming")
    /\ UNCHANGED <<serverVars, reported, left>>

SkipsOne(c) ==         \* mutant: a forwarded event takes the next one along
    /\ ws[c] = "streaming"
    /\ Len(channel[c]) > 1
    /\ received' = [received EXCEPT ![c] = Append(@, Head(channel[c]))]
    /\ channel' = [channel EXCEPT ![c] = Tail(Tail(@))]
    /\ Goto(c, "writing")
    /\ UNCHANGED <<subscribers, closed, sent, fanout, locked, state, cleaned,
                   dropped, panics, serverVars, reported, left>>

\* The select loop takes an event and writes it to the connection.
Forward(c) ==
    /\ ws[c] = "streaming"
    /\ Receive(c)
    /\ Goto(c, "writing")
    /\ UNCHANGED <<serverVars, reported, left>>

\* The write comes back; after the final event, and a close frame, the handler
\* returns.
FrameWritten(c) ==
    /\ ws[c] = "writing"
    /\ Goto(c, IF Last(received[c]) = <<worker, final>> THEN "returning"
                                                        ELSE "streaming")
    /\ UNCHANGED <<busVars, serverVars, reported, left>>

WaitsForClient(c) ==   \* mutant: a closed channel does not end the loop
    /\ ws[c] = "streaming"
    /\ state[c] = "closed"
    /\ channel[c] = <<>>
    /\ c \in left
    /\ Goto(c, "returning")
    /\ UNCHANGED <<busVars, serverVars, reported, left>>

\* The channel was closed by the shutdown and is drained: !ok.
ChannelClosed(c) ==
    /\ ws[c] = "streaming"
    /\ state[c] = "closed"
    /\ channel[c] = <<>>
    /\ Goto(c, "returning")
    /\ UNCHANGED <<busVars, serverVars, reported, left>>

\* The reader goroutine or a write sees the connection fail.
Leave(c) ==
    /\ ws[c] \in {"reporting", "streaming", "writing"}
    /\ left' = left \cup {c}
    /\ Goto(c, IF ws[c] = "reporting" THEN "gone" ELSE "returning")
    /\ UNCHANGED <<busVars, serverVars, reported>>

\* The deferred unsubscribe; net/http recovers should it panic.
Return(c) ==
    /\ ws[c] = "returning"
    /\ Unsubscribe(c)
    /\ Goto(c, "gone")
    /\ UNCHANGED <<serverVars, reported, left>>

\* cmd/api closes the bus; hijacked connections outlive the HTTP server, and
\* the embedded worker may still be publishing.
Shutdown ==
    /\ Close
    /\ UNCHANGED <<serverVars, handlerVars>>

-----------------------------------------------------------------------------
ServerStep == PublishQueued \/ Respond \/ SaveFinal \/ PublishFinal
WriteEnds(c) == ReportWritten(c) \/ FrameWritten(c)
HandlerStep(c) ==
    \/ SendStored(c) \/ NotFinished(c) \/ Listen(c)
    \/ Forward(c) \/ ChannelClosed(c) \/ Return(c)

Next ==
    \/ ServerStep
    \/ PublishStep
    \/ \E p \in Publishers : FanOut(p)
    \/ \E c \in Clients : Connect(c) \/ HandlerStep(c) \/ WriteEnds(c) \/ Leave(c)
    \/ Shutdown

\* The goroutines of the API server, of the worker and of each handler keep
\* running between the calls that may block: nothing says that the evaluation
\* ends or that a client reads.  Clients connect and leave, and the gateway stops,
\* when they like.  Weak fairness is enough for the lock, since only finitely many
\* Publish calls hold it.
Spec ==
    /\ Init
    /\ [][Next]_vars
    /\ WF_vars(PublishQueued) /\ WF_vars(Respond)
    /\ WF_vars(PublishFinal)
    /\ \A p \in Publishers : WF_vars(FanOut(p))
    /\ \A c \in Clients : WF_vars(HandlerStep(c))

-----------------------------------------------------------------------------
(* Properties.                                                             *)

\* Every variable stays in its type, no channel exceeds its capacity.
TypeOK ==
    /\ BusTypeOK
    /\ accepted \in BOOLEAN
    /\ record \in BOOLEAN
    /\ final \in 0 .. Steps + 1
    /\ ws \in [Clients -> WsStates]
    /\ reported \in SUBSET Clients
    /\ left \in SUBSET Clients

\* What a client has received and what is on its way to it: the numbers of the
\* worker's events.  QUEUED went out before the client knew the id.
Pipeline(c) == [i \in 1 .. Len(received[c] \o channel[c]) |->
                    (received[c] \o channel[c])[i][2]]

\* A client sees events in the order of the evaluation, each at most once and
\* nothing after the final one, whenever it connects and whatever is dropped.
StreamInOrder ==
    \A c \in Clients : \A i, j \in 1 .. Len(Pipeline(c)) :
        i < j => /\ Pipeline(c)[i] < Pipeline(c)[j]
                 /\ Pipeline(c)[i] # final

\* Between two events of a client's stream only those are missing that found
\* its channel full.
NoSilentGap ==
    \A c \in Clients : \A i \in 1 .. Len(Pipeline(c)) - 1 :
        \A n \in Pipeline(c)[i] + 1 .. Pipeline(c)[i + 1] - 1 :
            <<worker, n>> \in dropped[c]

HasFinal(c) ==
    \/ c \in reported
    \/ /\ final > 0 /\ Contains(received[c], <<worker, final>>)
       /\ ws[c] # "writing" /\ c \notin left

\* A final frame never runs ahead of the store: a client that then asks for
\* the report gets the final one.
FinalFrameIsStored == \A c \in Clients : HasFinal(c) => record

\* Whenever a client connects and however slow it is, what it sees is the
\* evaluation: in order, without unexplained gaps, and final only when it is.
StreamFaithful == StreamInOrder /\ NoSilentGap /\ FinalFrameIsStored

\* The program under evaluation, and a client's end of the connection.
EvaluationEnds == <>record
ClientReads(c) == []<>(ws[c] \notin {"reporting", "writing"})

\* When the evaluation ends, a client that is subscribed before the final event
\* is published and goes on reading gets it, whatever the other clients do,
\* unless it leaves, lets its channel overflow or the gateway shuts down.
SubscriberGetsFinal ==
    EvaluationEnds =>
        \A c \in Clients : ClientReads(c) =>
            (ws[c] \in {"streaming", "writing"} /\ final = 0
                ~> \/ HasFinal(c) \/ c \in left \/ closed
                   \/ <<worker, final>> \in dropped[c])

\* A handler that is done, or whose channel was closed under it, returns and
\* leaves nothing registered with the bus, provided that its client does not
\* hold it in a write.
HandlersReturn ==
    \A c \in Clients : ClientReads(c) =>
        (ws[c] = "returning" \/ state[c] = "closed"
            ~> ws[c] = "gone" /\ ~Contains(subscribers, c))

-----------------------------------------------------------------------------
(* A statement of the documentation that the code does not meet.           *)

\* API.md:132-134, the sequence ends with the COMPLETED frame and "Close
\* WebSocket (Normal Closure)"; asked of every client that stays connected to
\* a gateway that stays up and reads, about an evaluation that ends.
EveryStreamEnds ==
    EvaluationEnds =>
        \A c \in Clients : ClientReads(c) =>
            (ws[c] = "upgraded" ~> HasFinal(c) \/ c \in left \/ closed)
=============================================================================
