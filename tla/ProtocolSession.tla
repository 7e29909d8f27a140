---------------------------- MODULE ProtocolSession ----------------------------
(***************************************************************************)
(* A session of Protocol (protocol.cpp, protocol.h, ping.h) with the       *)
(* cloud: the event loop, the pings that keep the session alive and notice *)
(* a dead one, and the completion handlers of events published with an     *)
(* acknowledgement.  Everything happens on the system thread, whose loop   *)
(* turns at least every MaxBlock ticks; what arrives meanwhile waits in    *)
(* the socket.                                                             *)
(***************************************************************************)
EXTENDS CompletionHandlerMap, FiniteSets

CONSTANTS
    Event,        \* events being published, named by their message ids
    Intervals,    \* keep-alive intervals that the system or the application sets; 0 disables pings
    PingTimeout,
    AckTimeout,   \* SEND_EVENT_ACK_TIMEOUT
    MaxBlock,     \* longest time between two turns of the event loop
    MaxLatency,   \* a cloud that can be reached answers a ping within this time
    MaxWakes,     \* bound: wake-ups since something was received
    MaxTicks,     \* bound: ticks of the handler map when an event is sent
    MaxSilence,   \* bound: no later time since a message is told apart
    None

ASSUME SessionAssumption ==
    /\ Intervals \subseteq Nat
    /\ {PingTimeout, AckTimeout, MaxBlock, MaxLatency, MaxWakes, MaxTicks, MaxSilence} \subseteq Nat
    /\ MaxBlock > 0
    /\ MaxLatency <= PingTimeout
    /\ MaxTimeout > AckTimeout + MaxTicks
    /\ None \notin Nat
    /\ \A interval \in Intervals \cup {PingTimeout} : interval < MaxSilence

VARIABLES
    open,           \* the session is established
    sinceMessage,   \* now - last_message_millis
    sinceUpdate,    \* now - last_ack_handlers_update
    expecting,      \* expecting_ping_ack
    keepalive,      \* ping_interval and keepalive_source
    updating,       \* chunkedTransfer.is_updating()
    ackHandlers,    \* ack_handlers
    socket,         \* messages that arrived and were not read yet
    alive,          \* the cloud can be reached
    pinged,         \* time left until the cloud answers a ping
    wakes,
    \* history
    silence,        \* time since something was received, the device was woken, or the loop
                    \* turned without a reason to ping
    status,         \* of each event: pending, called with a timeout, or done in another way
    age             \* time since an event was published that is pending or timed out

vars == <<open, sinceMessage, sinceUpdate, expecting, keepalive, updating, ackHandlers,
          socket, alive, pinged, wakes, silence, status, age>>

Message == Event \cup {"pong"}
AgeBound == AckTimeout + MaxBlock

\* The longest interval, the timeout, and each of them noticed a turn of the loop later.
SilenceBound == MaxSilence - 1 + MaxBlock + PingTimeout + MaxBlock

Pending == {e \in Event : status[e] = "pending"}

TypeOK ==
    /\ open \in BOOLEAN
    /\ sinceMessage \in 0 .. MaxSilence
    /\ sinceUpdate \in 0 .. MaxBlock
    /\ expecting \in BOOLEAN
    /\ keepalive \in [interval : Intervals, source : {"SYSTEM", "USER"}]
    /\ updating \in BOOLEAN
    /\ Keys(ackHandlers) = Pending
    /\ ackHandlers.nearest = NearestOf(ackHandlers.due)
    /\ \A e \in Pending : ackHandlers.due[e] \in ackHandlers.ticks .. ackHandlers.ticks + AckTimeout
    /\ socket \subseteq Message
    /\ alive \in BOOLEAN
    /\ pinged \in 0 .. MaxLatency \cup {None}
    /\ wakes \in 0 .. MaxWakes
    /\ silence \in 0 .. SilenceBound + 1
    /\ status \in [Event -> {"pending", "timeout", "done"}]
    /\ age \in [Event -> 0 .. AgeBound + 1]

Init ==
    /\ open = FALSE
    /\ sinceMessage = 0
    /\ sinceUpdate = 0
    /\ expecting = FALSE
    /\ keepalive \in [interval : Intervals, source : {"SYSTEM"}]
    /\ updating = FALSE
    /\ ackHandlers = NoHandlers
    /\ socket = {}
    /\ alive = FALSE
    /\ pinged = None
    /\ wakes = 0
    /\ silence = 0
    /\ status = [e \in Event |-> "done"]
    /\ age = [e \in Event |-> 0]
-----------------------------------------------------------------------------
(* Helpers *)

\* The completion handlers of some events are called.
Conclude(expired, done) ==
    /\ status' = [e \in Event |-> IF e \in done THEN "done" ELSE IF e \in expired THEN "timeout" ELSE status[e]]
    /\ age' = [e \in Event |-> IF e \in done THEN 0 ELSE age[e]]

ClearHandlers ==
    /\ ackHandlers' = NoHandlers
    /\ Conclude({}, Pending)

\* Mutant: the time of the last message is that of the last one received.
SendPingUntimed ==
    /\ UNCHANGED sinceMessage
    /\ pinged' = IF ~ alive THEN None ELSE IF pinged = None THEN MaxLatency ELSE pinged

\* ping(); if the cloud has not answered an earlier ping yet, it will answer both.
SendPing ==
    /\ sinceMessage' = 0
    /\ pinged' = IF ~ alive THEN None ELSE IF pinged = None THEN MaxLatency ELSE pinged

\* The session ends and its socket is closed.  What begin() sets is cleared here: nothing
\* reads it in between.
Close ==
    /\ open' = FALSE
    /\ socket' = {}
    /\ alive' = FALSE
    /\ pinged' = None
    /\ sinceMessage' = 0
    /\ sinceUpdate' = 0
    /\ expecting' = FALSE
    /\ updating' = FALSE
    /\ wakes' = 0
    /\ silence' = 0
-----------------------------------------------------------------------------
(* Sessions *)

\* Mutant: completion handlers are left as they are.
BeginWithHandlers ==
    /\ ~ open
    /\ \/ UNCHANGED <<open, alive, sinceUpdate, pinged>>
       \/ /\ open' = TRUE
          /\ alive' = TRUE
          /\ sinceUpdate' \in 0 .. MaxBlock
          /\ pinged' \in {None, MaxLatency}
    /\ UNCHANGED <<sinceMessage, expecting, keepalive, updating, ackHandlers, socket, wakes, silence, status, age>>

\* A new attempt to connect terminates what is left of the last session, and begin() a
\* second time; then the handshake succeeds or fails.  Sessions begin with a ping or with a
\* HELLO, which is acknowledged before begin() returns.
Begin ==
    /\ ~ open
    /\ ClearHandlers
    /\ \/ UNCHANGED <<open, alive, sinceUpdate, pinged>>
       \/ /\ open' = TRUE
          /\ alive' = TRUE
          /\ sinceUpdate' \in 0 .. MaxBlock
          /\ pinged' \in {None, MaxLatency}
    /\ UNCHANGED <<sinceMessage, expecting, keepalive, updating, socket, wakes, silence>>

\* DISCONNECT, after the loop has waited for acknowledgements, or TERMINATE.
Disconnect ==
    /\ open
    /\ Close
    /\ ClearHandlers
    /\ UNCHANGED keepalive

\* Mutant: a new interval resets the pinger.
SetKeepaliveResets ==
    /\ \E interval \in Intervals, source \in {"SYSTEM", "USER"} :
          keepalive' = IF keepalive.source = "USER" /\ source = "SYSTEM" THEN keepalive
                       ELSE [interval |-> interval, source |-> source]
    /\ expecting' = FALSE
    /\ UNCHANGED <<open, sinceMessage, sinceUpdate, updating, ackHandlers,
                   socket, alive, pinged, wakes, silence, status, age>>

SetKeepalive ==
    /\ \E interval \in Intervals, source \in {"SYSTEM", "USER"} :
          keepalive' = IF keepalive.source = "USER" /\ source = "SYSTEM" THEN keepalive
                       ELSE [interval |-> interval, source |-> source]
    /\ UNCHANGED <<open, sinceMessage, sinceUpdate, expecting, updating, ackHandlers,
                   socket, alive, pinged, wakes, silence, status, age>>

\* WAKE: the device has slept without losing the session.
Wake ==
    /\ open
    /\ wakes < MaxWakes
    /\ wakes' = wakes + 1
    /\ silence' = 0
    /\ SendPing
    /\ UNCHANGED <<open, sinceUpdate, expecting, keepalive, updating, ackHandlers, socket, alive, status, age>>

\* send_event() with WITH_ACK, outside of an update: the handler is added when the event
\* has been sent.  An event that is refused or cannot be sent changes nothing.
SendEvent(e) ==
    /\ open
    /\ ~ updating
    /\ e \notin Pending \cup socket
    /\ ackHandlers.ticks <= MaxTicks
    /\ status' = [status EXCEPT ![e] = "pending"]
    /\ age' = [age EXCEPT ![e] = 0]
    /\ ackHandlers' = AddHandler(ackHandlers, e, AckTimeout)
    /\ UNCHANGED <<open, sinceMessage, sinceUpdate, expecting, keepalive, updating, socket, alive, pinged, wakes, silence>>
-----------------------------------------------------------------------------
(* The event loop *)

\* handle_received_message(), after expired handlers were called as in every turn.
Handle(m) ==
    LET left == Update(ackHandlers, sinceUpdate)
    IN  /\ sinceUpdate' = 0
        /\ sinceMessage' = 0
        /\ expecting' = FALSE
        /\ wakes' = 0
        /\ silence' = 0
        /\ ackHandlers' = IF m \in Event THEN TakeHandler(left, m) ELSE left
        /\ Conclude(Expired(ackHandlers, sinceUpdate), Keys(left) \cap {m})
        /\ UNCHANGED <<open, keepalive, alive, pinged>>

\* An acknowledgement or the answer to a ping.
Receive(m) ==
    /\ open
    /\ m \in socket
    /\ Handle(m)
    /\ socket' = socket \ {m}
    /\ UNCHANGED updating

\* The request that begins or ends an update; it is read as soon as it arrives.
ReceiveUpdate ==
    /\ alive
    /\ socket = {}
    /\ Handle("update")
    /\ updating' = ~ updating
    /\ UNCHANGED socket

\* Mutant: without an interval the pinger does nothing at all.
TimedOutWithInterval == expecting /\ keepalive.interval # 0 /\ PingTimeout < sinceMessage

\* Pinger::process()
TimedOut == expecting /\ PingTimeout < sinceMessage
PingDue == ~ expecting /\ keepalive.interval # 0 /\ keepalive.interval < sinceMessage

\* event_loop_idle(), when the channel has no message to hand on: there is nothing to read,
\* or what it reads first it swallows, whatever waits behind.  That may happen at any time: a
\* duplicate, an acknowledgement nothing waits for, a packet of 0 or 1 bytes.  During an
\* update the pinger is not asked.
Idle ==
    /\ open
    /\ ackHandlers' = Update(ackHandlers, sinceUpdate)
    /\ Conclude(Expired(ackHandlers, sinceUpdate), {})
    /\ IF TimedOut /\ ~ updating
       THEN Close
       ELSE /\ IF PingDue /\ ~ updating
               THEN expecting' = TRUE /\ SendPing
               ELSE UNCHANGED <<expecting, sinceMessage, pinged>>
            /\ sinceUpdate' = 0
            /\ silence' = IF updating \/ (~ expecting /\ keepalive.interval = 0) THEN 0 ELSE silence
            /\ UNCHANGED <<open, updating, socket, alive, wakes>>
    /\ UNCHANGED keepalive

\* The channel reports an error, such as a message that was not acknowledged in time.
ReceiveError ==
    /\ open
    /\ ackHandlers' = Update(ackHandlers, sinceUpdate)
    /\ Conclude(Expired(ackHandlers, sinceUpdate), {})
    /\ Close
    /\ UNCHANGED keepalive

EventLoop == Idle \/ ReceiveUpdate \/ \E m \in Message : Receive(m)
-----------------------------------------------------------------------------
(* Time, the network and the cloud *)

AtMost(bound, n) == IF n < bound THEN n + 1 ELSE bound

Tick ==
    /\ open
    /\ sinceUpdate < MaxBlock
    /\ pinged # None => pinged > 0
    /\ sinceMessage' = AtMost(MaxSilence, sinceMessage)
    /\ sinceUpdate' = sinceUpdate + 1
    /\ pinged' = IF pinged = None THEN None ELSE pinged - 1
    /\ silence' = AtMost(SilenceBound + 1, silence)
    /\ age' = [e \in Event |-> IF e \in Pending THEN AtMost(AgeBound + 1, age[e]) ELSE age[e]]
    /\ UNCHANGED <<open, expecting, keepalive, updating, ackHandlers, socket, alive, wakes, status>>

Arrive(m) ==
    /\ alive
    /\ socket' = socket \cup {m}
    /\ UNCHANGED <<open, sinceMessage, sinceUpdate, expecting, keepalive, updating, ackHandlers, alive, wakes, silence, status, age>>

CloudAnswersPing == pinged # None /\ Arrive("pong") /\ pinged' = None
CloudAcknowledges == open /\ UNCHANGED pinged /\ \E e \in Pending : Arrive(e)

\* The cloud can no longer be reached, for the rest of the session.
LinkDies ==
    /\ alive
    /\ alive' = FALSE
    /\ pinged' = None
    /\ UNCHANGED <<open, sinceMessage, sinceUpdate, expecting, keepalive, updating, ackHandlers, socket, wakes, silence, status, age>>

Next ==
    \/ Begin \/ Disconnect \/ SetKeepalive \/ Wake \/ \E e \in Event : SendEvent(e)
    \/ EventLoop \/ ReceiveError
    \/ Tick \/ CloudAnswersPing \/ CloudAcknowledges \/ LinkDies

\* The loop keeps turning, and connecting, which need not succeed; time passes, also when the
\* loop always has a message to read.  Nothing is assumed of the cloud but that a ping it can
\* answer is answered in time, which Tick waits for.
Fairness == WF_vars(EventLoop) /\ WF_vars(Begin /\ ~ open') /\ SF_vars(Tick) /\ WF_vars(CloudAnswersPing)

Spec == Init /\ [][Next]_vars /\ Fairness
-----------------------------------------------------------------------------
(* Properties *)

\* A live session is not dropped, however long the loop was blocked while messages waited in
\* the socket: if the pinger ends a session whose cloud can be reached, the answer has arrived
\* and waits behind a datagram that the channel swallowed in this turn.
LiveNotDropped == [][Idle /\ ~ open' => ~ alive \/ "pong" \in socket]_vars

\* A session with a cloud that cannot be reached ends, unless the application disabled
\* pings or an update is in progress, during which there are none.
DeadIsNoticed == (open /\ ~ alive) ~> (~ open \/ updating \/ keepalive.interval = 0)

\* However long the device itself puts off the end of a session by its own pings, a new
\* interval or a blocked loop: an open session was heard of within the longest interval, the
\* timeout of a ping and two turns of the loop, but for times without a reason to ping.
SilenceIsNoticed == open => silence <= SilenceBound

\* A completion handler gets a timeout no later than a turn of the loop after its time, and
\* no more than a turn too early: the ticks of the map lag behind when it is added.
TimeoutInTime ==
    \A e \in Event :
        /\ status[e] = "timeout" => age[e] + MaxBlock >= AckTimeout
        /\ open /\ status[e] = "pending" => age[e] <= AckTimeout + MaxBlock

\* Every published event is concluded, also when the session ends before the answer comes.
EveryEventConcluded == \A e \in Event : status[e] = "pending" ~> status[e] # "pending"

=============================================================================
