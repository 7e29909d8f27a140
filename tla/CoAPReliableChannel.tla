------------------------ MODULE CoAPReliableChannel ------------------------
(***************************************************************************)
(* CoAPReliableChannel (communication/src/coap_channel.h), the layer that  *)
(* makes confirmable messages reliable, over the DTLS channel, a network   *)
(* that loses, delays, duplicates and reorders datagrams, and a cloud that *)
(* sends confirmable requests of its own.                                  *)
(*                                                                         *)
(* The device runs everything on the system thread: the event loop         *)
(* receives, a received request is handled and answered, and a synchronous *)
(* send runs its own receive loop inside whoever called it.                *)
(***************************************************************************)
EXTENDS CoAPMessageStore

CONSTANTS
    IdCount,      \* size of the message id space of the device (2^16)
    Req,          \* message ids the cloud gives its requests, one use each per session
    None,
    CloudSpan,    \* the cloud retransmits a request at most this long
    MaxLatency    \* a datagram is delivered within this time or never

(* Span is shorter than the EXCHANGE_LIFETIME of CoAP: what the store      *)
(* relies on is that no copy of a request arrives later than Span after    *)
(* the first one.                                                          *)
Lifetime == CloudSpan + MaxLatency

ASSUME ChannelAssumption ==
    /\ IdCount \in Nat \ {0}
    /\ CloudSpan \in Nat
    /\ MaxLatency \in Nat
    /\ Lifetime < Span
    /\ None \notin Nat /\ None \notin Req

Id == 0 .. IdCount - 1

VARIABLES
    client,     \* CON messages of the device, by id
    server,     \* requests of the cloud, or the acknowledgement sent for them
    mid,        \* CoAPChannel::message_id, the last id given out
    session,    \* is the DTLS context in MBEDTLS_SSL_HANDSHAKE_OVER
    sync,       \* id send_synchronous waits for
    handling,   \* request that handle_received_message is working on
    toCloud, toDevice,   \* datagrams of this session in flight
    started, reqAge,     \* requests the cloud has sent, time since it first did
    \* history
    sent,       \* transmissions of the message with this id
    outcome,    \* what became of the message with this id
    got,        \* ids of this device the cloud has received
    handled     \* times the application was given the request since establish()

deviceVars == <<client, server, mid, session, sync, handling>>
cloudVars  == <<started, reqAge>>
netVars    == <<toCloud, toDevice>>
history    == <<sent, outcome, got, handled>>
vars       == <<deviceVars, cloudVars, netVars, history>>

Outcome == {"none", "pending", "acked", "reset", "lost"}

Request(ids) == [type : {"CON"}, id : ids, ttl : 0 .. MaxLatency]
Reply(ids)   == [type : {"ACK", "RESET"}, id : ids, ttl : 0 .. MaxLatency]

TypeOK ==
    /\ client \in [Id -> Entry]
    /\ server \in [Req -> Entry]
    /\ mid \in Id
    /\ session \in {"open", "closed"}
    /\ sync \in Id \cup {None}
    /\ handling \in Req \cup {None}
    /\ toCloud \subseteq Request(Id) \cup Reply(Req)
    /\ toDevice \subseteq Request(Req) \cup Reply(Id)
    /\ started \subseteq Req
    /\ reqAge \in [Req -> 0 .. Lifetime + 1]
    /\ sent \in [Id -> Nat]
    /\ outcome \in [Id -> Outcome]
    /\ got \subseteq Id
    /\ handled \in [Req -> Nat]

Init ==
    /\ client = [i \in Id |-> NoEntry]
    /\ server = [r \in Req |-> NoEntry]
    /\ mid = 0
    /\ session = "open"
    /\ sync = None
    /\ handling = None
    /\ toCloud = {} /\ toDevice = {}
    /\ started = {} /\ reqAge = [r \in Req |-> 0]
    /\ sent = [i \in Id |-> 0]
    /\ outcome = [i \in Id |-> "none"]
    /\ got = {}
    /\ handled = [r \in Req |-> 0]

Msg(type, id) == [type |-> type, id |-> id, ttl |-> MaxLatency]

\* A datagram leaves only while the session is up: send() returns INVALID_STATE otherwise.
Transmit(msgs) == toCloud' = IF session = "open" THEN toCloud \cup msgs ELSE toCloud

(***************************************************************************)
(* CoAPMessageStore::process over the client store c and the server store  *)
(* s, left behind by the first part of a receive; sess is the session then *)
(* and out the history of outcomes.  A retransmission may fail, which      *)
(* resets the session.  The messages a pass retransmits after it closed    *)
(* the session are not told apart from ones the network loses.             *)
(***************************************************************************)
\* Mutant: a message that timed out is reported with notify_delivered_ok().
ProcessStoresNotifyOk(c, s, sess, out) ==
    \E cw \in Waits(c), sw \in Waits(s), failed \in BOOLEAN :
        /\ client' = Process(c, cw)
        /\ server' = Process(s, sw)
        /\ session' = IF \/ GivenUp(c) \cup GivenUp(s) # {}
                         \/ failed /\ Retransmitted(c) # {}
                      THEN "closed" ELSE sess
        /\ sent' = [i \in Id |-> IF i \in Retransmitted(c) THEN sent[i] + 1 ELSE sent[i]]
        /\ outcome' = [i \in Id |-> IF i \in GivenUp(c) THEN "acked" ELSE out[i]]

ProcessStores(c, s, sess, out) ==
    \E cw \in Waits(c), sw \in Waits(s), failed \in BOOLEAN :
        /\ client' = Process(c, cw)
        /\ server' = Process(s, sw)
        /\ session' = IF \/ GivenUp(c) \cup GivenUp(s) # {}
                         \/ failed /\ Retransmitted(c) # {}
                      THEN "closed" ELSE sess
        /\ sent' = [i \in Id |-> IF i \in Retransmitted(c) THEN sent[i] + 1 ELSE sent[i]]
        /\ outcome' = [i \in Id |-> IF i \in GivenUp(c) THEN "lost" ELSE out[i]]

Resends(c) == {Msg("CON", i) : i \in Retransmitted(c)}
-----------------------------------------------------------------------------
(* Sending *)

NextId == (mid + 1) % IdCount

(* The id space is so large that an id comes round again only after every  *)
(* trace of its last use is gone: 65536 messages take longer than that.    *)
IdRetired(i) ==
    /\ ~ Stored(client, i)
    /\ \A m \in toCloud : ~ (m.type = "CON" /\ m.id = i)
    /\ \A m \in toDevice : ~ (m.type # "CON" /\ m.id = i)

\* CoAPReliableChannel::send of a CON that is not waited for.  The entry
\* stays in the store when the channel fails to send it.
SendRequest ==
    \E wait \in TransmitTimeout(0), ok \in BOOLEAN :
        /\ sync = None
        /\ IdRetired(NextId)
        /\ ok => session = "open"
        /\ mid' = NextId
        /\ client' = Add(client, NextId, NewRequest(wait))
        /\ session' = IF ok THEN session ELSE "closed"
        /\ toCloud' = IF ok THEN toCloud \cup {Msg("CON", NextId)} ELSE toCloud
        /\ sent' = [sent EXCEPT ![NextId] = 1]
        /\ outcome' = [outcome EXCEPT ![NextId] = "pending"]
        /\ got' = got \ {NextId}
        /\ UNCHANGED <<server, sync, handling, toDevice, cloudVars, handled>>

\* CoAPMessageStore::send_synchronous up to its receive loop.  When the
\* channel fails to send, the message is cleared at once.
SendSynchronous ==
    \E wait \in TransmitTimeout(0), ok \in BOOLEAN :
        /\ sync = None
        /\ IdRetired(NextId)
        /\ ok => session = "open"
        /\ mid' = NextId
        /\ sync' = IF ok THEN NextId ELSE None
        /\ client' = IF ok THEN Add(client, NextId, [NewRequest(wait) EXCEPT !.notify = TRUE])
                           ELSE ClearMessage(client, NextId)
        /\ session' = IF ok THEN session ELSE "closed"
        /\ toCloud' = IF ok THEN toCloud \cup {Msg("CON", NextId)} ELSE toCloud
        /\ sent' = [sent EXCEPT ![NextId] = 1]
        /\ outcome' = [outcome EXCEPT ![NextId] = IF ok THEN "pending" ELSE "lost"]
        /\ got' = got \ {NextId}
        /\ UNCHANGED <<server, handling, toDevice, cloudVars, handled>>

\* The application acknowledges the request it is handling: the cached
\* acknowledgement takes the place of the request in the store.  It stays
\* there when the channel fails to send it, which resets the session.
AnswerRequest ==
    \E ok \in BOOLEAN :
        /\ handling # None /\ sync = None
        /\ server' = Add(server, handling, Expiring("ACK"))
        /\ Transmit(IF ok THEN {Msg("ACK", handling)} ELSE {})
        /\ session' = IF ok THEN session ELSE "closed"
        /\ handling' = None
        /\ UNCHANGED <<client, mid, sync, toDevice, cloudVars, history>>

\* A request of a kind handle_received_message does not know is dropped.
DropRequest ==
    /\ handling # None /\ sync = None
    /\ handling' = None
    /\ UNCHANGED <<client, server, mid, session, sync, netVars, cloudVars, history>>
-----------------------------------------------------------------------------
(* Receiving: CoAPReliableChannel::receive, called by the event loop *)

InEventLoop == sync = None /\ handling = None

\* Nothing arrived, or the session is closed and the channel says so.
ReceiveNothing ==
    /\ InEventLoop
    /\ ProcessStores(client, server, session, outcome)
    /\ Transmit(Resends(client))
    /\ UNCHANGED <<mid, sync, handling, toDevice, cloudVars, got, handled>>

\* The channel fails to read and resets the session.
ReceiveError ==
    /\ InEventLoop
    /\ session = "open"
    /\ ProcessStores(client, server, "closed", outcome)
    /\ UNCHANGED <<mid, sync, handling, netVars, cloudVars, got, handled>>

\* What an ACK or a RESET does to the history of outcomes.
Concluded(m) ==
    IF Stored(client, m.id)
    THEN [outcome EXCEPT ![m.id] = IF m.type = "ACK" THEN "acked" ELSE "reset"]
    ELSE outcome

\* CoAPMessageStore::receive of an ACK or a RESET by the client store.
\* A RESET discards the session whether or not its message is known.
AfterReply(m) == ClearMessage(client, m.id)

SessionAfterReply(m) == IF m.type = "RESET" THEN "closed" ELSE session

ReceiveReply(m) ==
    /\ InEventLoop
    /\ session = "open"
    /\ m.type \in {"ACK", "RESET"}
    /\ ProcessStores(AfterReply(m), server, SessionAfterReply(m), Concluded(m))
    /\ toCloud' = IF m.type = "ACK" THEN toCloud \cup Resends(AfterReply(m)) ELSE toCloud
    /\ UNCHANGED <<mid, sync, handling, toDevice, cloudVars, got, handled>>

\* Mutant: the request is handled without being stored.
ReceiveNewRequestUnstored(m) ==
    /\ InEventLoop
    /\ session = "open"
    /\ m.type = "CON"
    /\ ~ Stored(server, m.id)
    /\ handling' = m.id
    /\ handled' = [handled EXCEPT ![m.id] = @ + 1]
    /\ ProcessStores(client, server, session, outcome)
    /\ Transmit(Resends(client))
    /\ UNCHANGED <<mid, sync, toDevice, cloudVars, got>>

\* A request not in the server store is stored and handed to the application.
ReceiveNewRequest(m) ==
    /\ InEventLoop
    /\ session = "open"
    /\ m.type = "CON"
    /\ ~ Stored(server, m.id)
    /\ handling' = m.id
    /\ handled' = [handled EXCEPT ![m.id] = @ + 1]
    /\ ProcessStores(client, Add(server, m.id, Expiring("CON")), session, outcome)
    /\ Transmit(Resends(client))
    /\ UNCHANGED <<mid, sync, toDevice, cloudVars, got>>

\* A duplicate is consumed; if it was answered, the answer is sent again, or
\* the channel fails to and resets the session.
ReceiveDuplicate(m) ==
    /\ InEventLoop
    /\ session = "open"
    /\ m.type = "CON"
    /\ Stored(server, m.id)
    /\ LET answer == server[m.id].kind
       IN  \/ /\ ProcessStores(client, server, session, outcome)
              /\ Transmit(Resends(client) \cup (IF answer = "CON" THEN {} ELSE {Msg(answer, m.id)}))
           \/ /\ answer # "CON"
              /\ ProcessStores(client, server, "closed", outcome)
              /\ UNCHANGED toCloud
    /\ UNCHANGED <<mid, sync, handling, toDevice, cloudVars, got, handled>>
-----------------------------------------------------------------------------
(* The receive loop of send_synchronous.  It processes the client store    *)
(* only, and leaves with clear_message() once the message is gone or an    *)
(* error occurred: a read error, the handler called with NOT_DELIVERED or  *)
(* DELIVERED_NACK.                                                         *)

\* Mutant: the loop is left without clear_message().
SyncStepNoClear(c, sess, error, out) ==
    \E cw \in Waits(c) :
        /\ client' = Process(c, cw)
        /\ sync' = IF error \/ ~ Stored(Process(c, cw), sync) THEN None ELSE sync
        /\ session' = IF GivenUp(c) # {} THEN "closed" ELSE sess
        /\ sent' = [i \in Id |-> IF i \in Retransmitted(c) THEN sent[i] + 1 ELSE sent[i]]
        /\ outcome' = [i \in Id |-> IF i \in GivenUp(c) THEN "lost" ELSE out[i]]
        /\ UNCHANGED <<server, mid, handling, toDevice, cloudVars, got, handled>>

SyncStep(c, sess, error, out) ==
    \E cw \in Waits(c), failed \in BOOLEAN :
        LET processed == Process(c, cw)
            leaves    == error \/ ~ Stored(processed, sync)
            \* the message is still in the store and cleared on the way out
            dropped   == leaves /\ Stored(processed, sync)
        IN  /\ client' = IF leaves THEN ClearMessage(processed, sync) ELSE processed
            /\ sync' = IF leaves THEN None ELSE sync
            /\ session' = IF GivenUp(c) # {} \/ (failed /\ Retransmitted(c) # {})
                          THEN "closed" ELSE sess
            /\ sent' = [i \in Id |-> IF i \in Retransmitted(c) THEN sent[i] + 1 ELSE sent[i]]
            /\ outcome' = [i \in Id |-> IF i \in GivenUp(c) \/ (dropped /\ i = sync)
                                        THEN "lost" ELSE out[i]]
            /\ UNCHANGED <<server, mid, handling, toDevice, cloudVars, got, handled>>

\* Nothing, or a request of the cloud, which is dropped on the floor.  On a
\* closed session the channel returns INVALID_STATE.
SyncReceiveNothing ==
    /\ sync # None
    /\ SyncStep(client, session, session = "closed", outcome)
    /\ Transmit(Resends(client))

SyncReceiveError ==
    /\ sync # None
    /\ session = "open"
    /\ SyncStep(client, "closed", TRUE, outcome)
    /\ UNCHANGED toCloud

SyncReceiveReply(m) ==
    /\ sync # None
    /\ session = "open"
    /\ m.type \in {"ACK", "RESET"}
    /\ SyncStep(AfterReply(m), SessionAfterReply(m), m.type = "RESET" /\ m.id = sync, Concluded(m))
    /\ toCloud' = IF m.type = "ACK" THEN toCloud \cup Resends(AfterReply(m)) ELSE toCloud
-----------------------------------------------------------------------------
(* Sessions *)

(* CoAPReliableChannel::establish clears both stores.  A resumed session   *)
(* keeps its keys, so what was in flight can still arrive; a new handshake *)
(* makes every older datagram undecipherable and the cloud forgets the     *)
(* exchanges of the old session.                                           *)
ClearStores ==
    /\ InEventLoop
    /\ client' = [i \in Id |-> NoEntry]
    /\ server' = [r \in Req |-> NoEntry]
    /\ session' = "open"
    /\ outcome' = [i \in Id |-> "none"]
    /\ handled' = [r \in Req |-> 0]
    /\ sent' = [i \in Id |-> 0]
    /\ UNCHANGED <<mid, sync, handling>>

EstablishResumed ==
    /\ session = "open"
    /\ ClearStores
    /\ UNCHANGED <<netVars, cloudVars, got>>

EstablishNew ==
    /\ ClearStores
    /\ toCloud' = {} /\ toDevice' = {}
    /\ started' = {} /\ reqAge' = [r \in Req |-> 0]
    /\ got' = {}
-----------------------------------------------------------------------------
(* The cloud and time.  Datagrams stay in flight until they are too old,   *)
(* so each may be delivered any number of times, in any order, or never.   *)

CloudSend(r) ==
    /\ r \notin started \/ reqAge[r] <= CloudSpan
    /\ started' = started \cup {r}
    /\ toDevice' = toDevice \cup {Msg("CON", r)}
    /\ UNCHANGED <<deviceVars, toCloud, reqAge, history>>

CloudReply(m) ==
    /\ m.type = "CON"
    /\ got' = got \cup {m.id}
    /\ \E type \in {"ACK", "RESET"} : toDevice' = toDevice \cup {Msg(type, m.id)}
    /\ UNCHANGED <<deviceVars, toCloud, cloudVars, sent, outcome, handled>>

Older(net) == {[m EXCEPT !.ttl = @ - 1] : m \in {x \in net : x.ttl > 0}}

Tick ==
    /\ client' = Age(client)
    /\ server' = Age(server)
    /\ toCloud' = Older(toCloud)
    /\ toDevice' = Older(toDevice)
    /\ reqAge' = [r \in Req |->
                    IF r \in started /\ reqAge[r] <= Lifetime THEN reqAge[r] + 1 ELSE reqAge[r]]
    /\ UNCHANGED <<mid, session, sync, handling, started, history>>

EventLoop ==
    \/ ReceiveNothing
    \/ ReceiveError
    \/ \E m \in toDevice : ReceiveReply(m) \/ ReceiveNewRequest(m) \/ ReceiveDuplicate(m)

SyncLoop ==
    \/ SyncReceiveNothing
    \/ SyncReceiveError
    \/ \E m \in toDevice : SyncReceiveReply(m)

Next ==
    \/ SendRequest \/ SendSynchronous
    \/ AnswerRequest \/ DropRequest
    \/ EventLoop \/ SyncLoop
    \/ EstablishResumed \/ EstablishNew
    \/ \E r \in Req : CloudSend(r)
    \/ \E m \in toCloud : CloudReply(m)
    \/ Tick

Spec == Init /\ [][Next]_vars

(* The system thread keeps running its loops, finishes handling a request, *)
(* and time passes.  Nothing is assumed of the network or the cloud: no    *)
(* message need arrive and no error need occur.                            *)
Fairness ==
    /\ WF_vars(ReceiveNothing)
    /\ WF_vars(SyncReceiveNothing)
    /\ WF_vars(AnswerRequest \/ DropRequest)
    /\ WF_vars(Tick)

FairSpec == Spec /\ Fairness
-----------------------------------------------------------------------------
(* Properties *)

\* CoAPReliableChannel::has_unacknowledged_requests, which wait_confirmable
\* polls before the device goes to sleep.
HasUnacknowledgedRequests == HasMessages(client) \/ HasUnacknowledged(server)

\* A request of the cloud reaches the application once between two calls of
\* establish(), however often it is retransmitted, duplicated or delayed.
AtMostOnce == \A r \in Req : handled[r] <= 1

\* Why AtMostOnce holds: every copy in flight is young enough to die within
\* Lifetime of the first transmission, and a request that was handled stays in
\* the server store, as itself or as its acknowledgement, until then.
CopiesExpire ==
    \A m \in toDevice : m.type = "CON" => m.id \in started /\ m.ttl + reqAge[m.id] <= Lifetime

Remembered ==
    \A r \in Req : handled[r] >= 1 =>
        /\ r \in started
        /\ \/ reqAge[r] > Lifetime
           \/ Stored(server, r) /\ server[r].timer + reqAge[r] > Lifetime

DedupInv ==
    /\ AtMostOnce
    /\ CopiesExpire
    /\ Remembered
    /\ \A r \in Req \ started : reqAge[r] = 0

\* The application is told that a message was delivered only if the cloud
\* received it: no stale or misdirected acknowledgement concludes it.
AckedMeansReceived == \A i \in Id : outcome[i] = "acked" => i \in got

\* A message the device gave up, or the cloud rejected, closes the session:
\* the device never goes on as if nothing had been lost.
LossClosesSession == (\E i \in Id : outcome[i] \in {"lost", "reset"}) => session = "closed"

\* A confirmable message is transmitted once and retransmitted at most
\* MAX_RETRANSMIT times.
TransmitBound == \A i \in Id : sent[i] <= MaxRetransmit + 1

\* The delivered handler points at a lambda on the stack of send_synchronous:
\* it is set for the message being waited for and for no other.
HandlerInScope ==
    /\ \A i \in Id : client[i].notify => i = sync
    /\ sync # None => client[sync].notify

\* When has_unacknowledged_requests() is false every message of the device has
\* been concluded and no request of the cloud is left half handled, even if it
\* took longer than Span.
QuietMeansDone ==
    ~ HasUnacknowledgedRequests =>
        handling = None /\ \A i \in Id : outcome[i] # "pending"

\* What the layer above relies on, as an abstract specification.
Exchange == INSTANCE ConfirmableExchange WITH open <- session = "open"

ImplementsExchange == Exchange!Spec

\* Every confirmable message is eventually acknowledged, rejected, given up or
\* forgotten with its session.
EventuallyConcluded == \A i \in Id : outcome[i] = "pending" ~> outcome[i] # "pending"

\* send_synchronous returns.
SynchronousSendReturns == sync # None ~> sync = None

=============================================================================
