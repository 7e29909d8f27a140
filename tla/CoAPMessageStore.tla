-------------------------- MODULE CoAPMessageStore --------------------------
(***************************************************************************)
(* The message store of communication/src/coap_channel.h: the confirmable  *)
(* messages that wait for an acknowledgement and the acknowledgements kept *)
(* to answer duplicates.  A store is a function from message ids to        *)
(* entries; the singly-linked list the code keeps it in holds at most one  *)
(* message of an id, because add() clears the id first.                    *)
(*                                                                         *)
(* Time is counted in ticks and an entry keeps the time LEFT until its     *)
(* deadline, 0 once time_has_passed() holds for it.                        *)
(***************************************************************************)
EXTENDS Naturals, FiniteSets

CONSTANTS
    MaxRetransmit,   \* CoAPMessage::MAX_RETRANSMIT
    AckTimeout,      \* CoAPMessage::ACK_TIMEOUT, in ticks
    Span             \* CoAPMessage::MAX_TRANSMIT_SPAN, in ticks

ASSUME StoreAssumption ==
    /\ MaxRetransmit \in Nat
    /\ AckTimeout \in Nat \ {0}
    /\ Span \in Nat \ {0}

Kind == {"none", "CON", "ACK", "RESET"}

\* set_expiration() and prepare_retransmit() leave transmit_count in this range.
Count == 0 .. MaxRetransmit + 2

\* `notify' is the delivered handler: set or nullptr.
Entry == [kind : Kind, count : Count, timer : Nat, notify : BOOLEAN]

NoEntry == [kind |-> "none", count |-> 0, timer |-> 0, notify |-> FALSE]

Stored(store, id) == store[id].kind # "none"

HasMessages(store) == \E id \in DOMAIN store : Stored(store, id)

\* Mutant: a message past its deadline no longer counts.
HasUnacknowledgedInTime(store) ==
    \E id \in DOMAIN store : store[id].kind = "CON" /\ store[id].timer > 0

\* CoAPMessageStore::has_unacknowledged_requests
HasUnacknowledged(store) == \E id \in DOMAIN store : store[id].kind = "CON"

Add(store, id, entry) == [store EXCEPT ![id] = entry]

ClearMessage(store, id) == [store EXCEPT ![id] = NoEntry]

\* (ACK_TIMEOUT << count) and up to 255/512 of it on top.
TransmitTimeout(count) ==
    LET t == AckTimeout * 2^count
    IN  {d \in 0 .. 2 * t : t <= d /\ 512 * (d - t) <= 255 * t}

\* A confirmable message as CoAPMessageStore::send stores it: its first
\* transmission is the one prepare_retransmit counts.
NewRequest(wait) == [kind |-> "CON", count |-> 1, timer |-> wait, notify |-> FALSE]

\* Mutant: the cached answer is kept for one acknowledgement timeout only.
ExpiringEarly(kind) ==
    [kind |-> kind, count |-> MaxRetransmit + 2, timer |-> AckTimeout, notify |-> FALSE]

\* Mutant: one transmission too many is noted down.
ExpiringMiscounted(kind) ==
    [kind |-> kind, count |-> MaxRetransmit + 3, timer |-> Span, notify |-> FALSE]

\* An acknowledgement of ours, or a request of the server: never retransmitted.
Expiring(kind) ==
    [kind |-> kind, count |-> MaxRetransmit + 2, timer |-> Span, notify |-> FALSE]

-----------------------------------------------------------------------------
(* CoAPMessageStore::process *)

Due(store) == {id \in DOMAIN store : Stored(store, id) /\ store[id].timer = 0}

\* Due entries for which prepare_retransmit returns true.
Retransmitted(store) ==
    {id \in Due(store) : store[id].kind = "CON" /\ store[id].count <= MaxRetransmit}

\* Mutant: messages that cannot be retransmitted are left in the store.
ExpiredNever(store) == {}

Expired(store) == Due(store) \ Retransmitted(store)

\* Expired requests: message_timeout closes the channel for these.
GivenUp(store) == {id \in Expired(store) : store[id].kind = "CON"}

\* The deadlines the retransmitted messages may draw.
Waits(store) ==
    LET drawn(id) == TransmitTimeout(store[id].count)
    IN  {w \in [Retransmitted(store) -> UNION {drawn(id) : id \in Retransmitted(store)}] :
            \A id \in Retransmitted(store) : w[id] \in drawn(id)}

Process(store, wait) ==
    [id \in DOMAIN store |->
        IF id \in Expired(store) THEN NoEntry
        ELSE IF id \in Retransmitted(store)
             THEN [store[id] EXCEPT !.count = @ + 1, !.timer = wait[id]]
             ELSE store[id]]

\* One tick of time passes.
Age(store) ==
    [id \in DOMAIN store |->
        [store[id] EXCEPT !.timer = IF @ = 0 THEN 0 ELSE @ - 1]]

=============================================================================
