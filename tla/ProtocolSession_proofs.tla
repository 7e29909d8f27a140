------------------------ MODULE ProtocolSession_proofs ------------------------
(***************************************************************************)
(* Theorems about sessions of Protocol, for every number of events, every  *)
(* timeout and every time that the event loop may be blocked.              *)
(***************************************************************************)
EXTENDS ProtocolSession, WellFoundedInduction, TLAPS

\* The completion handlers of pending events; none expires before the nearest expiry.
HandlersOK ==
    /\ sinceUpdate \in 0 .. MaxBlock
    /\ status \in [Event -> {"pending", "timeout", "done"}]
    /\ age \in [Event -> Nat]
    /\ ackHandlers \in [due : [Pending -> Nat], nearest : Nat, ticks : Nat]
    /\ \A e \in Pending : ackHandlers.nearest <= ackHandlers.due[e]

\* While the session is open the ticks until a handler expires are those of its timeout but
\* for its age, and for the ticks that were not counted when it was added: a turn of the loop
\* at most.
TicksKnown ==
    \A e \in Pending :
        LET now == ackHandlers.ticks + sinceUpdate
        IN  /\ ackHandlers.ticks <= ackHandlers.due[e]
            /\ open => /\ age[e] + ackHandlers.due[e] <= AckTimeout + now
                       /\ age[e] + ackHandlers.due[e] + MaxBlock >= AckTimeout + now

TimeoutsLate == \A e \in Event : status[e] = "timeout" => age[e] + MaxBlock >= AckTimeout

\* A ping that a cloud that can be reached has not answered yet will be answered within
\* MaxLatency of when it was sent, or its answer has arrived.
PingAnswered ==
    /\ alive => open
    /\ expecting => open
    /\ sinceMessage \in 0 .. MaxSilence
    /\ pinged \in 0 .. MaxLatency \cup {None}
    /\ expecting /\ alive =>
          "pong" \in socket \/ (pinged # None /\ sinceMessage + pinged <= MaxLatency)

IInv == HandlersOK /\ TicksKnown /\ TimeoutsLate /\ PingAnswered
-----------------------------------------------------------------------------
\* A set of natural numbers has a least member.
LEMMA MinOfNats ==
    ASSUME NEW S, S \subseteq Nat, S # {}
    PROVE  Min(S) \in S /\ \A y \in S : Min(S) <= y
<1> DEFINE Less == OpToRel(<, Nat)
<1>1. \A x, y \in Nat : y < x => <<y, x>> \in Less
    BY DEF OpToRel
<1>2. IsWellFoundedOn(Less, Nat)
    BY NatLessThanWellFounded
<1> HIDE DEF Less
<1>3. \E x \in S : \A y \in S : ~ (<<y, x>> \in Less)
    BY <1>2, WFMin
<1>4. \E x \in S : \A y \in S : ~ (y < x)
    BY <1>1, <1>3, Zenon
<1>5. \E x \in S : \A y \in S : x <= y
    BY <1>4
<1> QED BY <1>5 DEF Min

LEMMA NearestExpiry ==
    ASSUME NEW D, NEW due \in [D -> Nat]
    PROVE  NearestOf(due) \in Nat /\ \A k \in D : NearestOf(due) <= due[k]
<1> DEFINE S == {due[k] : k \in DOMAIN due} \cup {MaxTimeout}
<1>1. S \subseteq Nat /\ S # {} /\ \A k \in D : due[k] \in S
    BY MaxTimeoutAssumption
<1>2. Min(S) \in S /\ \A y \in S : Min(S) <= y
    BY <1>1, MinOfNats
<1> QED BY <1>1, <1>2 DEF NearestOf

\* What a turn of the loop does with the handlers: it takes those that expired and keeps the
\* time that the others have left.
LEMMA UpdateHandlers ==
    ASSUME HandlersOK, TicksKnown, NEW left, left = Update(ackHandlers, sinceUpdate),
           NEW expired, expired = Expired(ackHandlers, sinceUpdate)
    PROVE  /\ expired \subseteq Pending
           /\ left \in [due : [Pending \ expired -> Nat], nearest : Nat, ticks : Nat]
           /\ \A e \in Pending \ expired :
                 /\ left.nearest <= left.due[e]
                 /\ left.ticks <= left.due[e]
                 /\ left.due[e] + ackHandlers.ticks + sinceUpdate = ackHandlers.due[e] + left.ticks
                 /\ ackHandlers.due[e] > ackHandlers.ticks + sinceUpdate
           /\ \A e \in expired : ackHandlers.due[e] <= ackHandlers.ticks + sinceUpdate
<1> DEFINE now == ackHandlers.ticks + sinceUpdate
           due == [k \in Pending \ expired |-> ackHandlers.due[k] - now]
<1>1. /\ ackHandlers.ticks \in Nat /\ sinceUpdate \in Nat /\ now \in Nat
      /\ ackHandlers.nearest \in Nat /\ ackHandlers.due \in [Pending -> Nat]
      /\ DOMAIN ackHandlers.due = Pending
      /\ \A e \in Pending : ackHandlers.nearest <= ackHandlers.due[e] /\ ackHandlers.due[e] \in Nat
    BY SessionAssumption DEF HandlersOK
<1>2. expired = IF now < ackHandlers.nearest THEN {} ELSE {k \in Pending : ackHandlers.due[k] <= now}
    BY <1>1 DEF Expired, Keys
<1>3. \A e \in Pending \ expired : ackHandlers.due[e] > now
    BY <1>1, <1>2
<1>4. due \in [Pending \ expired -> Nat]
    BY <1>1, <1>3
<1>5. NearestOf(due) \in Nat /\ \A e \in Pending \ expired : NearestOf(due) <= due[e]
    BY <1>4, NearestExpiry
<1>6. CASE Pending = {}
    BY <1>1, <1>2, <1>6 DEF Update, Keys, HandlersOK
<1>7. CASE Pending # {} /\ now < ackHandlers.nearest
    <2>1. left = [ackHandlers EXCEPT !.ticks = now]
        BY <1>1, <1>7 DEF Update, Keys
    <2> QED BY <1>1, <1>2, <1>3, <1>7, <2>1 DEF HandlersOK
<1>8. CASE Pending # {} /\ ~ now < ackHandlers.nearest
    <2>1. left = [due |-> due, nearest |-> NearestOf(due), ticks |-> 0]
        BY <1>1, <1>8 DEF Update, Keys
    <2> QED BY <1>1, <1>2, <1>3, <1>4, <1>5, <2>1
<1> QED BY <1>6, <1>7, <1>8

-----------------------------------------------------------------------------
LEMMA InitIInv == Init => IInv
<1> SUFFICES ASSUME Init PROVE IInv
    OBVIOUS
<1>1. Pending = {} /\ ackHandlers.due \in [{} -> Nat]
    BY DEF Init, Pending, NoHandlers
<1>2. ackHandlers \in [due : [Pending -> Nat], nearest : Nat, ticks : Nat]
    BY <1>1, MaxTimeoutAssumption DEF Init, NoHandlers
<1>3. HandlersOK
    BY <1>1, <1>2, SessionAssumption DEF Init, HandlersOK
<1>4. TicksKnown /\ TimeoutsLate
    BY <1>1 DEF Init, TicksKnown, TimeoutsLate
<1>5. PingAnswered
    BY SessionAssumption DEF Init, PingAnswered
<1> QED BY <1>3, <1>4, <1>5 DEF IInv

\* No step of the loop, the application, the network or the cloud lets a ping wait longer
\* than it may.
LEMMA NextPingAnswered == PingAnswered /\ [Next]_vars => PingAnswered'
<1> SUFFICES ASSUME PingAnswered, [Next]_vars PROVE PingAnswered'
    OBVIOUS
<1> USE SessionAssumption
<1>1. CASE Begin
    BY <1>1 DEF Begin, ClearHandlers, PingAnswered
<1>2. CASE Disconnect
    BY <1>2 DEF Disconnect, Close, PingAnswered
<1>3. CASE SetKeepalive
    BY <1>3 DEF SetKeepalive, PingAnswered
<1>4. CASE Wake
    BY <1>4 DEF Wake, SendPing, PingAnswered
<1>5. ASSUME NEW e \in Event, SendEvent(e) PROVE PingAnswered'
    BY <1>5 DEF SendEvent, PingAnswered
<1>6. ASSUME NEW m, Handle(m), alive PROVE PingAnswered'
    BY <1>6 DEF Handle, PingAnswered
<1>7. CASE Idle
    <2>1. CASE TimedOut /\ ~ updating
        BY <1>7, <2>1 DEF Idle, Close, PingAnswered
    <2>2. CASE ~ (TimedOut /\ ~ updating) /\ PingDue /\ ~ updating
        <3>1. SendPing /\ UNCHANGED <<open, socket, alive>> /\ open
            BY <1>7, <2>2, Zenon DEF Idle
        <3> QED BY <3>1 DEF SendPing, PingAnswered
    <2>3. CASE ~ (TimedOut /\ ~ updating) /\ ~ (PingDue /\ ~ updating)
        BY <1>7, <2>3 DEF Idle, PingAnswered
    <2> QED BY <2>1, <2>2, <2>3
<1>8. ASSUME NEW m \in Message, Receive(m) PROVE PingAnswered'
    BY <1>8 DEF Receive, Handle, PingAnswered
<1>9. CASE ReceiveError
    BY <1>9 DEF ReceiveError, Close, PingAnswered
<1>10. CASE Tick
    BY <1>10 DEF Tick, AtMost, PingAnswered
<1>11. CASE CloudAnswersPing
    BY <1>11 DEF CloudAnswersPing, Arrive, PingAnswered
<1>12. CASE CloudAcknowledges
    BY <1>12 DEF CloudAcknowledges, Arrive, PingAnswered
<1>13. CASE LinkDies
    BY <1>13 DEF LinkDies, PingAnswered
<1>14. CASE UNCHANGED vars
    BY <1>14 DEF vars, PingAnswered
<1> QED BY <1>1, <1>2, <1>3, <1>4, <1>5, <1>6, <1>7, <1>8, <1>9, <1>10, <1>11, <1>12, <1>13, <1>14
        DEF Next, EventLoop, ReceiveUpdate

\* LiveNotDropped: the pinger ends a session only if the cloud cannot be reached, or its answer
\* has arrived and was not read yet.
LEMMA IdleLiveNotDropped == PingAnswered /\ Idle /\ ~ open' => ~ alive \/ "pong" \in socket
<1> SUFFICES ASSUME PingAnswered, Idle, ~ open', alive, "pong" \notin socket PROVE FALSE
    OBVIOUS
<1>1. open /\ ((TimedOut /\ ~ updating) \/ UNCHANGED open)
    BY Zenon DEF Idle
<1>2. TimedOut
    BY <1>1
<1> QED BY <1>1, <1>2, SessionAssumption DEF PingAnswered, TimedOut
-----------------------------------------------------------------------------
\* Handlers that are all concluded leave none behind.
LEMMA ClearHandlersOK ==
    ASSUME HandlersOK, TimeoutsLate, ClearHandlers, sinceUpdate' \in 0 .. MaxBlock
    PROVE  HandlersOK' /\ TicksKnown' /\ TimeoutsLate'
<1>1. /\ status' = [e \in Event |-> IF e \in Pending THEN "done" ELSE status[e]]
      /\ age' = [e \in Event |-> IF e \in Pending THEN 0 ELSE age[e]]
      /\ ackHandlers' = NoHandlers
    BY DEF ClearHandlers, Conclude
<1>2. Pending' = {}
    BY <1>1 DEF Pending, HandlersOK
<1>3. ackHandlers' \in [due : [Pending' -> Nat], nearest : Nat, ticks : Nat]
    BY <1>1, <1>2, MaxTimeoutAssumption DEF NoHandlers
<1>4. HandlersOK'
    BY <1>1, <1>2, <1>3 DEF HandlersOK
<1>5. TicksKnown'
    BY <1>2 DEF TicksKnown
<1>6. TimeoutsLate'
    BY <1>1 DEF TimeoutsLate, HandlersOK
<1> QED BY <1>4, <1>5, <1>6

\* A handler that is added to the others expires AckTimeout ticks later.
LEMMA SendEventOK ==
    ASSUME IInv, NEW e \in Event, SendEvent(e)
    PROVE  HandlersOK' /\ TicksKnown' /\ TimeoutsLate'
<1> DEFINE t == ackHandlers.ticks + AckTimeout
           nearest == Min({ackHandlers.nearest, t})
<1>1. /\ t \in Nat /\ AckTimeout \in Nat /\ MaxBlock \in Nat
      /\ ackHandlers.nearest \in Nat /\ ackHandlers.ticks \in Nat
      /\ ackHandlers.due \in [Pending -> Nat]
      /\ ackHandlers.ticks + AckTimeout = t
    BY SessionAssumption DEF IInv, HandlersOK
<1>2. nearest \in Nat /\ nearest <= ackHandlers.nearest /\ nearest <= t
    BY <1>1, MinOfNats
<1>3. Pending' = Pending \cup {e} /\ e \notin Pending
    BY DEF SendEvent, Pending, IInv, HandlersOK
<1>4. ackHandlers' = [ackHandlers EXCEPT !.due = [k \in Pending' |-> IF k = e THEN t ELSE ackHandlers.due[k]],
                                         !.nearest = nearest]
    BY <1>1, <1>3 DEF SendEvent, AddHandler, Keys
<1> HIDE DEF t, nearest
<1>5. /\ ackHandlers' \in [due : [Pending' -> Nat], nearest : Nat, ticks : Nat]
      /\ \A k \in Pending' : ackHandlers'.due[k] = IF k = e THEN t ELSE ackHandlers.due[k]
      /\ ackHandlers'.nearest = nearest
      /\ ackHandlers'.ticks = ackHandlers.ticks
    BY <1>1, <1>2, <1>3, <1>4 DEF IInv, HandlersOK
<1>6. open' = open /\ sinceUpdate' = sinceUpdate /\ status' = [status EXCEPT ![e] = "pending"]
      /\ age' = [age EXCEPT ![e] = 0]
    BY DEF SendEvent
<1>7. HandlersOK'
    BY <1>1, <1>2, <1>3, <1>5, <1>6 DEF IInv, HandlersOK
<1>8. TicksKnown'
    BY <1>1, <1>3, <1>5, <1>6 DEF IInv, HandlersOK, TicksKnown
<1>9. TimeoutsLate'
    BY <1>6 DEF IInv, HandlersOK, TimeoutsLate
<1> QED BY <1>7, <1>8, <1>9

\* A turn of the loop that concludes the expired handlers, and that of a message.
LEMMA TurnOK ==
    ASSUME IInv, open, NEW done, NEW left, NEW expired,
           left = Update(ackHandlers, sinceUpdate),
           expired = Expired(ackHandlers, sinceUpdate),
           done \subseteq Pending \ expired,
           Conclude(expired, done),
           sinceUpdate' = 0,
           ackHandlers' \in [due : [Pending \ (expired \cup done) -> Nat], nearest : Nat, ticks : Nat],
           \A e \in Pending \ (expired \cup done) :
              /\ ackHandlers'.nearest <= ackHandlers'.due[e]
              /\ ackHandlers'.due[e] = left.due[e]
              /\ ackHandlers'.ticks = left.ticks
    PROVE  HandlersOK' /\ TicksKnown' /\ TimeoutsLate'
<1>1. /\ expired \subseteq Pending
      /\ left \in [due : [Pending \ expired -> Nat], nearest : Nat, ticks : Nat]
      /\ \A e \in Pending \ expired :
            /\ left.ticks <= left.due[e]
            /\ left.due[e] + ackHandlers.ticks + sinceUpdate = ackHandlers.due[e] + left.ticks
      /\ \A e \in expired : ackHandlers.due[e] <= ackHandlers.ticks + sinceUpdate
    BY UpdateHandlers DEF IInv
<1>2. /\ status' = [e \in Event |-> IF e \in done THEN "done" ELSE IF e \in expired THEN "timeout" ELSE status[e]]
      /\ age' = [e \in Event |-> IF e \in done THEN 0 ELSE age[e]]
    BY DEF Conclude
<1>3. Pending' = Pending \ (expired \cup done)
    BY <1>1, <1>2 DEF Pending, IInv, HandlersOK
<1>4. /\ AckTimeout \in Nat /\ MaxBlock \in Nat /\ sinceUpdate \in Nat
      /\ ackHandlers.ticks \in Nat /\ ackHandlers.due \in [Pending -> Nat]
      /\ left.ticks \in Nat /\ left.due \in [Pending \ expired -> Nat]
      /\ age \in [Event -> Nat]
      /\ \A e \in Pending :
            /\ age[e] + ackHandlers.due[e] <= AckTimeout + ackHandlers.ticks + sinceUpdate
            /\ age[e] + ackHandlers.due[e] + MaxBlock >= AckTimeout + ackHandlers.ticks + sinceUpdate
    BY <1>1, SessionAssumption DEF IInv, HandlersOK, TicksKnown
<1>5. HandlersOK'
    BY <1>2, <1>3, <1>4 DEF IInv, HandlersOK
<1>6. TicksKnown'
    BY <1>1, <1>2, <1>3, <1>4 DEF Pending, TicksKnown
<1>7. TimeoutsLate'
    BY <1>1, <1>2, <1>4 DEF IInv, HandlersOK, Pending, TimeoutsLate
<1> QED BY <1>5, <1>6, <1>7

\* The other handlers are kept as they are, and the nearest expiry computed again, when one
\* is taken.
LEMMA HandleOK ==
    ASSUME IInv, open, NEW m, Handle(m)
    PROVE  HandlersOK' /\ TicksKnown' /\ TimeoutsLate'
<1> DEFINE left == Update(ackHandlers, sinceUpdate)
           expired == Expired(ackHandlers, sinceUpdate)
           done == Keys(left) \cap {m}
           due == [k \in Pending \ (expired \cup {m}) |-> left.due[k]]
<1>1. /\ expired \subseteq Pending
      /\ left \in [due : [Pending \ expired -> Nat], nearest : Nat, ticks : Nat]
      /\ \A e \in Pending \ expired : left.nearest <= left.due[e]
    BY UpdateHandlers DEF IInv
<1>2. /\ sinceUpdate' = 0
      /\ ackHandlers' = IF m \in Event THEN TakeHandler(left, m) ELSE left
      /\ Conclude(expired, done)
    BY DEF Handle
<1> HIDE DEF left, expired
<1>3. Keys(left) = Pending \ expired /\ left.due \in [Pending \ expired -> Nat]
    BY <1>1 DEF Keys
<1>4. Pending \ (expired \cup done) = Pending \ (expired \cup {m}) /\ done \subseteq Pending \ expired
    BY <1>3
<1>5. CASE m \in Event
    <2>1. due \in [Pending \ (expired \cup {m}) -> Nat]
        BY <1>3
    <2>2. NearestOf(due) \in Nat /\ \A k \in Pending \ (expired \cup {m}) : NearestOf(due) <= due[k]
        BY <2>1, NearestExpiry
    <2>3. Restrict(left.due, Keys(left) \ {m}) = due
        BY <1>3 DEF Restrict
    <2>4. /\ ackHandlers'.due = due
          /\ ackHandlers'.nearest = NearestOf(due)
          /\ ackHandlers'.ticks = IF m \in Keys(left) /\ DOMAIN due = {} THEN 0 ELSE left.ticks
          /\ ackHandlers' = [due |-> ackHandlers'.due, nearest |-> ackHandlers'.nearest, ticks |-> ackHandlers'.ticks]
        BY <1>2, <1>5, <2>3 DEF TakeHandler
    <2>5. ackHandlers' \in [due : [Pending \ (expired \cup {m}) -> Nat], nearest : Nat, ticks : Nat]
        BY <1>1, <2>1, <2>2, <2>4
    <2>6. \A e \in Pending \ (expired \cup {m}) :
              /\ ackHandlers'.nearest <= ackHandlers'.due[e]
              /\ ackHandlers'.due[e] = left.due[e]
              /\ ackHandlers'.ticks = left.ticks
        BY <2>2, <2>4
    <2> QED BY <1>2, <1>4, <2>5, <2>6, TurnOK DEF left, expired
<1>6. CASE m \notin Event
    <2>1. Pending \ (expired \cup done) = Pending \ expired
        BY <1>4, <1>6 DEF Pending
    <2>2. ackHandlers' = left
        BY <1>2, <1>6
    <2> QED BY <1>1, <1>2, <1>4, <2>1, <2>2, TurnOK DEF left, expired
<1> QED BY <1>5, <1>6

\* A turn of the loop with nothing to read, and one that ends with an error.
LEMMA IdleTurnOK ==
    ASSUME IInv, open, sinceUpdate' = 0,
           ackHandlers' = Update(ackHandlers, sinceUpdate),
           Conclude(Expired(ackHandlers, sinceUpdate), {})
    PROVE  HandlersOK' /\ TicksKnown' /\ TimeoutsLate'
<1> DEFINE left == Update(ackHandlers, sinceUpdate)
           expired == Expired(ackHandlers, sinceUpdate)
<1>1. /\ expired \subseteq Pending
      /\ left \in [due : [Pending \ expired -> Nat], nearest : Nat, ticks : Nat]
      /\ \A e \in Pending \ expired : left.nearest <= left.due[e]
    BY UpdateHandlers DEF IInv
<1> QED BY <1>1, TurnOK
-----------------------------------------------------------------------------
LEMMA NextIInv == IInv /\ [Next]_vars => IInv'
<1> SUFFICES ASSUME IInv, [Next]_vars PROVE HandlersOK' /\ TicksKnown' /\ TimeoutsLate'
    BY NextPingAnswered DEF IInv
<1> DEFINE Same == UNCHANGED <<open, sinceUpdate, ackHandlers, status, age>>
<1>1. CASE Begin
    BY <1>1, ClearHandlersOK DEF Begin, IInv, HandlersOK
<1>2. CASE Disconnect
    BY <1>2, ClearHandlersOK, SessionAssumption DEF Disconnect, Close, IInv
<1>3. ASSUME Same PROVE HandlersOK' /\ TicksKnown' /\ TimeoutsLate'
    BY <1>3 DEF IInv, HandlersOK, TicksKnown, TimeoutsLate, Pending
<1>4. ASSUME NEW e \in Event, SendEvent(e) PROVE HandlersOK' /\ TicksKnown' /\ TimeoutsLate'
    BY <1>4, SendEventOK
<1>5. ASSUME NEW m, Receive(m) PROVE HandlersOK' /\ TicksKnown' /\ TimeoutsLate'
    BY <1>5, HandleOK DEF Receive
<1>6. CASE ReceiveUpdate
    BY <1>6, HandleOK DEF ReceiveUpdate, IInv, PingAnswered
<1>7. CASE Idle \/ ReceiveError
    <2>1. /\ open
          /\ sinceUpdate' = 0
          /\ ackHandlers' = Update(ackHandlers, sinceUpdate)
          /\ Conclude(Expired(ackHandlers, sinceUpdate), {})
        BY <1>7, Zenon DEF Idle, ReceiveError, Close
    <2> QED BY <2>1, IdleTurnOK
<1>8. CASE Tick
    <2> USE SessionAssumption
    <2>1. /\ open' = open /\ open /\ sinceUpdate < MaxBlock /\ sinceUpdate' = sinceUpdate + 1
          /\ age' = [e \in Event |-> IF e \in Pending THEN AtMost(AgeBound + 1, age[e]) ELSE age[e]]
          /\ ackHandlers' = ackHandlers /\ status' = status /\ Pending' = Pending
        BY <1>8 DEF Tick, Pending
    <2>2. \A e \in Pending : e \in Event /\ age[e] <= AgeBound /\ age[e] \in Nat
        BY <2>1 DEF IInv, HandlersOK, TicksKnown, AgeBound, Pending
    <2>3. \A e \in Pending : age'[e] = age[e] + 1
        BY <2>1, <2>2 DEF AtMost, AgeBound
    <2>4. \A e \in Event \ Pending : age'[e] = age[e]
        BY <2>1
    <2>5. age' \in [Event -> Nat]
        BY <2>1, <2>2, <2>3, <2>4 DEF IInv, HandlersOK
    <2>6. HandlersOK'
        BY <2>1, <2>5 DEF IInv, HandlersOK
    <2>7. TicksKnown'
        <3>1. /\ sinceUpdate \in Nat /\ ackHandlers.ticks \in Nat
              /\ \A e \in Pending : ackHandlers.due[e] \in Nat
            BY DEF IInv, HandlersOK
        <3>2. \A e \in Pending :
                  /\ ackHandlers.ticks <= ackHandlers.due[e]
                  /\ age[e] + ackHandlers.due[e] <= AckTimeout + (ackHandlers.ticks + sinceUpdate)
                  /\ age[e] + ackHandlers.due[e] + MaxBlock >= AckTimeout + (ackHandlers.ticks + sinceUpdate)
            BY <2>1 DEF IInv, TicksKnown
        <3>3. ASSUME NEW e \in Pending
              PROVE  /\ ackHandlers.ticks <= ackHandlers.due[e]
                     /\ age'[e] + ackHandlers.due[e] <= AckTimeout + (ackHandlers.ticks + sinceUpdate')
                     /\ age'[e] + ackHandlers.due[e] + MaxBlock >= AckTimeout + (ackHandlers.ticks + sinceUpdate')
            <4>1. age'[e] = age[e] + 1 /\ sinceUpdate' = sinceUpdate + 1 /\ age[e] \in Nat
                BY <2>1, <2>2, <2>3
            <4>2. AckTimeout \in Nat /\ MaxBlock \in Nat
                OBVIOUS
            <4> QED BY <3>1, <3>2, <4>1, <4>2, SMT
        <3> QED BY <2>1, <3>3, Zenon DEF TicksKnown
    <2>8. TimeoutsLate'
        BY <2>1, <2>4 DEF IInv, TimeoutsLate, Pending
    <2> QED BY <2>6, <2>7, <2>8
<1>9. CASE SetKeepalive \/ Wake \/ CloudAnswersPing \/ CloudAcknowledges \/ LinkDies \/ UNCHANGED vars
    <2>1. Same
        BY <1>9, Zenon DEF SetKeepalive, Wake, CloudAnswersPing, CloudAcknowledges, Arrive, LinkDies, vars
    <2> QED BY <2>1, <1>3
<1> QED BY <1>1, <1>2, <1>4, <1>5, <1>6, <1>7, <1>8, <1>9, Zenon DEF Next, EventLoop

LEMMA IInvTimeoutInTime == IInv => TimeoutInTime
BY SessionAssumption DEF IInv, HandlersOK, TicksKnown, TimeoutsLate, TimeoutInTime, Pending

LEMMA SpecIInv == Spec => []IInv
BY InitIInv, NextIInv, PTL DEF Spec

\* A completion handler gets a timeout no later than a turn of the event loop after its time,
\* and no more than a turn too early, whatever its own timeout and however long a turn may be
\* (update() and addHandler() of completion_handler.h, event_loop_idle() of protocol.h).
THEOREM TimeoutsInTime == Spec => []TimeoutInTime
BY SpecIInv, IInvTimeoutInTime, PTL

\* The pinger never ends the session of a cloud that can be reached and answers within
\* PingTimeout, however the loop is blocked and the interval changed, unless the answer has
\* arrived and a datagram that the channel swallowed is read before it (process() of ping.h,
\* event_loop() of protocol.cpp).
THEOREM LiveSessionsStay == Spec => LiveNotDropped
<1>1. IInv /\ [Next]_vars => [Idle /\ ~ open' => ~ alive \/ "pong" \in socket]_vars
    BY IdleLiveNotDropped DEF IInv
<1> QED BY <1>1, SpecIInv, PTL DEF Spec, LiveNotDropped

-----------------------------------------------------------------------------
(* Types, which also say what the nearest expiry is *)

\* What the handlers that are pending tell apart, and the other variables.
MapExact ==
    /\ ackHandlers.nearest = NearestOf(ackHandlers.due)
    /\ \A e \in Pending : ackHandlers.due[e] <= ackHandlers.ticks + AckTimeout
    /\ age \in [Event -> 0 .. AgeBound + 1]

RestTyped ==
    /\ open \in BOOLEAN /\ expecting \in BOOLEAN /\ updating \in BOOLEAN /\ alive \in BOOLEAN
    /\ keepalive \in [interval : Intervals, source : {"SYSTEM", "USER"}]
    /\ socket \subseteq Message
    /\ wakes \in 0 .. MaxWakes

\* The nearest expiry is that of some handler, or MAX_TIMEOUT, and no later than any.
LEMMA NearestIs ==
    ASSUME NEW D, NEW due \in [D -> Nat], NEW n \in Nat,
           n = MaxTimeout \/ \E k \in D : n = due[k],
           n <= MaxTimeout, \A k \in D : n <= due[k]
    PROVE  NearestOf(due) = n
<1> DEFINE S == {due[k] : k \in DOMAIN due} \cup {MaxTimeout}
<1>1. S \subseteq Nat /\ S # {} /\ n \in S /\ \A y \in S : n <= y
    BY MaxTimeoutAssumption
<1>2. Min(S) \in S /\ \A y \in S : Min(S) <= y
    BY <1>1, MinOfNats
<1>3. Min(S) \in Nat /\ Min(S) <= n /\ n <= Min(S)
    BY <1>1, <1>2
<1>4. Min(S) = n
    BY <1>3
<1> QED BY <1>4 DEF NearestOf

LEMMA NearestBound ==
    ASSUME NEW D, NEW due \in [D -> Nat], NEW n, n = NearestOf(due)
    PROVE  n \in Nat /\ n <= MaxTimeout /\ (n = MaxTimeout \/ \E k \in D : n = due[k]) /\ \A k \in D : n <= due[k]
<1> DEFINE S == {due[k] : k \in DOMAIN due} \cup {MaxTimeout}
<1>1. S \subseteq Nat /\ S # {} /\ MaxTimeout \in S /\ \A k \in D : due[k] \in S
    BY MaxTimeoutAssumption
<1>2. Min(S) \in S /\ \A y \in S : Min(S) <= y
    BY <1>1, MinOfNats
<1>3. n = Min(S)
    BY DEF NearestOf
<1> QED BY <1>1, <1>2, <1>3

LEMMA NearestOfNone == NearestOf(<<>>) = MaxTimeout
<1>1. {<<>>[k] : k \in DOMAIN <<>>} \cup {MaxTimeout} = {MaxTimeout}
    OBVIOUS
<1>2. {MaxTimeout} \subseteq Nat /\ {MaxTimeout} # {}
    BY MaxTimeoutAssumption
<1>3. Min({MaxTimeout}) \in {MaxTimeout}
    BY <1>2, MinOfNats
<1> QED BY <1>1, <1>3 DEF NearestOf

LEMMA ClearExact ==
    ASSUME IInv, MapExact, ClearHandlers, Pending' = {}
    PROVE  MapExact'
<1>1. /\ ackHandlers' = NoHandlers
      /\ age' = [e \in Event |-> IF e \in Pending THEN 0 ELSE age[e]]
    BY DEF ClearHandlers, Conclude
<1>2. AgeBound \in Nat
    BY SessionAssumption DEF AgeBound
<1> QED BY <1>1, <1>2, NearestOfNone DEF MapExact, NoHandlers

LEMMA SendEventExact ==
    ASSUME IInv, MapExact, NEW e \in Event, SendEvent(e)
    PROVE  MapExact'
<1> DEFINE t == ackHandlers.ticks + AckTimeout
           nearest == Min({ackHandlers.nearest, t})
           due == [k \in Pending \cup {e} |-> IF k = e THEN t ELSE ackHandlers.due[k]]
<1>1. /\ t \in Nat /\ AckTimeout \in Nat /\ ackHandlers.ticks \in Nat /\ ackHandlers.nearest \in Nat
      /\ ackHandlers \in [due : [Pending -> Nat], nearest : Nat, ticks : Nat] /\ AgeBound \in Nat
    BY SessionAssumption DEF IInv, HandlersOK, AgeBound
<1>2. e \notin Pending /\ Pending' = Pending \cup {e}
    BY DEF SendEvent, Pending, IInv, HandlersOK
<1>3. ackHandlers' = [ackHandlers EXCEPT !.due = due, !.nearest = nearest]
    BY <1>1 DEF SendEvent, AddHandler, Keys
<1>4. due \in [Pending \cup {e} -> Nat] /\ due[e] = t /\ \A k \in Pending : due[k] = ackHandlers.due[k]
    BY <1>1, <1>2
<1>5. nearest \in {ackHandlers.nearest, t} /\ nearest <= ackHandlers.nearest /\ nearest <= t
    BY <1>1, MinOfNats
<1>6. /\ ackHandlers.nearest <= MaxTimeout
      /\ ackHandlers.nearest = MaxTimeout \/ \E k \in Pending : ackHandlers.nearest = ackHandlers.due[k]
      /\ \A k \in Pending : ackHandlers.nearest <= ackHandlers.due[k]
    BY <1>1, NearestBound DEF MapExact
<1> HIDE DEF due, nearest, t
<1>7. nearest \in Nat /\ nearest <= MaxTimeout /\ \A k \in Pending \cup {e} : nearest <= due[k]
    BY <1>1, <1>4, <1>5, <1>6, MaxTimeoutAssumption
<1>8. nearest = MaxTimeout \/ \E k \in Pending \cup {e} : nearest = due[k]
    BY <1>4, <1>5, <1>6
<1>9. NearestOf(due) = nearest
    BY <1>4, <1>7, <1>8, NearestIs
<1>10. ackHandlers'.nearest = nearest /\ ackHandlers'.due = due /\ ackHandlers'.ticks = ackHandlers.ticks
    BY <1>1, <1>3
<1>11. \A k \in Pending' : ackHandlers'.due[k] <= ackHandlers'.ticks + AckTimeout
    BY <1>1, <1>2, <1>4, <1>10 DEF MapExact, t
<1>12. age' \in [Event -> 0 .. AgeBound + 1]
    BY <1>1 DEF SendEvent, MapExact
<1> QED BY <1>9, <1>10, <1>11, <1>12 DEF MapExact

\* A turn of the loop, with what it reads or without.
LEMMA TurnExact ==
    ASSUME IInv, MapExact, NEW done, NEW left, NEW expired,
           left = Update(ackHandlers, sinceUpdate),
           expired = Expired(ackHandlers, sinceUpdate),
           Conclude(expired, done), done \subseteq Keys(left),
           Pending' = Pending \ (expired \cup done),
           \/ done = {} /\ ackHandlers' = left
           \/ \E m : done = Keys(left) \cap {m} /\ ackHandlers' = TakeHandler(left, m)
    PROVE  MapExact'
<1> DEFINE now == ackHandlers.ticks + sinceUpdate
           due == [k \in Pending \ expired |-> ackHandlers.due[k] - now]
<1>a. /\ left \in [due : [Pending \ expired -> Nat], nearest : Nat, ticks : Nat]
      /\ \A e \in Pending \ expired :
            left.due[e] + ackHandlers.ticks + sinceUpdate = ackHandlers.due[e] + left.ticks
    <2>1. HandlersOK /\ TicksKnown
        BY DEF IInv
    <2> QED BY <2>1, UpdateHandlers
<1>1. /\ left \in [due : [Pending \ expired -> Nat], nearest : Nat, ticks : Nat]
      /\ Keys(left) = Pending \ expired
      /\ \A e \in Pending \ expired :
            left.due[e] + ackHandlers.ticks + sinceUpdate = ackHandlers.due[e] + left.ticks
    BY <1>a DEF Keys
<1>2. /\ ackHandlers \in [due : [Pending -> Nat], nearest : Nat, ticks : Nat] /\ Keys(ackHandlers) = Pending
      /\ ackHandlers.ticks \in Nat /\ sinceUpdate \in Nat /\ now \in Nat /\ AckTimeout \in Nat /\ AgeBound \in Nat
    BY SessionAssumption DEF IInv, HandlersOK, Keys, AgeBound
<1>3. left.nearest = NearestOf(left.due)
    <2>1. CASE Pending = {}
        BY <1>2, <2>1 DEF Update, Keys, MapExact
    <2>2. CASE Pending # {} /\ now < ackHandlers.nearest
        <3>1. left = [ackHandlers EXCEPT !.ticks = now]
            BY <1>2, <2>2 DEF Update
        <3> QED BY <1>2, <3>1 DEF MapExact
    <2>3. CASE Pending # {} /\ ~ now < ackHandlers.nearest
        <3>1. left = [due |-> due, nearest |-> NearestOf(due), ticks |-> 0]
            BY <1>2, <2>3 DEF Update
        <3> QED BY <3>1
    <2> QED BY <2>1, <2>2, <2>3
<1>4. \A e \in Pending \ expired : left.due[e] <= left.ticks + AckTimeout
    <2> TAKE e \in Pending \ expired
    <2>1. ackHandlers.due[e] <= ackHandlers.ticks + AckTimeout
        BY DEF MapExact
    <2>2. left.due[e] + ackHandlers.ticks + sinceUpdate = ackHandlers.due[e] + left.ticks
        BY <1>1
    <2>3. left.due[e] \in Nat /\ ackHandlers.due[e] \in Nat /\ left.ticks \in Nat
        BY <1>1, <1>2
    <2> QED BY <1>2, <2>1, <2>2, <2>3
<1>5. age' \in [Event -> 0 .. AgeBound + 1]
    BY <1>2 DEF Conclude, MapExact
<1>6. CASE done = {} /\ ackHandlers' = left
    BY <1>3, <1>4, <1>5, <1>6 DEF MapExact
<1>7. ASSUME NEW m, done = Keys(left) \cap {m}, ackHandlers' = TakeHandler(left, m) PROVE MapExact'
    <2> DEFINE kept == Restrict(left.due, Keys(left) \ {m})
    <2>1. /\ ackHandlers' = [due |-> kept, nearest |-> NearestOf(kept),
                             ticks |-> IF m \in Keys(left) /\ DOMAIN kept = {} THEN 0 ELSE left.ticks]
        BY <1>7 DEF TakeHandler
    <2>2. DOMAIN kept = Keys(left) \ {m} /\ \A k \in Keys(left) \ {m} : kept[k] = left.due[k]
        BY DEF Restrict
    <2> HIDE DEF kept
    <2>3. Pending' = Keys(left) \ {m}
        BY <1>1, <1>7
    <2>4. \A k \in Pending' : ackHandlers'.due[k] = left.due[k] /\ ackHandlers'.ticks = left.ticks
        BY <2>1, <2>2, <2>3
    <2>5. \A k \in Pending' : ackHandlers'.due[k] <= ackHandlers'.ticks + AckTimeout
        BY <1>1, <1>4, <2>3, <2>4
    <2> QED BY <1>5, <2>1, <2>5 DEF MapExact
<1> QED BY <1>6, <1>7

LEMMA NextExact == IInv /\ MapExact /\ IInv' /\ [Next]_vars => MapExact'
<1> SUFFICES ASSUME IInv, MapExact, IInv', [Next]_vars PROVE MapExact'
    OBVIOUS
<1> DEFINE Same == UNCHANGED <<ackHandlers, status, age>>
<1>1. CASE Begin \/ Disconnect
    <2>1. ClearHandlers
        BY <1>1 DEF Begin, Disconnect
    <2>2. Pending' = {}
        BY <2>1 DEF ClearHandlers, Conclude, Pending, IInv, HandlersOK
    <2> QED BY <2>1, <2>2, ClearExact
<1>2. ASSUME NEW e \in Event, SendEvent(e) PROVE MapExact'
    BY <1>2, SendEventExact
<1>3. ASSUME NEW m, Handle(m) PROVE MapExact'
    <2>1. PICK left : left = Update(ackHandlers, sinceUpdate)
        OBVIOUS
    <2>2. PICK expired : expired = Expired(ackHandlers, sinceUpdate)
        OBVIOUS
    <2>3. PICK done : done = Keys(left) \cap {m}
        OBVIOUS
    <2>4. /\ Conclude(expired, done)
          /\ ackHandlers' = IF m \in Event THEN TakeHandler(left, m) ELSE left
        BY <1>3, <2>1, <2>2, <2>3 DEF Handle
    <2>a. HandlersOK /\ TicksKnown
        BY DEF IInv
    <2>b. expired \subseteq Pending /\ left \in [due : [Pending \ expired -> Nat], nearest : Nat, ticks : Nat]
        BY <2>a, <2>1, <2>2, UpdateHandlers
    <2>5. expired \subseteq Pending /\ Keys(left) = Pending \ expired
        BY <2>b DEF Keys
    <2>6. Pending' = Pending \ (expired \cup done)
        BY <2>3, <2>4, <2>5 DEF Conclude, Pending, IInv, HandlersOK
    <2>7. m \notin Event => done = {}
        BY <2>3, <2>5 DEF Pending
    <2>8. done \subseteq Keys(left)
        BY <2>3
    <2>9. \/ done = {} /\ ackHandlers' = left
          \/ \E x : done = Keys(left) \cap {x} /\ ackHandlers' = TakeHandler(left, x)
        BY <2>3, <2>4, <2>7
    <2> QED BY <2>1, <2>2, <2>4, <2>6, <2>8, <2>9, TurnExact
<1>4. CASE Idle \/ ReceiveError
    <2>1. PICK left : left = Update(ackHandlers, sinceUpdate)
        OBVIOUS
    <2>2. PICK expired : expired = Expired(ackHandlers, sinceUpdate)
        OBVIOUS
    <2>3. Conclude(expired, {}) /\ ackHandlers' = left
        BY <1>4, <2>1, <2>2, Zenon DEF Idle, ReceiveError
    <2>4. expired \subseteq Pending
        BY <2>1, <2>2, UpdateHandlers DEF IInv
    <2>5. Pending' = Pending \ (expired \cup {})
        BY <2>3, <2>4 DEF Conclude, Pending, IInv, HandlersOK
    <2>6. {} \subseteq Keys(left)
        OBVIOUS
    <2> QED BY <2>1, <2>2, <2>3, <2>5, <2>6, TurnExact
<1>5. CASE Tick
    <2>1. /\ age' = [e \in Event |-> IF e \in Pending THEN AtMost(AgeBound + 1, age[e]) ELSE age[e]]
          /\ ackHandlers' = ackHandlers /\ Pending' = Pending
        BY <1>5 DEF Tick, Pending
    <2>2. AgeBound \in Nat
        BY SessionAssumption DEF AgeBound
    <2>3. \A e \in Event : age[e] \in 0 .. AgeBound + 1 /\ AtMost(AgeBound + 1, age[e]) \in 0 .. AgeBound + 1
        BY <2>2 DEF MapExact, AtMost
    <2>4. age' \in [Event -> 0 .. AgeBound + 1]
        BY <2>1, <2>3
    <2> QED BY <2>1, <2>4 DEF MapExact
<1>6. ASSUME Same PROVE MapExact'
    BY <1>6 DEF MapExact, Pending
<1>7. CASE SetKeepalive \/ Wake \/ CloudAnswersPing \/ CloudAcknowledges \/ LinkDies \/ UNCHANGED vars
    <2>1. Same
        BY <1>7, Zenon DEF SetKeepalive, Wake, CloudAnswersPing, CloudAcknowledges, Arrive, LinkDies, vars
    <2> QED BY <2>1, <1>6
<1> QED BY <1>1, <1>2, <1>3, <1>4, <1>5, <1>7, Zenon DEF Next, EventLoop, Receive, ReceiveUpdate

LEMMA NextRest == RestTyped /\ [Next]_vars => RestTyped'
<1> SUFFICES ASSUME RestTyped, [Next]_vars PROVE RestTyped'
    OBVIOUS
<1> USE SessionAssumption DEF RestTyped
<1>a. MaxWakes \in Nat
    OBVIOUS
<1>b. ASSUME Close, UNCHANGED keepalive PROVE RestTyped'
    <2>1. /\ open' = FALSE /\ socket' = {} /\ alive' = FALSE /\ expecting' = FALSE /\ updating' = FALSE
          /\ wakes' = 0 /\ keepalive' = keepalive
        BY <1>b DEF Close
    <2>2. wakes' \in 0 .. MaxWakes
        BY <1>a, <2>1
    <2> QED BY <2>1, <2>2
<1>1. CASE Begin
    BY <1>1 DEF Begin
<1>2. CASE Disconnect \/ ReceiveError
    BY <1>2, <1>b DEF Disconnect, ReceiveError
<1>3. CASE SetKeepalive
    BY <1>3 DEF SetKeepalive
<1>4. CASE Wake
    BY <1>4 DEF Wake
<1>5. ASSUME NEW e \in Event, SendEvent(e) PROVE RestTyped'
    BY <1>5 DEF SendEvent
<1>6. ASSUME NEW m, Receive(m) \/ (ReceiveUpdate /\ Handle("update")) PROVE RestTyped'
    <2>1. /\ expecting' = FALSE /\ wakes' = 0 /\ UNCHANGED <<open, keepalive, alive>> /\ socket' \subseteq socket
        BY <1>6 DEF Receive, ReceiveUpdate, Handle
    <2>2. updating' \in BOOLEAN
        BY <1>6 DEF Receive, ReceiveUpdate
    <2>3. wakes' \in 0 .. MaxWakes
        BY <1>a, <2>1
    <2> QED BY <2>1, <2>2, <2>3
<1>7. CASE Idle
    <2>1. CASE TimedOut /\ ~ updating
        <3>1. Close /\ UNCHANGED keepalive
            BY <1>7, <2>1, Zenon DEF Idle
        <3> QED BY <1>b, <3>1
    <2>2. CASE ~ (TimedOut /\ ~ updating)
        <3>1. UNCHANGED <<open, updating, socket, alive, wakes, keepalive>> /\ (expecting' = TRUE \/ UNCHANGED expecting)
            BY <1>7, <2>2, Zenon DEF Idle
        <3> QED BY <3>1
    <2> QED BY <2>1, <2>2
<1>8. CASE Tick
    BY <1>8 DEF Tick
<1>9. CASE CloudAnswersPing \/ CloudAcknowledges
    <2>1. \A e \in Pending : e \in Message
        BY DEF Pending, Message
    <2> QED BY <1>9, <2>1 DEF CloudAnswersPing, CloudAcknowledges, Arrive, Message
<1>10. CASE LinkDies
    BY <1>10 DEF LinkDies
<1>11. CASE UNCHANGED vars
    BY <1>11 DEF vars
<1> QED BY <1>1, <1>2, <1>3, <1>4, <1>5, <1>6, <1>7, <1>8, <1>9, <1>10, <1>11, Zenon
        DEF Next, EventLoop, ReceiveUpdate

-----------------------------------------------------------------------------
(* How long nothing may be heard of the cloud *)

Longest == MaxSilence - 1

\* Without a ping under way the silence is the time since the last message, which the loop
\* looks at in every turn; with one it goes on from at most a turn after the longest
\* interval, until the timeout of the ping.
SilenceKnown ==
    /\ silence \in 0 .. SilenceBound + 1
    /\ ~ open => silence = 0
    /\ expecting =>
          /\ ~ updating
          /\ sinceMessage <= PingTimeout + sinceUpdate
          /\ silence <= Longest + MaxBlock + PingTimeout + sinceUpdate
          /\ sinceMessage < MaxSilence => silence <= Longest + MaxBlock + sinceMessage
    /\ ~ expecting =>
          /\ silence <= Longest + sinceUpdate
          /\ sinceMessage < MaxSilence => silence <= sinceMessage

LEMMA SilenceNumbers ==
    /\ PingTimeout \in Nat /\ MaxBlock \in Nat /\ MaxSilence \in Nat
    /\ Longest \in Nat /\ PingTimeout <= Longest
    /\ SilenceBound \in Nat /\ SilenceBound = Longest + MaxBlock + PingTimeout + MaxBlock
    /\ \A interval \in Intervals : interval \in Nat /\ interval <= Longest
BY SessionAssumption DEF Longest, SilenceBound

\* Something is heard, or the session is over, or it begins.
LEMMA SilenceEnds ==
    ASSUME silence' = 0, expecting' = FALSE, sinceUpdate' \in Nat, sinceMessage' \in Nat
    PROVE  SilenceKnown'
<1>1. silence' \in 0 .. SilenceBound + 1
    BY SilenceNumbers
<1>2. Longest \in Nat
    BY SilenceNumbers
<1>3. 0 <= Longest + sinceUpdate'
    <2>1. \A m, n \in Nat : 0 <= m + n
        OBVIOUS
    <2> QED BY <1>2, <2>1
<1>4. 0 <= sinceMessage'
    OBVIOUS
<1> QED BY <1>1, <1>3, <1>4 DEF SilenceKnown

\* A turn of the loop in which the session does not end.
LEMMA IdleSilence ==
    ASSUME IInv, RestTyped, SilenceKnown, Idle, ~ (TimedOut /\ ~ updating)
    PROVE  SilenceKnown'
<1> DEFINE off == updating \/ (~ expecting /\ keepalive.interval = 0)
<1>1. /\ sinceUpdate \in Nat /\ sinceUpdate <= MaxBlock /\ sinceMessage \in 0 .. MaxSilence
      /\ keepalive.interval \in Intervals /\ silence \in Nat /\ silence <= SilenceBound + 1 /\ open
    BY SilenceNumbers DEF IInv, HandlersOK, PingAnswered, RestTyped, SilenceKnown, Idle
<1>2. sinceUpdate' = 0 /\ silence' = (IF off THEN 0 ELSE silence) /\ UNCHANGED <<open, updating>>
    BY Zenon DEF Idle
<1>3. silence' \in 0 .. SilenceBound + 1
    BY <1>1, <1>2, SilenceNumbers
<1>4. IF PingDue /\ ~ updating THEN expecting' = TRUE /\ SendPing ELSE UNCHANGED <<expecting, sinceMessage, pinged>>
    BY Zenon DEF Idle
<1> HIDE DEF off
<1>5. CASE PingDue /\ ~ updating
    <2>1. expecting' = TRUE /\ sinceMessage' = 0 /\ ~ expecting /\ ~ updating'
        BY <1>2, <1>4, <1>5 DEF SendPing, PingDue
    <2>2. silence' <= Longest + MaxBlock
        BY <1>1, <1>2, <2>1, SilenceNumbers DEF SilenceKnown
    <2> QED BY <1>1, <1>2, <1>3, <2>1, <2>2, SilenceNumbers DEF SilenceKnown
<1>6. CASE ~ (PingDue /\ ~ updating) /\ expecting
    <2>1. expecting' = expecting /\ sinceMessage' = sinceMessage /\ ~ updating /\ ~ off
        BY <1>4, <1>6 DEF SilenceKnown, off
    <2>2. sinceMessage <= PingTimeout
        BY <1>1, <1>6, <2>1, SilenceNumbers DEF TimedOut
    <2>3. silence' = silence /\ silence <= Longest + MaxBlock + sinceMessage
        BY <1>1, <1>2, <1>6, <2>1, <2>2, SilenceNumbers DEF SilenceKnown, Longest
    <2> QED BY <1>1, <1>2, <1>3, <1>6, <2>1, <2>2, <2>3, SilenceNumbers DEF SilenceKnown
<1>7. CASE ~ (PingDue /\ ~ updating) /\ ~ expecting /\ off
    <2>1. silence' = 0 /\ expecting' = expecting /\ sinceMessage' = sinceMessage
        BY <1>2, <1>4, <1>7
    <2>2. expecting' = FALSE /\ sinceMessage' \in Nat
        BY <1>1, <1>7, <2>1, SilenceNumbers DEF RestTyped
    <2> QED BY <1>2, <2>1, <2>2, SilenceEnds
<1>8. CASE ~ (PingDue /\ ~ updating) /\ ~ expecting /\ ~ off
    <2>1. expecting' = expecting /\ sinceMessage' = sinceMessage /\ silence' = silence
        BY <1>2, <1>4, <1>8
    <2>2. sinceMessage <= keepalive.interval
        BY <1>1, <1>8, SilenceNumbers DEF PingDue, off
    <2>3. silence <= sinceMessage /\ sinceMessage <= Longest
        BY <1>1, <1>8, <2>2, SilenceNumbers DEF SilenceKnown, Longest
    <2> QED BY <1>1, <1>2, <1>3, <1>8, <2>1, <2>3, SilenceNumbers DEF SilenceKnown
<1> QED BY <1>5, <1>6, <1>7, <1>8

LEMMA NextSilence == IInv /\ RestTyped /\ SilenceKnown /\ [Next]_vars => SilenceKnown'
<1> SUFFICES ASSUME IInv, RestTyped, SilenceKnown, [Next]_vars PROVE SilenceKnown'
    OBVIOUS
<1>1. /\ sinceUpdate \in Nat /\ sinceUpdate <= MaxBlock /\ sinceMessage \in 0 .. MaxSilence
      /\ silence \in Nat /\ silence <= SilenceBound + 1 /\ (expecting => open)
    BY SilenceNumbers DEF IInv, HandlersOK, PingAnswered, SilenceKnown
<1>2. ASSUME UNCHANGED <<open, silence, expecting, updating, sinceMessage, sinceUpdate>> PROVE SilenceKnown'
    BY <1>2 DEF SilenceKnown
<1>3. CASE Begin
    <2>1. /\ UNCHANGED <<silence, expecting, sinceMessage>> /\ ~ open
          /\ sinceUpdate' \in 0 .. MaxBlock \/ sinceUpdate' = sinceUpdate
        BY <1>3 DEF Begin
    <2>2. silence' = 0 /\ expecting' = FALSE /\ sinceUpdate' \in Nat /\ sinceMessage' \in Nat
        BY <1>1, <2>1, SilenceNumbers DEF SilenceKnown, RestTyped
    <2> QED BY <2>2, SilenceEnds
<1>4. ASSUME Close PROVE SilenceKnown'
    BY <1>4, SilenceEnds DEF Close
<1>5. ASSUME NEW m, Handle(m) PROVE SilenceKnown'
    BY <1>5, SilenceEnds DEF Handle
<1>6. CASE Wake
    <2>1. silence' = 0 /\ sinceMessage' = 0 /\ UNCHANGED <<open, expecting, updating, sinceUpdate>>
        BY <1>6 DEF Wake, SendPing
    <2>2. 0 \in 0 .. SilenceBound + 1
        BY SilenceNumbers
    <2> QED BY <1>1, <2>1, <2>2, SilenceNumbers DEF SilenceKnown
<1>7. CASE Idle
    <2>1. CASE TimedOut /\ ~ updating
        <3>1. Close
            BY <1>7, <2>1, Zenon DEF Idle
        <3> QED BY <3>1, <1>4
    <2> QED BY <1>7, <2>1, IdleSilence
<1>8. CASE Tick
    <2>1. /\ UNCHANGED <<open, expecting, updating>> /\ open /\ sinceUpdate' = sinceUpdate + 1
          /\ sinceMessage' = IF sinceMessage < MaxSilence THEN sinceMessage + 1 ELSE MaxSilence
          /\ silence' = IF silence < SilenceBound + 1 THEN silence + 1 ELSE SilenceBound + 1
        BY <1>8 DEF Tick, AtMost
    <2>2. silence' \in 0 .. SilenceBound + 1 /\ silence' <= silence + 1 /\ sinceMessage' <= sinceMessage + 1
        BY <1>1, <2>1, SilenceNumbers
    <2>3. sinceMessage' < MaxSilence => sinceMessage < MaxSilence /\ sinceMessage' = sinceMessage + 1
        BY <1>1, <2>1, SilenceNumbers
    <2> QED BY <1>1, <2>1, <2>2, <2>3, SilenceNumbers DEF SilenceKnown
<1>9. CASE UNCHANGED vars
    BY <1>2, <1>9 DEF vars
<1>10. ASSUME NEW e \in Event, SendEvent(e) PROVE SilenceKnown'
    BY <1>2, <1>10 DEF SendEvent
<1>11. CASE SetKeepalive
    BY <1>2, <1>11 DEF SetKeepalive
<1>12. CASE CloudAnswersPing \/ CloudAcknowledges \/ LinkDies
    BY <1>2, <1>12 DEF CloudAnswersPing, CloudAcknowledges, Arrive, LinkDies
<1> QED BY <1>3, <1>4, <1>5, <1>6, <1>7, <1>8, <1>9, <1>10, <1>11, <1>12
        DEF Next, Disconnect, EventLoop, Receive, ReceiveUpdate, ReceiveError

LEMMA InitTyped == Init => MapExact /\ RestTyped /\ SilenceKnown
<1> SUFFICES ASSUME Init PROVE MapExact /\ RestTyped /\ SilenceKnown
    OBVIOUS
<1>1. Pending = {} /\ AgeBound \in Nat
    BY SessionAssumption DEF Init, Pending, AgeBound
<1>2. MapExact
    BY <1>1, NearestOfNone DEF Init, NoHandlers, MapExact
<1>3. RestTyped
    <2>1. MaxWakes \in Nat
        BY SessionAssumption
    <2>2. keepalive \in [interval : Intervals, source : {"SYSTEM", "USER"}]
        BY DEF Init
    <2>3. wakes \in 0 .. MaxWakes
        BY <2>1 DEF Init
    <2> QED BY <2>2, <2>3 DEF Init, RestTyped
<1>4. SilenceKnown
    <2>1. 0 \in 0 .. SilenceBound + 1
        BY SilenceNumbers
    <2> QED BY <2>1, SilenceNumbers DEF Init, SilenceKnown
<1> QED BY <1>2, <1>3, <1>4

\* All variables keep to their types; in particular nearestTimeout_ is always the nearest
\* expiry of the handlers in the map, which lets update() skip the scan.
THEOREM SessionTypeCorrect == Spec => []TypeOK
<1>1. IInv /\ MapExact /\ RestTyped /\ SilenceKnown => TypeOK
    <2> SUFFICES ASSUME IInv, MapExact, RestTyped, SilenceKnown PROVE TypeOK
        OBVIOUS
    <2>1. /\ ackHandlers.due \in [Pending -> Nat] /\ ackHandlers.ticks \in Nat /\ AckTimeout \in Nat
          /\ \A e \in Pending : ackHandlers.ticks <= ackHandlers.due[e]
        BY SessionAssumption DEF IInv, HandlersOK, TicksKnown
    <2>2. \A e \in Pending : ackHandlers.due[e] \in ackHandlers.ticks .. ackHandlers.ticks + AckTimeout
        BY <2>1 DEF MapExact
    <2>3. Keys(ackHandlers) = Pending
        BY <2>1 DEF Keys
    <2> QED BY <2>2, <2>3 DEF TypeOK, IInv, HandlersOK, PingAnswered, MapExact, RestTyped, SilenceKnown
<1> QED BY <1>1, InitIInv, NextIInv, InitTyped, NextExact, NextRest, NextSilence, PTL DEF Spec

\* An open session was heard of within the longest interval, the timeout of a ping and two
\* turns of the loop, for all intervals, timeouts and bounds on a turn: what the device does
\* meanwhile (pings, new intervals, events) does not put off the end of a dead session.
THEOREM SilenceNoticed == Spec => []SilenceIsNoticed
<1>1. IInv /\ SilenceKnown => SilenceIsNoticed
    <2> SUFFICES ASSUME IInv, SilenceKnown PROVE silence <= SilenceBound
        BY DEF SilenceIsNoticed
    <2>1. sinceUpdate \in Nat /\ sinceUpdate <= MaxBlock
        BY SilenceNumbers DEF IInv, HandlersOK
    <2> QED BY <2>1, SilenceNumbers DEF SilenceKnown
<1> QED BY <1>1, InitIInv, NextIInv, InitTyped, NextRest, NextSilence, PTL DEF Spec

=============================================================================
