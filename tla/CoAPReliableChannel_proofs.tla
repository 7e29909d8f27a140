--------------------- MODULE CoAPReliableChannel_proofs ---------------------
(***************************************************************************)
(* Theorems about the reliable channel, for every id space, every set of   *)
(* requests and every choice of timeouts that satisfies StoreAssumption    *)
(* and ChannelAssumption.                                                  *)
(***************************************************************************)
EXTENDS CoAPReliableChannel, TLAPS

-----------------------------------------------------------------------------
(* Lemmas about the message store *)

\* A deadline drawn by transmit_timeout is a natural number of ticks.
LEMMA TransmitTimeoutType ==
    ASSUME NEW n
    PROVE  TransmitTimeout(n) \subseteq Nat
BY DEF TransmitTimeout

\* The two entries the store creates are well formed.
LEMMA EntryType ==
    /\ NoEntry \in Entry
    /\ \A kind \in Kind : Expiring(kind) \in Entry
    /\ \A wait \in Nat : NewRequest(wait) \in Entry
BY StoreAssumption DEF NoEntry, Expiring, NewRequest, Entry, Kind, Count

\* A pass of process() keeps the store well formed: the transmission counter
\* stays within its bound.
LEMMA ProcessType ==
    ASSUME NEW S, NEW store \in [S -> Entry], NEW wait \in Waits(store)
    PROVE  Process(store, wait) \in [S -> Entry]
<1> SUFFICES ASSUME NEW id \in S PROVE Process(store, wait)[id] \in Entry
    BY DEF Process
<1>1. CASE id \in Expired(store)
    BY <1>1, EntryType DEF Process
<1>2. CASE id \notin Expired(store) /\ id \in Retransmitted(store)
    <2>1. wait[id] \in Nat
        BY <1>2, TransmitTimeoutType DEF Waits
    <2>2. store[id] \in Entry /\ store[id].count \in Count /\ store[id].count <= MaxRetransmit
        BY <1>2 DEF Retransmitted, Entry
    <2>3. store[id].count + 1 \in Count
        BY <2>2, StoreAssumption DEF Count
    <2>4. Process(store, wait)[id] = [store[id] EXCEPT !.count = @ + 1, !.timer = wait[id]]
        BY <1>2 DEF Process
    <2> QED BY <2>1, <2>2, <2>3, <2>4 DEF Entry
<1>3. CASE id \notin Expired(store) /\ id \notin Retransmitted(store)
    BY <1>3 DEF Process
<1> QED BY <1>1, <1>2, <1>3

\* Time passing keeps the store well formed.
LEMMA AgeType ==
    ASSUME NEW S, NEW store \in [S -> Entry]
    PROVE  Age(store) \in [S -> Entry]
BY DEF Age, Entry

-----------------------------------------------------------------------------
(* Type correctness *)

LEMMA StoreUpdateType ==
    ASSUME NEW S, NEW store \in [S -> Entry], NEW id, NEW entry \in Entry
    PROVE  /\ Add(store, id, entry) \in [S -> Entry]
           /\ ClearMessage(store, id) \in [S -> Entry]
BY EntryType DEF Add, ClearMessage

LEMMA MsgType ==
    /\ \A i \in Id : Msg("CON", i) \in Request(Id)
    /\ \A r \in Req : Msg("CON", r) \in Request(Req)
    /\ \A r \in Req, type \in {"ACK", "RESET"} : Msg(type, r) \in Reply(Req)
    /\ \A i \in Id, type \in {"ACK", "RESET"} : Msg(type, i) \in Reply(Id)
BY ChannelAssumption DEF Msg, Request, Reply

LEMMA ResendsType ==
    ASSUME NEW c \in [Id -> Entry]
    PROVE  Resends(c) \subseteq Request(Id)
BY MsgType DEF Resends, Retransmitted, Due

\* What a pass over both stores leaves behind is well formed.
LEMMA ProcessStoresType ==
    ASSUME TypeOK,
           NEW c \in [Id -> Entry], NEW s \in [Req -> Entry],
           NEW sess \in {"open", "closed"}, NEW out \in [Id -> Outcome],
           ProcessStores(c, s, sess, out)
    PROVE  /\ client' \in [Id -> Entry]
           /\ server' \in [Req -> Entry]
           /\ session' \in {"open", "closed"}
           /\ sent' \in [Id -> Nat]
           /\ outcome' \in [Id -> Outcome]
<1> PICK cw \in Waits(c), sw \in Waits(s), failed \in BOOLEAN :
        /\ client' = Process(c, cw)
        /\ server' = Process(s, sw)
        /\ session' = IF \/ GivenUp(c) \cup GivenUp(s) # {}
                         \/ failed /\ Retransmitted(c) # {}
                      THEN "closed" ELSE sess
        /\ sent' = [i \in Id |-> IF i \in Retransmitted(c) THEN sent[i] + 1 ELSE sent[i]]
        /\ outcome' = [i \in Id |-> IF i \in GivenUp(c) THEN "lost" ELSE out[i]]
    BY DEF ProcessStores
<1>1. client' \in [Id -> Entry] /\ server' \in [Req -> Entry]
    BY ProcessType
<1>2. session' \in {"open", "closed"}
    OBVIOUS
<1>3. sent' \in [Id -> Nat]
    BY DEF TypeOK
<1>4. outcome' \in [Id -> Outcome]
    BY DEF Outcome
<1> QED BY <1>1, <1>2, <1>3, <1>4

\* What one pass of the loop of send_synchronous leaves behind is well formed.
LEMMA SyncStepType ==
    ASSUME TypeOK,
           NEW c \in [Id -> Entry], NEW sess \in {"open", "closed"},
           NEW error \in BOOLEAN, NEW out \in [Id -> Outcome],
           SyncStep(c, sess, error, out)
    PROVE  /\ client' \in [Id -> Entry]
           /\ sync' \in Id \cup {None}
           /\ session' \in {"open", "closed"}
           /\ sent' \in [Id -> Nat]
           /\ outcome' \in [Id -> Outcome]
           /\ UNCHANGED <<server, mid, handling, toDevice, cloudVars, got, handled>>
<1> PICK cw \in Waits(c), failed \in BOOLEAN :
        LET processed == Process(c, cw)
            leaves    == error \/ ~ Stored(processed, sync)
            dropped   == leaves /\ Stored(processed, sync)
        IN  /\ client' = IF leaves THEN ClearMessage(processed, sync) ELSE processed
            /\ sync' = IF leaves THEN None ELSE sync
            /\ session' = IF GivenUp(c) # {} \/ (failed /\ Retransmitted(c) # {})
                          THEN "closed" ELSE sess
            /\ sent' = [i \in Id |-> IF i \in Retransmitted(c) THEN sent[i] + 1 ELSE sent[i]]
            /\ outcome' = [i \in Id |-> IF i \in GivenUp(c) \/ (dropped /\ i = sync)
                                        THEN "lost" ELSE out[i]]
            /\ UNCHANGED <<server, mid, handling, toDevice, cloudVars, got, handled>>
    BY DEF SyncStep
<1>1. Process(c, cw) \in [Id -> Entry]
    BY ProcessType
<1>2. client' \in [Id -> Entry]
    BY <1>1, StoreUpdateType, EntryType
<1>3. sync' \in Id \cup {None}
    BY DEF TypeOK
<1>4. sent' \in [Id -> Nat]
    BY DEF TypeOK
<1>5. outcome' \in [Id -> Outcome]
    BY DEF Outcome
<1> QED BY <1>2, <1>3, <1>4, <1>5

LEMMA RepliesConcludeType ==
    ASSUME TypeOK, NEW m \in toDevice, m.type \in {"ACK", "RESET"}
    PROVE  /\ m.id \in Id
           /\ AfterReply(m) \in [Id -> Entry]
           /\ SessionAfterReply(m) \in {"open", "closed"}
           /\ Concluded(m) \in [Id -> Outcome]
BY StoreUpdateType, EntryType
   DEF TypeOK, AfterReply, SessionAfterReply, Concluded, Outcome, Request, Reply

LEMMA RequestsType ==
    ASSUME TypeOK, NEW m \in toDevice, m.type = "CON"
    PROVE  m.id \in Req
BY DEF TypeOK, Request, Reply

\* The initial state is well formed.
LEMMA InitType == Init => TypeOK
BY EntryType, ChannelAssumption DEF Init, TypeOK, Id, Outcome, Lifetime

\* Every step keeps the state well formed.
LEMMA NextType == TypeOK /\ [Next]_vars => TypeOK'
<1> SUFFICES ASSUME TypeOK, [Next]_vars PROVE TypeOK'
    OBVIOUS
<1> USE DEF deviceVars, cloudVars, netVars, history
<1>1. CASE SendRequest
    <2> PICK wait \in TransmitTimeout(0), ok \in BOOLEAN :
            /\ mid' = NextId
            /\ client' = Add(client, NextId, NewRequest(wait))
            /\ session' = IF ok THEN session ELSE "closed"
            /\ toCloud' = IF ok THEN toCloud \cup {Msg("CON", NextId)} ELSE toCloud
            /\ sent' = [sent EXCEPT ![NextId] = 1]
            /\ outcome' = [outcome EXCEPT ![NextId] = "pending"]
            /\ got' = got \ {NextId}
            /\ UNCHANGED <<server, sync, handling, toDevice, cloudVars, handled>>
        BY <1>1 DEF SendRequest
    <2>1. NextId \in Id
        BY ChannelAssumption DEF TypeOK, NextId, Id
    <2>2. client' \in [Id -> Entry]
        BY StoreUpdateType, EntryType, TransmitTimeoutType DEF TypeOK
    <2> QED BY <2>1, <2>2, MsgType DEF TypeOK, Outcome
<1>2. CASE SendSynchronous
    <2> PICK wait \in TransmitTimeout(0), ok \in BOOLEAN :
            /\ mid' = NextId
            /\ sync' = IF ok THEN NextId ELSE None
            /\ client' = IF ok THEN Add(client, NextId, [NewRequest(wait) EXCEPT !.notify = TRUE])
                               ELSE ClearMessage(client, NextId)
            /\ session' = IF ok THEN session ELSE "closed"
            /\ toCloud' = IF ok THEN toCloud \cup {Msg("CON", NextId)} ELSE toCloud
            /\ sent' = [sent EXCEPT ![NextId] = 1]
            /\ outcome' = [outcome EXCEPT ![NextId] = IF ok THEN "pending" ELSE "lost"]
            /\ got' = got \ {NextId}
            /\ UNCHANGED <<server, handling, toDevice, cloudVars, handled>>
        BY <1>2 DEF SendSynchronous
    <2>1. NextId \in Id
        BY ChannelAssumption DEF TypeOK, NextId, Id
    <2>2. [NewRequest(wait) EXCEPT !.notify = TRUE] \in Entry
        BY EntryType, TransmitTimeoutType DEF Entry
    <2>3. client' \in [Id -> Entry]
        BY <2>2, StoreUpdateType, EntryType DEF TypeOK
    <2> QED BY <2>1, <2>3, MsgType DEF TypeOK, Outcome
<1>3. CASE AnswerRequest
    <2>1. handling \in Req /\ Expiring("ACK") \in Entry
        BY <1>3, EntryType DEF AnswerRequest, TypeOK, Kind
    <2>2. server' \in [Req -> Entry]
        BY <1>3, <2>1, StoreUpdateType DEF AnswerRequest, TypeOK
    <2> QED BY <1>3, <2>1, <2>2, MsgType DEF AnswerRequest, Transmit, TypeOK
<1>4. CASE DropRequest
    BY <1>4 DEF DropRequest, TypeOK
<1>5. CASE ReceiveNothing
    BY <1>5, ProcessStoresType, ResendsType DEF ReceiveNothing, Transmit, TypeOK
<1>6. CASE ReceiveError
    BY <1>6, ProcessStoresType DEF ReceiveError, TypeOK
<1>7. ASSUME NEW m \in toDevice, ReceiveReply(m) PROVE TypeOK'
    <2>1. m.type \in {"ACK", "RESET"}
        BY <1>7 DEF ReceiveReply
    <2> QED BY <1>7, <2>1, RepliesConcludeType, ProcessStoresType, ResendsType
            DEF ReceiveReply, TypeOK
<1>8. ASSUME NEW m \in toDevice, ReceiveNewRequest(m) PROVE TypeOK'
    <2>1. m.id \in Req
        BY <1>8, RequestsType DEF ReceiveNewRequest
    <2>2. Add(server, m.id, Expiring("CON")) \in [Req -> Entry]
        BY StoreUpdateType, EntryType DEF TypeOK, Kind
    <2> QED BY <1>8, <2>1, <2>2, ProcessStoresType, ResendsType
            DEF ReceiveNewRequest, Transmit, TypeOK
<1>9. ASSUME NEW m \in toDevice, ReceiveDuplicate(m) PROVE TypeOK'
    <2>1. m.id \in Req
        BY <1>9, RequestsType DEF ReceiveDuplicate
    <2>2. server[m.id].kind \in {"CON", "ACK", "RESET"}
        BY <1>9, <2>1 DEF ReceiveDuplicate, Stored, TypeOK, Entry, Kind
    <2>3. toCloud' \subseteq Request(Id) \cup Reply(Req)
        BY <1>9, <2>1, <2>2, MsgType, ResendsType DEF ReceiveDuplicate, Transmit, TypeOK
    <2> QED BY <1>9, <2>3, ProcessStoresType DEF ReceiveDuplicate, TypeOK
<1>10. CASE SyncReceiveNothing
    BY <1>10, SyncStepType, ResendsType DEF SyncReceiveNothing, Transmit, TypeOK
<1>11. CASE SyncReceiveError
    BY <1>11, SyncStepType DEF SyncReceiveError, TypeOK
<1>12. ASSUME NEW m \in toDevice, SyncReceiveReply(m) PROVE TypeOK'
    <2>1. m.type \in {"ACK", "RESET"}
        BY <1>12 DEF SyncReceiveReply
    <2> DEFINE error == m.type = "RESET" /\ m.id = sync
    <2>2. SyncStep(AfterReply(m), SessionAfterReply(m), error, Concluded(m))
        BY <1>12 DEF SyncReceiveReply
    <2>3. error \in BOOLEAN
        OBVIOUS
    <2> HIDE DEF error
    <2>4. /\ client' \in [Id -> Entry] /\ sync' \in Id \cup {None}
          /\ session' \in {"open", "closed"} /\ sent' \in [Id -> Nat]
          /\ outcome' \in [Id -> Outcome]
          /\ UNCHANGED <<server, mid, handling, toDevice, cloudVars, got, handled>>
        BY <2>1, <2>2, <2>3, RepliesConcludeType, SyncStepType
    <2>5. toCloud' \subseteq Request(Id) \cup Reply(Req)
        BY <1>12, <2>1, RepliesConcludeType, ResendsType DEF SyncReceiveReply, TypeOK
    <2> QED BY <2>4, <2>5 DEF TypeOK
<1>13. CASE EstablishResumed
    BY <1>13, EntryType DEF EstablishResumed, ClearStores, TypeOK, Outcome
<1>14. CASE EstablishNew
    BY <1>14, EntryType, ChannelAssumption
       DEF EstablishNew, ClearStores, TypeOK, Outcome, Lifetime
<1>15. ASSUME NEW r \in Req, CloudSend(r) PROVE TypeOK'
    BY <1>15, MsgType DEF CloudSend, TypeOK
<1>16. ASSUME NEW m \in toCloud, CloudReply(m) PROVE TypeOK'
    <2>1. m.id \in Id
        BY <1>16 DEF CloudReply, TypeOK, Request, Reply
    <2> QED BY <1>16, <2>1, MsgType DEF CloudReply, TypeOK
<1>17. CASE Tick
    <2>1. client' \in [Id -> Entry] /\ server' \in [Req -> Entry]
        BY <1>17, AgeType DEF Tick, TypeOK
    <2>2. toCloud' \subseteq Request(Id) \cup Reply(Req)
        BY <1>17, ChannelAssumption DEF Tick, TypeOK, Older, Request, Reply
    <2>3. toDevice' \subseteq Request(Req) \cup Reply(Id)
        BY <1>17, ChannelAssumption DEF Tick, TypeOK, Older, Request, Reply
    <2>4. reqAge' \in [Req -> 0 .. Lifetime + 1]
        BY <1>17, ChannelAssumption DEF Tick, TypeOK, Lifetime
    <2> QED BY <1>17, <2>1, <2>2, <2>3, <2>4 DEF Tick, TypeOK
<1>18. CASE UNCHANGED vars
    BY <1>18 DEF vars, TypeOK
<1> QED
    BY <1>1, <1>2, <1>3, <1>4, <1>5, <1>6, <1>7, <1>8, <1>9, <1>10, <1>11, <1>12,
       <1>13, <1>14, <1>15, <1>16, <1>17, <1>18
       DEF Next, EventLoop, SyncLoop

\* Type correctness of the channel: in particular the transmission counter and
\* the deadlines stay in range, and replies and requests are never confused.
THEOREM TypeCorrect == Spec => []TypeOK
<1> QED BY InitType, NextType, PTL DEF Spec

-----------------------------------------------------------------------------
(* Duplicate detection *)

\* An entry that is not due survives process() unchanged.
LEMMA ProcessKeeps ==
    ASSUME NEW S, NEW store \in [S -> Entry], NEW wait, NEW id \in S,
           store[id].timer # 0
    PROVE  Process(store, wait)[id] = store[id]
BY DEF Process, Expired, Retransmitted, Due

\* A pass over the server store forgets no request before its deadline.
LEMMA ServerAfterPass ==
    ASSUME NEW c, NEW s \in [Req -> Entry], NEW sess, NEW out,
           ProcessStores(c, s, sess, out), NEW r \in Req, s[r].timer # 0
    PROVE  server'[r] = s[r]
BY ProcessKeeps DEF ProcessStores

\* A pass that starts from the current server store keeps Remembered.
LEMMA PassRemembers ==
    ASSUME TypeOK, DedupInv, NEW c, NEW sess, NEW out,
           ProcessStores(c, server, sess, out), UNCHANGED <<cloudVars, handled, toDevice>>
    PROVE  DedupInv'
<1>1. ASSUME NEW r \in Req, handled'[r] >= 1
      PROVE  /\ r \in started'
             /\ \/ reqAge'[r] > Lifetime
                \/ Stored(server', r) /\ server'[r].timer + reqAge'[r] > Lifetime
    <2>1. /\ r \in started
          /\ \/ reqAge[r] > Lifetime
             \/ Stored(server, r) /\ server[r].timer + reqAge[r] > Lifetime
        BY <1>1 DEF DedupInv, Remembered, cloudVars
    <2>2. CASE reqAge[r] > Lifetime
        BY <2>1, <2>2 DEF cloudVars
    <2>3. CASE ~ (reqAge[r] > Lifetime)
        <3>1. server[r] \in Entry /\ reqAge[r] \in Nat /\ Lifetime \in Nat
            BY ChannelAssumption DEF TypeOK, Lifetime
        <3>2. server[r].timer # 0
            BY <2>1, <2>3, <3>1 DEF Entry
        <3>3. server'[r] = server[r]
            BY <3>2, ServerAfterPass DEF TypeOK
        <3> QED BY <2>1, <2>3, <3>3 DEF cloudVars, Stored
    <2> QED BY <2>2, <2>3
<1>2. Remembered'
    BY <1>1 DEF Remembered
<1> QED BY <1>2 DEF DedupInv, AtMostOnce, CopiesExpire, cloudVars

\* A copy that arrives while its request is not stored is the first the
\* application sees.
LEMMA UnknownIsNew ==
    ASSUME TypeOK, DedupInv, NEW m \in toDevice, m.type = "CON", ~ Stored(server, m.id)
    PROVE  /\ m.id \in Req /\ m.id \in started
           /\ handled[m.id] = 0
           /\ reqAge[m.id] <= Lifetime
<1>1. m.id \in Req
    BY RequestsType
<1>2. m.ttl \in Nat /\ reqAge[m.id] \in Nat /\ Lifetime \in Nat /\ handled[m.id] \in Nat
    BY <1>1, ChannelAssumption DEF TypeOK, Request, Reply, Lifetime
<1>3. m.id \in started /\ m.ttl + reqAge[m.id] <= Lifetime
    BY DEF DedupInv, CopiesExpire
<1>4. ~ (reqAge[m.id] > Lifetime)
    BY <1>2, <1>3
<1>5. ~ (handled[m.id] >= 1)
    BY <1>1, <1>4 DEF DedupInv, Remembered
<1> QED BY <1>1, <1>2, <1>3, <1>4, <1>5

LEMMA InitDedup == Init => DedupInv
BY DEF Init, DedupInv, AtMostOnce, CopiesExpire, Remembered

LEMMA NextDedup == TypeOK /\ DedupInv /\ [Next]_vars => DedupInv'
<1> SUFFICES ASSUME TypeOK, DedupInv, [Next]_vars PROVE DedupInv'
    OBVIOUS
<1>1. CASE UNCHANGED <<server, toDevice, cloudVars, handled>>
    BY <1>1 DEF DedupInv, AtMostOnce, CopiesExpire, Remembered, cloudVars, Stored
<1>2. CASE AnswerRequest
    <2>1. handling \in Req /\ server' = [server EXCEPT ![handling] = Expiring("ACK")]
        BY <1>2 DEF AnswerRequest, TypeOK, Add
    <2>2. Remembered'
        <3> SUFFICES ASSUME NEW r \in Req, handled'[r] >= 1
                     PROVE  /\ r \in started'
                            /\ \/ reqAge'[r] > Lifetime
                               \/ Stored(server', r) /\ server'[r].timer + reqAge'[r] > Lifetime
            BY DEF Remembered
        <3>1. CASE r = handling
            <4>1. server'[r] = Expiring("ACK")
                BY <2>1, <3>1 DEF TypeOK
            <4>2. Stored(server', r) /\ server'[r].timer = Span
                BY <4>1 DEF Stored, Expiring
            <4>3. r \in started' /\ reqAge'[r] \in Nat
                BY <1>2, ChannelAssumption
                   DEF AnswerRequest, cloudVars, history, TypeOK, Lifetime, DedupInv, Remembered
            <4>4. Span + reqAge'[r] > Lifetime
                BY <4>3, ChannelAssumption, StoreAssumption DEF Lifetime
            <4> QED BY <4>2, <4>3, <4>4
        <3>2. CASE r # handling
            BY <1>2, <2>1, <3>2 DEF AnswerRequest, cloudVars, history, Stored, TypeOK,
                   DedupInv, Remembered
        <3> QED BY <3>1, <3>2
    <2> QED BY <1>2, <2>2 DEF AnswerRequest, DedupInv, AtMostOnce, CopiesExpire, cloudVars, history
<1>3. CASE ReceiveNothing
    BY <1>3, PassRemembers DEF ReceiveNothing
<1>4. CASE ReceiveError
    BY <1>4, PassRemembers DEF ReceiveError, netVars
<1>5. ASSUME NEW m \in toDevice, ReceiveReply(m) PROVE DedupInv'
    BY <1>5, PassRemembers DEF ReceiveReply
<1>6. ASSUME NEW m \in toDevice, ReceiveDuplicate(m) PROVE DedupInv'
    BY <1>6, PassRemembers DEF ReceiveDuplicate
<1>7. ASSUME NEW m \in toDevice, ReceiveNewRequest(m) PROVE DedupInv'
    <2> DEFINE s == Add(server, m.id, Expiring("CON"))
    <2>1. /\ m.id \in Req /\ m.id \in started
          /\ handled[m.id] = 0 /\ reqAge[m.id] <= Lifetime
        BY <1>7, UnknownIsNew DEF ReceiveNewRequest
    <2>2. s \in [Req -> Entry]
        BY StoreUpdateType, EntryType DEF TypeOK, Kind
    <2>3. /\ ProcessStores(client, s, session, outcome)
          /\ handled' = [handled EXCEPT ![m.id] = @ + 1]
          /\ UNCHANGED <<toDevice, cloudVars>>
        BY <1>7 DEF ReceiveNewRequest
    <2>4. AtMostOnce'
        BY <2>1, <2>3 DEF AtMostOnce, DedupInv, TypeOK
    <2>5. Remembered'
        <3> SUFFICES ASSUME NEW r \in Req, handled'[r] >= 1
                     PROVE  /\ r \in started'
                            /\ \/ reqAge'[r] > Lifetime
                               \/ Stored(server', r) /\ server'[r].timer + reqAge'[r] > Lifetime
            BY DEF Remembered
        <3>1. CASE r = m.id
            <4>1. s[r] = Expiring("CON") /\ s[r].timer = Span
                BY <3>1 DEF s, Add, TypeOK, Expiring
            <4>2. server'[r] = s[r]
                BY <2>2, <2>3, <4>1, StoreAssumption, ServerAfterPass
            <4> QED BY <2>1, <2>3, <3>1, <4>1, <4>2, StoreAssumption, ChannelAssumption
                    DEF cloudVars, Stored, Expiring, TypeOK, Lifetime
        <3>2. CASE r # m.id
            <4>1. handled[r] >= 1 /\ s[r] = server[r]
                BY <2>3, <3>2 DEF s, Add, TypeOK
            <4>2. /\ r \in started
                  /\ \/ reqAge[r] > Lifetime
                     \/ Stored(server, r) /\ server[r].timer + reqAge[r] > Lifetime
                BY <4>1 DEF DedupInv, Remembered
            <4>3. CASE reqAge[r] > Lifetime
                BY <2>3, <4>2, <4>3 DEF cloudVars
            <4>4. CASE ~ (reqAge[r] > Lifetime)
                <5>1. server[r] \in Entry /\ reqAge[r] \in Nat /\ Lifetime \in Nat
                    BY ChannelAssumption DEF TypeOK, Lifetime
                <5>2. s[r].timer # 0
                    BY <4>1, <4>2, <4>4, <5>1 DEF Entry
                <5>3. server'[r] = server[r]
                    BY <2>2, <2>3, <4>1, <5>2, ServerAfterPass
                <5> QED BY <2>3, <4>2, <4>4, <5>3 DEF cloudVars, Stored
            <4> QED BY <4>3, <4>4
        <3> QED BY <3>1, <3>2
    <2> QED BY <2>3, <2>4, <2>5 DEF DedupInv, CopiesExpire, cloudVars
<1>8. CASE EstablishResumed
    BY <1>8 DEF EstablishResumed, ClearStores, DedupInv, AtMostOnce, CopiesExpire, Remembered,
       netVars, cloudVars
<1>9. CASE EstablishNew
    BY <1>9 DEF EstablishNew, ClearStores, DedupInv, AtMostOnce, CopiesExpire, Remembered
<1>10. ASSUME NEW r \in Req, CloudSend(r) PROVE DedupInv'
    <2>1. MaxLatency + reqAge[r] <= Lifetime
        BY <1>10, ChannelAssumption DEF CloudSend, DedupInv, Lifetime, TypeOK
    <2>2. CopiesExpire'
        BY <1>10, <2>1 DEF CloudSend, CopiesExpire, DedupInv, Msg, TypeOK
    <2> QED BY <1>10, <2>2 DEF CloudSend, DedupInv, AtMostOnce, Remembered, deviceVars, history, Stored
<1>11. ASSUME NEW m \in toCloud, CloudReply(m) PROVE DedupInv'
    BY <1>11 DEF CloudReply, DedupInv, AtMostOnce, CopiesExpire, Remembered, Msg, deviceVars,
       cloudVars, Stored
<1>12. CASE Tick
    <2>1. CopiesExpire'
        <3> SUFFICES ASSUME NEW m \in toDevice', m.type = "CON"
                     PROVE  m.id \in started' /\ m.ttl + reqAge'[m.id] <= Lifetime
            BY DEF CopiesExpire
        <3>1. PICK x \in toDevice : x.ttl > 0 /\ m = [x EXCEPT !.ttl = @ - 1]
            BY <1>12 DEF Tick, Older
        <3>2. x \in Request(Req)
            BY <3>1 DEF TypeOK, Request, Reply
        <3>3. m.id = x.id /\ m.ttl = x.ttl - 1 /\ x.type = "CON" /\ x.ttl \in Nat /\ x.id \in Req
            BY <3>1, <3>2, ChannelAssumption DEF Request
        <3>4. x.id \in started /\ x.ttl + reqAge[x.id] <= Lifetime
            BY <3>3 DEF DedupInv, CopiesExpire
        <3>5. reqAge'[x.id] <= reqAge[x.id] + 1 /\ reqAge'[x.id] \in Nat /\ reqAge[x.id] \in Nat
            BY <1>12, <3>3, ChannelAssumption DEF Tick, TypeOK, Lifetime
        <3> QED BY <1>12, <3>3, <3>4, <3>5, ChannelAssumption DEF Tick, Lifetime
    <2>2. Remembered'
        <3> SUFFICES ASSUME NEW r \in Req, handled'[r] >= 1
                     PROVE  /\ r \in started'
                            /\ \/ reqAge'[r] > Lifetime
                               \/ Stored(server', r) /\ server'[r].timer + reqAge'[r] > Lifetime
            BY DEF Remembered
        <3>1. /\ r \in started
              /\ \/ reqAge[r] > Lifetime
                 \/ Stored(server, r) /\ server[r].timer + reqAge[r] > Lifetime
            BY <1>12 DEF Tick, history, DedupInv, Remembered
        <3>2. server[r] \in Entry /\ reqAge[r] \in Nat /\ Lifetime \in Nat
            BY ChannelAssumption DEF TypeOK, Lifetime
        <3>3. server'[r] = [server[r] EXCEPT !.timer = IF @ = 0 THEN 0 ELSE @ - 1]
            BY <1>12 DEF Tick, Age, TypeOK
        <3>4. server'[r].kind = server[r].kind
            BY <3>2, <3>3 DEF Entry
        <3>5. server'[r].timer = IF server[r].timer = 0 THEN 0 ELSE server[r].timer - 1
            BY <3>2, <3>3 DEF Entry
        <3>6. reqAge'[r] = IF reqAge[r] <= Lifetime THEN reqAge[r] + 1 ELSE reqAge[r]
            BY <1>12, <3>1 DEF Tick
        <3> QED BY <1>12, <3>1, <3>2, <3>4, <3>5, <3>6 DEF Tick, Stored, Entry
    <2> QED BY <1>12, <2>1, <2>2 DEF Tick, DedupInv, AtMostOnce, history
<1>13. CASE SyncReceiveNothing \/ SyncReceiveError \/ \E m \in toDevice : SyncReceiveReply(m)
    BY <1>1, <1>13 DEF SyncReceiveNothing, SyncReceiveError, SyncReceiveReply, SyncStep
<1>14. CASE SendRequest \/ SendSynchronous \/ DropRequest \/ UNCHANGED vars
    BY <1>1, <1>14 DEF SendRequest, SendSynchronous, DropRequest, vars, deviceVars, netVars,
       cloudVars, history
<1> QED
    BY <1>2, <1>3, <1>4, <1>5, <1>6, <1>7, <1>8, <1>9, <1>10, <1>11, <1>12, <1>13, <1>14
       DEF Next, EventLoop, SyncLoop

\* CoAPMessageStore::receive filters duplicates: for any number of requests and
\* messages, if no copy of a request can arrive later than Span after the
\* first, the application handles each request at most once in a session.
THEOREM HandledAtMostOnce == Spec => []AtMostOnce
<1>1. DedupInv => AtMostOnce
    BY DEF DedupInv
<1> QED BY <1>1, InitType, NextType, InitDedup, NextDedup, PTL DEF Spec

-----------------------------------------------------------------------------
(* What becomes of the messages of the device: the invariants the channel  *)
(* keeps about outcomes, transmissions and the delivered handler, and the  *)
(* refinement of ConfirmableExchange that they support.                    *)

\* What relates the client store c to the outcomes out while the session is
\* sess, also in the middle of a receive, before process() has run.
Agree(c, sess, out) ==
    /\ \A i \in Id : Stored(c, i) <=> out[i] = "pending"
    /\ \A i \in Id : Stored(c, i) => c[i].kind = "CON" /\ sent[i] <= c[i].count
    /\ \A i \in Id : c[i].notify => i = sync
    /\ \A i \in Id : out[i] = "acked" => i \in got
    /\ (\E i \in Id : out[i] \in {"lost", "reset"}) => sess = "closed"

\* A reply in flight answers a message the cloud has received.
RepliesAreGenuine == \A m \in toDevice : m.type # "CON" => m.id \in got

\* The request being handled is in the server store, not yet answered.
HandledIsStored == handling # None => server[handling].kind = "CON"

DeliveryInv ==
    /\ Agree(client, session, outcome)
    /\ TransmitBound
    /\ RepliesAreGenuine
    /\ HandledIsStored
    /\ sync # None => client[sync].notify

-----------------------------------------------------------------------------
(* One pass of process() over the messages of the device *)

\* process() gives a due request up, retransmits it or leaves it alone.
LEMMA ProcessEffect ==
    ASSUME NEW c \in [Id -> Entry], NEW wait \in Waits(c), NEW i \in Id,
           Stored(c, i) => c[i].kind = "CON"
    PROVE  /\ i \in GivenUp(c) => Stored(c, i) /\ Process(c, wait)[i] = NoEntry
           /\ i \in Retransmitted(c) =>
                 /\ Stored(c, i) /\ c[i].count <= MaxRetransmit
                 /\ Process(c, wait)[i] = [c[i] EXCEPT !.count = @ + 1, !.timer = wait[i]]
           /\ i \notin GivenUp(c) \cup Retransmitted(c) => Process(c, wait)[i] = c[i]
<1>1. i \in Expired(c) <=> i \in GivenUp(c)
    BY DEF GivenUp, Expired, Due
<1>2. i \in Retransmitted(c) => i \notin Expired(c)
    BY DEF Expired
<1> QED BY <1>1, <1>2 DEF Process, GivenUp, Expired, Retransmitted, Due

\* A message leaves the store in process() exactly when it is given up, and the
\* others keep their handler.
LEMMA ProcessOutcome ==
    ASSUME NEW c \in [Id -> Entry], NEW wait \in Waits(c), NEW i \in Id,
           Stored(c, i) => c[i].kind = "CON"
    PROVE  /\ Stored(c, i) /\ ~ Stored(Process(c, wait), i) <=> i \in GivenUp(c)
           /\ Stored(Process(c, wait), i) =>
                 Stored(c, i) /\ Process(c, wait)[i].notify = c[i].notify
           /\ ~ Stored(c, i) => Process(c, wait)[i] = c[i]
<1>0. /\ i \in GivenUp(c) => Stored(c, i) /\ Process(c, wait)[i] = NoEntry
      /\ i \in Retransmitted(c) =>
            /\ Stored(c, i) /\ c[i].count <= MaxRetransmit
            /\ Process(c, wait)[i] = [c[i] EXCEPT !.count = @ + 1, !.timer = wait[i]]
      /\ i \notin GivenUp(c) \cup Retransmitted(c) => Process(c, wait)[i] = c[i]
    BY ProcessEffect
<1>1. i \in GivenUp(c) => Stored(c, i) /\ ~ Stored(Process(c, wait), i)
    BY <1>0 DEF NoEntry, Stored
<1>2. ~ Stored(c, i) => i \notin GivenUp(c) \cup Retransmitted(c)
    BY <1>0
<1>3. CASE i \in Retransmitted(c)
    <2>1. Process(c, wait)[i] = [c[i] EXCEPT !.count = @ + 1, !.timer = wait[i]]
        BY <1>0, <1>3
    <2>2. c[i] \in Entry
        OBVIOUS
    <2>3. Process(c, wait)[i].kind = c[i].kind /\ Process(c, wait)[i].notify = c[i].notify
        BY <2>1, <2>2 DEF Entry
    <2> QED BY <1>1, <1>2, <1>3, <2>3 DEF Stored
<1>4. CASE i \notin Retransmitted(c) /\ i \notin GivenUp(c)
    <2>1. Process(c, wait)[i] = c[i]
        BY <1>0, <1>4
    <2> QED BY <1>1, <1>4, <2>1 DEF Stored
<1> QED BY <1>1, <1>3, <1>4

\* What the two ways to process the client store have in common: the messages
\* in `lost' are gone and reported, the retransmitted ones are counted.
LEMMA Agreement ==
    ASSUME TypeOK, TransmitBound, NEW c \in [Id -> Entry], NEW wait \in Waits(c),
           NEW sess, NEW out, Agree(c, sess, out),
           NEW i \in Id, NEW entry \in {Process(c, wait)[i], NoEntry},
           NEW n, n = IF i \in Retransmitted(c) THEN sent[i] + 1 ELSE sent[i],
           NEW o, o = IF i \in GivenUp(c) \/ (entry = NoEntry /\ Stored(c, i)) THEN "lost" ELSE out[i]
    PROVE  /\ entry.kind # "none" <=> o = "pending"
           /\ entry.kind # "none" => entry.kind = "CON" /\ n <= entry.count
           /\ entry.notify => i = sync
           /\ o = "acked" => i \in got
           /\ n <= MaxRetransmit + 1
           /\ o # out[i] => out[i] = "pending" /\ o = "lost"
           /\ entry.notify => c[i].notify
           /\ entry # NoEntry => entry.notify = c[i].notify
<1>1. c[i] \in Entry /\ sent[i] \in Nat /\ MaxRetransmit \in Nat
    BY StoreAssumption DEF TypeOK
<1>2. /\ Stored(c, i) <=> out[i] = "pending"
      /\ Stored(c, i) => c[i].kind = "CON" /\ sent[i] <= c[i].count
      /\ c[i].notify => i = sync
      /\ out[i] = "acked" => i \in got
      /\ sent[i] <= MaxRetransmit + 1
    BY DEF Agree, TransmitBound
<1>3. /\ i \in GivenUp(c) => Stored(c, i) /\ Process(c, wait)[i] = NoEntry
      /\ i \in Retransmitted(c) =>
            /\ Stored(c, i) /\ c[i].count <= MaxRetransmit
            /\ Process(c, wait)[i] = [c[i] EXCEPT !.count = @ + 1, !.timer = wait[i]]
      /\ i \notin GivenUp(c) \cup Retransmitted(c) => Process(c, wait)[i] = c[i]
    BY <1>2, ProcessEffect
<1>4. CASE entry = NoEntry
    <2>1. o = IF Stored(c, i) THEN "lost" ELSE out[i]
        BY <1>3, <1>4
    <2>2. n <= MaxRetransmit + 1
        BY <1>1, <1>2, <1>3 DEF Entry, Count
    <2> QED BY <1>2, <1>4, <2>1, <2>2 DEF NoEntry, Stored
<1>5. CASE entry # NoEntry /\ i \in Retransmitted(c)
    <2>1. i \notin GivenUp(c)
        BY <1>3, <1>5
    <2>2. n = sent[i] + 1 /\ o = out[i]
        BY <1>5, <2>1
    <2>3. /\ entry.kind = c[i].kind /\ entry.notify = c[i].notify
          /\ entry.count = c[i].count + 1
        BY <1>1, <1>3, <1>5 DEF Entry
    <2> QED BY <1>1, <1>2, <1>3, <1>5, <2>2, <2>3 DEF Entry, Count, Stored
<1>6. CASE entry # NoEntry /\ i \notin Retransmitted(c)
    <2>1. entry = c[i] /\ n = sent[i] /\ o = out[i]
        BY <1>3, <1>6
    <2> QED BY <1>2, <2>1 DEF Stored
<1> QED BY <1>4, <1>5, <1>6

-----------------------------------------------------------------------------
(* The receive loops *)

\* What a step may do to the outcomes, starting from out and the session sess:
\* nothing but give pending messages up, and then the session closes.
OnlyLosses(sess, out) ==
    /\ session' \in {sess, "closed"}
    /\ \A i \in Id : outcome'[i] # out[i] =>
            out[i] = "pending" /\ outcome'[i] = "lost" /\ session' = "closed"

\* A pass over both stores keeps client store, outcomes and session in agreement.
LEMMA PassAgrees ==
    ASSUME TypeOK, TransmitBound, NEW c \in [Id -> Entry], NEW s, NEW sess,
           NEW out, Agree(c, sess, out),
           ProcessStores(c, s, sess, out), UNCHANGED <<sync, got>>
    PROVE  /\ Agree(client, session, outcome)'
           /\ TransmitBound'
           /\ OnlyLosses(sess, out)
           /\ \A i \in Id : client'[i].notify => c[i].notify
<1> PICK cw \in Waits(c), sw \in Waits(s), failed \in BOOLEAN :
        /\ client' = Process(c, cw)
        /\ session' = IF \/ GivenUp(c) \cup GivenUp(s) # {}
                         \/ failed /\ Retransmitted(c) # {}
                      THEN "closed" ELSE sess
        /\ sent' = [i \in Id |-> IF i \in Retransmitted(c) THEN sent[i] + 1 ELSE sent[i]]
        /\ outcome' = [i \in Id |-> IF i \in GivenUp(c) THEN "lost" ELSE out[i]]
    BY DEF ProcessStores
<1>1. ASSUME NEW i \in Id
      PROVE  /\ Stored(client', i) <=> outcome'[i] = "pending"
             /\ Stored(client', i) => client'[i].kind = "CON" /\ sent'[i] <= client'[i].count
             /\ client'[i].notify => i = sync
             /\ outcome'[i] = "acked" => i \in got
             /\ sent'[i] <= MaxRetransmit + 1
             /\ outcome'[i] # out[i] => out[i] = "pending" /\ outcome'[i] = "lost"
             /\ client'[i].notify => c[i].notify
    <2>1. Process(c, cw)[i] = NoEntry /\ Stored(c, i) => i \in GivenUp(c)
        BY ProcessOutcome DEF Agree, NoEntry, Stored
    <2>2. outcome'[i] = IF i \in GivenUp(c) \/ (Process(c, cw)[i] = NoEntry /\ Stored(c, i))
                        THEN "lost" ELSE out[i]
        BY <2>1
    <2>3. sent'[i] = IF i \in Retransmitted(c) THEN sent[i] + 1 ELSE sent[i]
        OBVIOUS
    <2> QED BY <2>2, <2>3, Agreement DEF Stored
<1>2. \A i \in Id : outcome'[i] # out[i] => session' = "closed"
    OBVIOUS
<1>3. (\E i \in Id : outcome'[i] \in {"lost", "reset"}) => session' = "closed"
    BY <1>2 DEF Agree
<1> QED BY <1>1, <1>2, <1>3 DEF Agree, TransmitBound, OnlyLosses

\* A pass of the loop of send_synchronous does so too, and either the loop goes
\* on with the handler set or nothing points at it any more.
LEMMA SyncAgrees ==
    ASSUME TypeOK, TransmitBound, sync # None, NEW c \in [Id -> Entry], NEW sess,
           NEW error \in BOOLEAN, NEW out, Agree(c, sess, out),
           SyncStep(c, sess, error, out),
           error => sess = "closed",
           Stored(c, sync) => c[sync].notify
    PROVE  /\ Agree(client, session, outcome)'
           /\ TransmitBound'
           /\ OnlyLosses(sess, out)
           /\ sync' # None => client'[sync'].notify
<1> PICK cw \in Waits(c), failed \in BOOLEAN :
        LET processed == Process(c, cw)
            leaves    == error \/ ~ Stored(processed, sync)
            dropped   == leaves /\ Stored(processed, sync)
        IN  /\ client' = IF leaves THEN ClearMessage(processed, sync) ELSE processed
            /\ sync' = IF leaves THEN None ELSE sync
            /\ session' = IF GivenUp(c) # {} \/ (failed /\ Retransmitted(c) # {})
                          THEN "closed" ELSE sess
            /\ sent' = [i \in Id |-> IF i \in Retransmitted(c) THEN sent[i] + 1 ELSE sent[i]]
            /\ outcome' = [i \in Id |-> IF i \in GivenUp(c) \/ (dropped /\ i = sync)
                                        THEN "lost" ELSE out[i]]
            /\ UNCHANGED got
    BY DEF SyncStep
<1> DEFINE processed == Process(c, cw)
           leaves    == error \/ ~ Stored(processed, sync)
<1>0. sync \in Id /\ DOMAIN processed = Id
    BY DEF TypeOK, Process
<1>1. ASSUME NEW i \in Id
      PROVE  /\ Stored(client', i) <=> outcome'[i] = "pending"
             /\ Stored(client', i) => client'[i].kind = "CON" /\ sent'[i] <= client'[i].count
             /\ client'[i].notify => i = sync
             /\ client'[i].notify => ~ leaves
             /\ outcome'[i] = "acked" => i \in got
             /\ sent'[i] <= MaxRetransmit + 1
             /\ outcome'[i] # out[i] => out[i] = "pending" /\ outcome'[i] = "lost"
             /\ outcome'[i] # out[i] => i \in GivenUp(c) \/ error
    <2>1. client'[i] = IF leaves /\ i = sync THEN NoEntry ELSE processed[i]
        BY <1>0 DEF ClearMessage
    <2>2. client'[i] \in {Process(c, cw)[i], NoEntry}
        BY <2>1
    <2>3. Stored(c, i) => c[i].kind = "CON"
        BY DEF Agree
    <2>4. /\ ~ Stored(c, i) => processed[i] = c[i]
          /\ Stored(c, i) /\ ~ Stored(processed, i) <=> i \in GivenUp(c)
        BY <2>3, ProcessOutcome
    <2>5. outcome'[i] = IF i \in GivenUp(c) \/ (client'[i] = NoEntry /\ Stored(c, i))
                        THEN "lost" ELSE out[i]
        BY <2>1, <2>4 DEF Stored, NoEntry
    <2>6. sent'[i] = IF i \in Retransmitted(c) THEN sent[i] + 1 ELSE sent[i]
        OBVIOUS
    <2>7. /\ Stored(client', i) <=> outcome'[i] = "pending"
          /\ Stored(client', i) => client'[i].kind = "CON" /\ sent'[i] <= client'[i].count
          /\ client'[i].notify => i = sync
          /\ outcome'[i] = "acked" => i \in got
          /\ sent'[i] <= MaxRetransmit + 1
          /\ outcome'[i] # out[i] => out[i] = "pending" /\ outcome'[i] = "lost"
        BY <2>2, <2>5, <2>6, Agreement DEF Stored
    <2>8. outcome'[i] # out[i] => i \in GivenUp(c) \/ error
        OBVIOUS
    <2> QED BY <2>1, <2>7, <2>8 DEF NoEntry
<1>2. \A i \in Id : outcome'[i] # out[i] => session' = "closed"
    BY <1>1
<1>3. (\E i \in Id : outcome'[i] \in {"lost", "reset"}) => session' = "closed"
    BY <1>2 DEF Agree
<1>4. ASSUME sync' # None PROVE client'[sync'].notify
    <2>1. ~ leaves /\ sync' = sync /\ client' = processed /\ Stored(processed, sync)
        BY <1>4
    <2>2. Stored(c, sync) => c[sync].kind = "CON"
        BY <1>0 DEF Agree
    <2>3. Stored(c, sync) /\ processed[sync].notify = c[sync].notify
        BY <1>0, <2>1, <2>2, ProcessOutcome
    <2> QED BY <2>1, <2>3
<1>5. \A i \in Id : client'[i].notify => i = sync'
    BY <1>1
<1>6. got' = got
    OBVIOUS
<1>7. session' \in {sess, "closed"}
    OBVIOUS
<1> HIDE DEF processed, leaves
<1> QED BY <1>1, <1>2, <1>3, <1>4, <1>5, <1>6, <1>7 DEF Agree, TransmitBound, OnlyLosses

-----------------------------------------------------------------------------
(* The invariant is inductive *)

\* Removing the message that a reply concludes keeps the agreement.
LEMMA ReplyAgrees ==
    ASSUME TypeOK, DeliveryInv, NEW m \in toDevice, m.type \in {"ACK", "RESET"}
    PROVE  /\ Agree(AfterReply(m), SessionAfterReply(m), Concluded(m))
           /\ \A i \in Id : AfterReply(m)[i].notify => client[i].notify
           /\ \A i \in Id : Stored(AfterReply(m), i) => AfterReply(m)[i] = client[i]
<1>1. m.id \in Id /\ m.id \in got
    BY RepliesConcludeType DEF DeliveryInv, RepliesAreGenuine
<1>2. AfterReply(m) = [i \in Id |-> IF i = m.id THEN NoEntry ELSE client[i]]
    BY <1>1 DEF AfterReply, ClearMessage, TypeOK
<1>3. \A i \in Id : Concluded(m)[i] =
            IF i = m.id /\ Stored(client, i)
            THEN IF m.type = "ACK" THEN "acked" ELSE "reset"
            ELSE outcome[i]
    BY <1>1 DEF Concluded, TypeOK
<1>4. ASSUME NEW i \in Id, Concluded(m)[i] \in {"lost", "reset"}
      PROVE  SessionAfterReply(m) = "closed"
    BY <1>3, <1>4 DEF SessionAfterReply, DeliveryInv, Agree
<1>5. ASSUME NEW i \in Id
      PROVE  /\ Stored(AfterReply(m), i) <=> Concluded(m)[i] = "pending"
             /\ Stored(AfterReply(m), i) => AfterReply(m)[i] = client[i] /\ Stored(client, i)
             /\ AfterReply(m)[i].notify => client[i].notify
             /\ Concluded(m)[i] = "acked" => i \in got
    BY <1>1, <1>2, <1>3 DEF DeliveryInv, Agree, Stored, NoEntry
<1> QED BY <1>4, <1>5 DEF DeliveryInv, Agree

LEMMA InitDelivery == Init => DeliveryInv
BY StoreAssumption, ChannelAssumption
   DEF Init, DeliveryInv, Agree, TransmitBound, RepliesAreGenuine, HandledIsStored, Stored, NoEntry

\* A message that send() adds to the store.
LEMMA SendAgrees ==
    ASSUME TypeOK, DeliveryInv, NEW i \in Id, IdRetired(i), NEW entry \in Entry,
           entry = NoEntry \/ (entry.kind = "CON" /\ entry.count = 1),
           entry.notify => sync' = i,
           sync = None,
           client' = [client EXCEPT ![i] = entry],
           sent' = [sent EXCEPT ![i] = 1],
           outcome' = [outcome EXCEPT ![i] = IF entry = NoEntry THEN "lost" ELSE "pending"],
           entry = NoEntry => session' = "closed",
           session' \in {session, "closed"},
           got' = got \ {i}, UNCHANGED toDevice
    PROVE  Agree(client, session, outcome)' /\ TransmitBound' /\ RepliesAreGenuine'
<1>1. \A j \in Id : ~ client[j].notify
    BY ChannelAssumption DEF DeliveryInv, Agree, Id
<1>2. ASSUME NEW j \in Id
      PROVE  /\ Stored(client', j) <=> outcome'[j] = "pending"
             /\ Stored(client', j) => client'[j].kind = "CON" /\ sent'[j] <= client'[j].count
             /\ client'[j].notify => j = sync'
             /\ outcome'[j] = "acked" => j \in got'
             /\ outcome'[j] \in {"lost", "reset"} => session' = "closed"
             /\ sent'[j] <= MaxRetransmit + 1
    <2>1. CASE j = i
        BY <2>1, StoreAssumption DEF TypeOK, Stored, NoEntry
    <2>2. CASE j # i
        BY <1>1, <2>2 DEF TypeOK, Stored, DeliveryInv, Agree, TransmitBound
    <2> QED BY <2>1, <2>2
<1>3. RepliesAreGenuine'
    BY DEF RepliesAreGenuine, DeliveryInv, IdRetired
<1> QED BY <1>2, <1>3 DEF Agree, TransmitBound

LEMMA NextDelivery == TypeOK /\ DeliveryInv /\ [Next]_vars => DeliveryInv'
<1> SUFFICES ASSUME TypeOK, DeliveryInv, [Next]_vars PROVE DeliveryInv'
    OBVIOUS
<1> USE DEF deviceVars, cloudVars, netVars, history
<1>0. /\ Agree(client, session, outcome) /\ TransmitBound /\ RepliesAreGenuine
      /\ HandledIsStored /\ (sync # None => client[sync].notify)
    BY DEF DeliveryInv
<1>a. Agree(client, "closed", outcome)
    BY <1>0 DEF Agree
<1>b. NextId \in Id /\ None \notin Id
    BY ChannelAssumption DEF NextId, Id, TypeOK
<1>c. CASE UNCHANGED <<client, server, session, sync, handling, toDevice, sent, outcome, got>>
    BY <1>c, <1>0 DEF DeliveryInv, Agree, TransmitBound, RepliesAreGenuine, HandledIsStored, Stored
<1>1. CASE SendRequest
    <2> PICK wait \in TransmitTimeout(0), ok \in BOOLEAN :
            /\ sync = None /\ IdRetired(NextId)
            /\ client' = Add(client, NextId, NewRequest(wait))
            /\ session' = IF ok THEN session ELSE "closed"
            /\ sent' = [sent EXCEPT ![NextId] = 1]
            /\ outcome' = [outcome EXCEPT ![NextId] = "pending"]
            /\ got' = got \ {NextId}
            /\ UNCHANGED <<server, sync, handling, toDevice>>
        BY <1>1 DEF SendRequest
    <2>1. NewRequest(wait) \in Entry
        BY EntryType, TransmitTimeoutType
    <2>2. /\ NewRequest(wait).kind = "CON" /\ NewRequest(wait).count = 1
          /\ ~ NewRequest(wait).notify /\ NewRequest(wait) # NoEntry
        BY DEF NewRequest, NoEntry
    <2>3. Agree(client, session, outcome)' /\ TransmitBound' /\ RepliesAreGenuine'
        BY <1>b, <2>1, <2>2, SendAgrees DEF Add
    <2> QED BY <1>0, <2>3 DEF DeliveryInv, HandledIsStored
<1>2. CASE SendSynchronous
    <2> PICK wait \in TransmitTimeout(0), ok \in BOOLEAN :
            /\ sync = None /\ IdRetired(NextId)
            /\ sync' = IF ok THEN NextId ELSE None
            /\ client' = IF ok THEN Add(client, NextId, [NewRequest(wait) EXCEPT !.notify = TRUE])
                               ELSE ClearMessage(client, NextId)
            /\ session' = IF ok THEN session ELSE "closed"
            /\ sent' = [sent EXCEPT ![NextId] = 1]
            /\ outcome' = [outcome EXCEPT ![NextId] = IF ok THEN "pending" ELSE "lost"]
            /\ got' = got \ {NextId}
            /\ UNCHANGED <<server, handling, toDevice>>
        BY <1>2 DEF SendSynchronous
    <2> DEFINE entry == IF ok THEN [NewRequest(wait) EXCEPT !.notify = TRUE] ELSE NoEntry
    <2>1. NewRequest(wait) \in Entry
        BY EntryType, TransmitTimeoutType
    <2>2. entry \in Entry
        BY <2>1, EntryType DEF Entry
    <2>3. /\ ok => entry.kind = "CON" /\ entry.count = 1 /\ entry.notify
          /\ ~ ok => entry = NoEntry /\ ~ entry.notify
        BY DEF NewRequest, NoEntry
    <2>4. entry = NoEntry <=> ~ ok
        BY <2>3 DEF NoEntry
    <2>5. client' = [client EXCEPT ![NextId] = entry]
        BY DEF Add, ClearMessage
    <2> HIDE DEF entry
    <2>6. outcome' = [outcome EXCEPT ![NextId] = IF entry = NoEntry THEN "lost" ELSE "pending"]
        BY <2>4
    <2>7. Agree(client, session, outcome)' /\ TransmitBound' /\ RepliesAreGenuine'
        BY <1>b, <2>2, <2>3, <2>4, <2>5, <2>6, SendAgrees
    <2>8. sync' # None => client'[sync'].notify
        BY <1>b, <2>3, <2>5 DEF TypeOK
    <2> QED BY <1>0, <2>7, <2>8 DEF DeliveryInv, HandledIsStored
<1>3. CASE AnswerRequest \/ DropRequest
    BY <1>0, <1>3 DEF AnswerRequest, DropRequest, DeliveryInv, Agree, TransmitBound,
       RepliesAreGenuine, HandledIsStored, Stored
<1>4. ASSUME InEventLoop, NEW c \in [Id -> Entry], NEW s, NEW sess, NEW out, Agree(c, sess, out),
             ProcessStores(c, s, sess, out), UNCHANGED <<sync, got, toDevice>>, HandledIsStored'
      PROVE  DeliveryInv'
    <2>1. Agree(client, session, outcome)' /\ TransmitBound'
        BY <1>0, <1>4, PassAgrees
    <2> QED BY <1>0, <1>4, <2>1 DEF DeliveryInv, RepliesAreGenuine, InEventLoop
<1>5. CASE ReceiveNothing
    BY <1>0, <1>4, <1>5 DEF ReceiveNothing, HandledIsStored, InEventLoop, TypeOK
<1>6. CASE ReceiveError
    BY <1>a, <1>4, <1>6 DEF ReceiveError, HandledIsStored, InEventLoop, TypeOK
<1>7. ASSUME NEW m \in toDevice, ReceiveReply(m) PROVE DeliveryInv'
    BY <1>4, <1>7, ReplyAgrees, RepliesConcludeType DEF ReceiveReply, HandledIsStored, InEventLoop
<1>8. ASSUME NEW m \in toDevice, ReceiveNewRequest(m) PROVE DeliveryInv'
    <2> DEFINE s == Add(server, m.id, Expiring("CON"))
    <2>1. m.id \in Req
        BY <1>8, RequestsType DEF ReceiveNewRequest
    <2>2. s \in [Req -> Entry]
        BY StoreUpdateType, EntryType DEF TypeOK, Kind
    <2>3. s[m.id].timer # 0 /\ s[m.id].kind = "CON"
        BY <2>1, StoreAssumption DEF Add, TypeOK, Expiring
    <2>4. ProcessStores(client, s, session, outcome) /\ handling' = m.id
        BY <1>8 DEF ReceiveNewRequest
    <2>5. HandledIsStored'
        BY <2>1, <2>2, <2>3, <2>4, ServerAfterPass DEF HandledIsStored
    <2> QED BY <1>0, <1>4, <1>8, <2>5 DEF ReceiveNewRequest, TypeOK
<1>9. ASSUME NEW m \in toDevice, ReceiveDuplicate(m) PROVE DeliveryInv'
    <2>1. PICK sess \in {session, "closed"} : ProcessStores(client, server, sess, outcome)
        BY <1>9 DEF ReceiveDuplicate
    <2>2. Agree(client, sess, outcome)
        BY <1>0, <1>a, <2>1
    <2>3. InEventLoop /\ UNCHANGED <<sync, got, toDevice, handling>> /\ client \in [Id -> Entry]
        BY <1>9 DEF ReceiveDuplicate, TypeOK
    <2>4. HandledIsStored'
        BY <2>3 DEF HandledIsStored, InEventLoop
    <2> QED BY <1>4, <2>1, <2>2, <2>3, <2>4
<1>10. ASSUME sync # None, NEW c \in [Id -> Entry], NEW sess, NEW error \in BOOLEAN, NEW out,
              Agree(c, sess, out), SyncStep(c, sess, error, out), error => sess = "closed",
              Stored(c, sync) => c[sync].notify
       PROVE  DeliveryInv'
    <2>1. /\ Agree(client, session, outcome)' /\ TransmitBound'
          /\ sync' # None => client'[sync'].notify
        BY <1>0, <1>10, SyncAgrees
    <2>2. UNCHANGED <<server, handling, toDevice, got>>
        BY <1>10 DEF SyncStep
    <2> QED BY <1>0, <2>1, <2>2 DEF DeliveryInv, RepliesAreGenuine, HandledIsStored
<1>11. CASE SyncReceiveNothing
    <2>1. (session = "closed") \in BOOLEAN
        OBVIOUS
    <2> QED BY <1>0, <1>10, <1>11, <2>1 DEF SyncReceiveNothing, TypeOK
<1>12. CASE SyncReceiveError
    BY <1>0, <1>a, <1>10, <1>12 DEF SyncReceiveError, TypeOK
<1>13. ASSUME NEW m \in toDevice, SyncReceiveReply(m) PROVE DeliveryInv'
    <2> DEFINE error == m.type = "RESET" /\ m.id = sync
    <2>1. /\ error \in BOOLEAN
          /\ error => SessionAfterReply(m) = "closed"
        BY DEF SessionAfterReply
    <2>2. SyncStep(AfterReply(m), SessionAfterReply(m), error, Concluded(m))
        BY <1>13 DEF SyncReceiveReply
    <2>3. sync \in Id /\ m.type \in {"ACK", "RESET"} /\ sync # None
        BY <1>13 DEF SyncReceiveReply, TypeOK
    <2>4. Stored(AfterReply(m), sync) => AfterReply(m)[sync].notify
        BY <1>0, <2>3, ReplyAgrees
    <2>5. AfterReply(m) \in [Id -> Entry]
        BY <2>3, RepliesConcludeType
    <2>6. Agree(AfterReply(m), SessionAfterReply(m), Concluded(m))
        BY <2>3, ReplyAgrees
    <2> HIDE DEF error
    <2> QED BY <1>10, <2>1, <2>2, <2>3, <2>4, <2>5, <2>6
<1>14. CASE EstablishResumed \/ EstablishNew
    BY <1>0, <1>b, <1>14, StoreAssumption
       DEF EstablishResumed, EstablishNew, ClearStores, InEventLoop, DeliveryInv, Agree,
           TransmitBound, RepliesAreGenuine, HandledIsStored, Stored, NoEntry
<1>15. ASSUME NEW r \in Req, CloudSend(r) PROVE DeliveryInv'
    BY <1>0, <1>15 DEF CloudSend, Msg, DeliveryInv, Agree, TransmitBound, RepliesAreGenuine,
       HandledIsStored, Stored
<1>16. ASSUME NEW m \in toCloud, CloudReply(m) PROVE DeliveryInv'
    BY <1>0, <1>16 DEF CloudReply, Msg, DeliveryInv, Agree, TransmitBound, RepliesAreGenuine,
       HandledIsStored, Stored
<1>17. CASE Tick
    <2>1. \A i \in Id : /\ client'[i].kind = client[i].kind /\ client'[i].count = client[i].count
                        /\ client'[i].notify = client[i].notify
        BY <1>17 DEF Tick, Age, TypeOK, Entry
    <2>2. \A r \in Req : server'[r].kind = server[r].kind
        BY <1>17 DEF Tick, Age, TypeOK, Entry
    <2>3. UNCHANGED <<session, sync, handling, sent, outcome, got>>
        BY <1>17 DEF Tick
    <2>4. Agree(client, session, outcome)'
        BY <1>0, <2>1, <2>3 DEF Agree, Stored
    <2>5. HandledIsStored' /\ (sync' # None => client'[sync'].notify)
        BY <1>0, <2>1, <2>2, <2>3 DEF HandledIsStored, TypeOK
    <2>6. \A m \in toDevice' : \E x \in toDevice : m.type = x.type /\ m.id = x.id
        BY <1>17 DEF Tick, Older, TypeOK, Request, Reply
    <2>7. RepliesAreGenuine'
        BY <1>0, <2>3, <2>6 DEF RepliesAreGenuine
    <2> QED BY <1>0, <2>3, <2>4, <2>5, <2>7 DEF DeliveryInv, TransmitBound
<1>18. CASE UNCHANGED vars
    BY <1>c, <1>18 DEF vars
<1> QED
    BY <1>1, <1>2, <1>3, <1>5, <1>6, <1>7, <1>8, <1>9, <1>11, <1>12, <1>13, <1>14, <1>15,
       <1>16, <1>17, <1>18
       DEF Next, EventLoop, SyncLoop

-----------------------------------------------------------------------------
(* What the invariant says of the channel *)

LEMMA DeliveryHolds == Spec => []DeliveryInv
<1> QED BY InitType, NextType, InitDelivery, NextDelivery, PTL DEF Spec

\* CoAPMessageStore::process and receive: a message that timed out, that the
\* cloud rejected or that could not be sent never leaves the session open, in
\* the event loop and in the loop of send_synchronous alike.
THEOREM LossCloses == Spec => []LossClosesSession
<1>1. DeliveryInv => LossClosesSession
    BY DEF DeliveryInv, Agree, LossClosesSession
<1> QED BY <1>1, DeliveryHolds, PTL

\* CoAPMessageStore::receive of an acknowledgement: a delivered message is one
\* the cloud has received, provided an id is used again only after every trace
\* of its last use is gone.
THEOREM AckedIsReceived == Spec => []AckedMeansReceived
<1>1. DeliveryInv => AckedMeansReceived
    BY DEF DeliveryInv, Agree, AckedMeansReceived
<1> QED BY <1>1, DeliveryHolds, PTL

\* CoAPMessage::prepare_retransmit: no path through the two receive loops
\* transmits a message more than MAX_RETRANSMIT + 1 times.
THEOREM TransmissionsBounded == Spec => []TransmitBound
<1>1. DeliveryInv => TransmitBound
    BY DEF DeliveryInv
<1> QED BY <1>1, DeliveryHolds, PTL

\* CoAPMessageStore::send_synchronous: no exit of its loop leaves an entry
\* whose handler points into the stack frame that is gone, and while it waits
\* the handler is set.
THEOREM HandlerStaysInScope == Spec => []HandlerInScope
<1>1. DeliveryInv => HandlerInScope
    BY DEF DeliveryInv, Agree, HandlerInScope
<1> QED BY <1>1, DeliveryHolds, PTL

\* CoAPReliableChannel::has_unacknowledged_requests: when it is false the
\* device may sleep, no message is undecided and no request half handled.
THEOREM QuietIsDone == Spec => []QuietMeansDone
<1>1. ASSUME TypeOK, DeliveryInv PROVE QuietMeansDone
    <2> SUFFICES ASSUME ~ HasUnacknowledgedRequests
                 PROVE  handling = None /\ \A i \in Id : outcome[i] # "pending"
        BY DEF QuietMeansDone
    <2>1. \A i \in Id : ~ Stored(client, i)
        BY <1>1 DEF HasUnacknowledgedRequests, HasMessages, TypeOK
    <2>2. \A r \in Req : server[r].kind # "CON"
        BY <1>1 DEF HasUnacknowledgedRequests, HasUnacknowledged, TypeOK
    <2>3. handling = None
        BY <1>1, <2>2 DEF DeliveryInv, HandledIsStored, TypeOK
    <2> QED BY <1>1, <2>1, <2>3 DEF DeliveryInv, Agree
<1> QED BY <1>1, TypeCorrect, DeliveryHolds, PTL

-----------------------------------------------------------------------------
(* The channel implements ConfirmableExchange *)

LEMMA InitExchange == Init => Exchange!Init
BY DEF Init, Exchange!Init

\* Steps that only give messages up, maybe close the session, and leave the
\* requests of the cloud and what it received alone.
LEMMA LossesProceed ==
    ASSUME TypeOK, TypeOK', OnlyLosses(session, outcome), UNCHANGED <<got, handled>>
    PROVE  Exchange!Proceed
<1>1. outcome' \in [Id -> {"none", "pending", "acked", "reset", "lost"}]
    BY DEF TypeOK, Outcome
<1>2. \A i \in Exchange!Concluded : outcome[i] = "pending" /\ outcome'[i] = "lost" /\ session' # "open"
    BY DEF Exchange!Concluded, OnlyLosses
<1>3. (session' = "open") \in {(session = "open"), FALSE}
    BY DEF OnlyLosses, TypeOK
<1> QED BY <1>1, <1>2, <1>3 DEF Exchange!Proceed

\* A step that takes in a reply and then gives messages up: the message the
\* reply names is acknowledged, or rejected and the session closed.
LEMMA ReplyProceeds ==
    ASSUME TypeOK, TypeOK', DeliveryInv, session = "open",
           NEW m \in toDevice, m.type \in {"ACK", "RESET"},
           OnlyLosses(SessionAfterReply(m), Concluded(m)), UNCHANGED <<got, handled>>
    PROVE  Exchange!Proceed
<1>1. m.id \in Id /\ m.id \in got
    BY RepliesConcludeType DEF DeliveryInv, RepliesAreGenuine
<1>2. \A i \in Id : Concluded(m)[i] # outcome[i] =>
          /\ outcome[i] = "pending" /\ i = m.id
          /\ \/ Concluded(m)[i] = "acked"
             \/ Concluded(m)[i] = "reset" /\ SessionAfterReply(m) = "closed"
    BY <1>1 DEF Concluded, SessionAfterReply, TypeOK, DeliveryInv, Agree
<1>3. ASSUME NEW i \in Id, outcome'[i] # outcome[i]
      PROVE  /\ outcome[i] = "pending"
             /\ \/ outcome'[i] = "acked" /\ i \in got
                \/ outcome'[i] \in {"reset", "lost"} /\ session' = "closed"
    <2>1. CASE outcome'[i] = Concluded(m)[i]
        BY <1>1, <1>2, <1>3, <2>1 DEF OnlyLosses
    <2>2. CASE outcome'[i] # Concluded(m)[i]
        <3>1. Concluded(m)[i] = "pending" /\ outcome'[i] = "lost" /\ session' = "closed"
            BY <2>2 DEF OnlyLosses
        <3> QED BY <1>2, <3>1
    <2> QED BY <2>1, <2>2
<1>4. outcome' \in [Id -> {"none", "pending", "acked", "reset", "lost"}]
    BY DEF TypeOK, Outcome
<1>5. \A i \in Exchange!Concluded :
          /\ outcome[i] = "pending"
          /\ \/ outcome'[i] = "acked" /\ i \in got
             \/ outcome'[i] \in {"reset", "lost"} /\ ~ (session' = "open")
    BY <1>3 DEF Exchange!Concluded
<1>6. (session' = "open") \in {(session = "open"), FALSE}
    BY DEF TypeOK
<1> QED BY <1>4, <1>5, <1>6 DEF Exchange!Proceed

LEMMA NextExchange ==
    ASSUME TypeOK, TypeOK', DedupInv, DeliveryInv, [Next]_vars
    PROVE  [Exchange!Next]_(Exchange!exchangeVars)
<1> USE DEF deviceVars, cloudVars, netVars, history
<1>0. /\ Agree(client, session, outcome) /\ TransmitBound
      /\ (sync # None => client[sync].notify)
    BY DEF DeliveryInv
<1>a. Agree(client, "closed", outcome)
    BY <1>0 DEF Agree
<1>b. CASE UNCHANGED <<session, outcome, got, handled>>
    BY <1>b DEF Exchange!exchangeVars
<1>c. CASE Exchange!Proceed
    BY <1>c DEF Exchange!Next
<1>1. CASE SendRequest \/ SendSynchronous
    <2> DEFINE i == NextId
    <2>1. i \in Id
        BY ChannelAssumption DEF NextId, Id, TypeOK
    <2>2. outcome[i] # "pending"
        BY <1>0, <1>1, <2>1 DEF SendRequest, SendSynchronous, IdRetired, Agree
    <2>3. /\ \E result \in {"pending", "lost"} : outcome' = [outcome EXCEPT ![i] = result]
          /\ outcome'[i] = "lost" => session' = "closed"
          /\ session' \in {session, "closed"}
          /\ got' = got \ {i} /\ UNCHANGED handled
        BY <1>1, <2>1 DEF SendRequest, SendSynchronous, TypeOK
    <2>4. (session' = "open") \in {(session = "open"), FALSE}
        BY <2>3
    <2> HIDE DEF i
    <2>5. Exchange!Submit(i)
        BY <2>2, <2>3, <2>4 DEF Exchange!Submit
    <2> QED BY <2>1, <2>5 DEF Exchange!Next
<1>2. CASE DropRequest \/ Tick \/ UNCHANGED vars \/ \E r \in Req : CloudSend(r)
    BY <1>b, <1>2 DEF DropRequest, Tick, vars, CloudSend
<1>21. CASE AnswerRequest
    <2>1. UNCHANGED <<outcome, got, handled>> /\ session' \in {session, "closed"}
        BY <1>21 DEF AnswerRequest
    <2>2. OnlyLosses(session, outcome)
        BY <2>1 DEF OnlyLosses
    <2> QED BY <1>c, <2>1, <2>2, LossesProceed
<1>3. CASE ReceiveNothing
    BY <1>0, <1>3, <1>c, PassAgrees, LossesProceed DEF ReceiveNothing, TypeOK
<1>4. CASE ReceiveError
    <2>1. OnlyLosses("closed", outcome)
        BY <1>a, <1>0, <1>4, PassAgrees DEF ReceiveError, TypeOK
    <2>2. OnlyLosses(session, outcome)
        BY <2>1 DEF OnlyLosses
    <2> QED BY <1>4, <1>c, <2>2, LossesProceed DEF ReceiveError
<1>5. ASSUME NEW m \in toDevice, ReceiveReply(m) PROVE Exchange!Proceed
    <2>1. OnlyLosses(SessionAfterReply(m), Concluded(m))
        BY <1>0, <1>5, ReplyAgrees, RepliesConcludeType, PassAgrees DEF ReceiveReply
    <2> QED BY <1>5, <2>1, ReplyProceeds DEF ReceiveReply
<1>6. ASSUME NEW m \in toDevice, ReceiveNewRequest(m) PROVE Exchange!Proceed
    <2>1. OnlyLosses(session, outcome)
        BY <1>0, <1>6, PassAgrees DEF ReceiveNewRequest, TypeOK
    <2>2. m.id \in Req /\ handled[m.id] = 0
        BY <1>6, UnknownIsNew DEF ReceiveNewRequest
    <2>3. session = "open" /\ handled' = [handled EXCEPT ![m.id] = 1] /\ got' = got
        BY <1>6, <2>2 DEF ReceiveNewRequest, TypeOK
    <2>4. outcome' \in [Id -> {"none", "pending", "acked", "reset", "lost"}]
        BY DEF TypeOK, Outcome
    <2>5. \A i \in Exchange!Concluded :
              outcome[i] = "pending" /\ outcome'[i] = "lost" /\ ~ (session' = "open")
        BY <2>1 DEF Exchange!Concluded, OnlyLosses
    <2>6. (session' = "open") \in {(session = "open"), FALSE}
        BY <2>1 DEF OnlyLosses
    <2> QED BY <2>2, <2>3, <2>4, <2>5, <2>6 DEF Exchange!Proceed
<1>7. ASSUME NEW m \in toDevice, ReceiveDuplicate(m) PROVE Exchange!Proceed
    <2>1. PICK sess \in {session, "closed"} : ProcessStores(client, server, sess, outcome)
        BY <1>7 DEF ReceiveDuplicate
    <2>2. Agree(client, sess, outcome)
        BY <1>0, <1>a, <2>1
    <2>3. UNCHANGED <<sync, got, handled>> /\ client \in [Id -> Entry]
        BY <1>7 DEF ReceiveDuplicate, TypeOK
    <2>4. OnlyLosses(sess, outcome)
        BY <1>0, <2>1, <2>2, <2>3, PassAgrees
    <2>5. OnlyLosses(session, outcome)
        BY <2>4 DEF OnlyLosses
    <2> QED BY <2>3, <2>5, LossesProceed
<1>8. CASE SyncReceiveNothing
    <2>1. (session = "closed") \in BOOLEAN
        OBVIOUS
    <2>2. UNCHANGED <<got, handled>>
        BY <1>8 DEF SyncReceiveNothing, SyncStep
    <2>3. OnlyLosses(session, outcome)
        BY <1>0, <1>8, <2>1, SyncAgrees DEF SyncReceiveNothing, TypeOK
    <2> QED BY <1>c, <2>2, <2>3, LossesProceed
<1>9. CASE SyncReceiveError
    <2>1. UNCHANGED <<got, handled>>
        BY <1>9 DEF SyncReceiveError, SyncStep
    <2>2. OnlyLosses("closed", outcome)
        BY <1>0, <1>a, <1>9, SyncAgrees DEF SyncReceiveError, TypeOK
    <2>3. OnlyLosses(session, outcome)
        BY <2>2 DEF OnlyLosses
    <2> QED BY <1>c, <2>1, <2>3, LossesProceed
<1>10. ASSUME NEW m \in toDevice, SyncReceiveReply(m) PROVE Exchange!Proceed
    <2> DEFINE error == m.type = "RESET" /\ m.id = sync
    <2>1. /\ error \in BOOLEAN
          /\ error => SessionAfterReply(m) = "closed"
        BY DEF SessionAfterReply
    <2>2. SyncStep(AfterReply(m), SessionAfterReply(m), error, Concluded(m))
        BY <1>10 DEF SyncReceiveReply
    <2>3. /\ sync \in Id /\ m.type \in {"ACK", "RESET"} /\ sync # None /\ session = "open"
        BY <1>10 DEF SyncReceiveReply, TypeOK
    <2>4. Stored(AfterReply(m), sync) => AfterReply(m)[sync].notify
        BY <1>0, <2>3, ReplyAgrees
    <2>5. AfterReply(m) \in [Id -> Entry]
        BY <2>3, RepliesConcludeType
    <2>6. Agree(AfterReply(m), SessionAfterReply(m), Concluded(m))
        BY <2>3, ReplyAgrees
    <2>7. UNCHANGED <<got, handled>>
        BY <2>2 DEF SyncStep
    <2> HIDE DEF error
    <2>8. OnlyLosses(SessionAfterReply(m), Concluded(m))
        BY <1>0, <2>1, <2>2, <2>3, <2>4, <2>5, <2>6, SyncAgrees
    <2> QED BY <2>3, <2>7, <2>8, ReplyProceeds
<1>11. CASE EstablishResumed \/ EstablishNew
    <2>1. /\ session' = "open" /\ outcome' = [i \in Id |-> "none"]
          /\ handled' = [r \in Req |-> 0] /\ got' \subseteq got
        BY <1>11 DEF EstablishResumed, EstablishNew, ClearStores
    <2>2. Exchange!Establish
        BY <2>1 DEF Exchange!Establish
    <2> QED BY <2>2 DEF Exchange!Next
<1>12. ASSUME NEW m \in toCloud, CloudReply(m) PROVE Exchange!Next
    <2>1. m.id \in Id
        BY <1>12 DEF CloudReply, TypeOK, Request, Reply
    <2>2. Exchange!CloudReceives(m.id)
        BY <1>12 DEF CloudReply, Exchange!CloudReceives
    <2> QED BY <2>1, <2>2 DEF Exchange!Next
<1> QED
    BY <1>1, <1>2, <1>21, <1>3, <1>4, <1>5, <1>6, <1>7, <1>8, <1>9, <1>10, <1>11, <1>12, <1>c
       DEF Next, EventLoop, SyncLoop

\* The reliable channel keeps what ConfirmableExchange promises the protocol
\* above it: whatever the network does, each message is concluded at most once
\* and truthfully, a loss takes the session with it, and each request is
\* handled at most once, while the session is open.
THEOREM ImplementsConfirmableExchange == Spec => ImplementsExchange
<1>1. Init => Exchange!Init
    BY InitExchange
<1>2. TypeOK /\ TypeOK' /\ DedupInv /\ DeliveryInv /\ [Next]_vars
        => [Exchange!Next]_(Exchange!exchangeVars)
    BY NextExchange
<1> QED BY <1>1, <1>2, InitType, NextType, InitDedup, NextDedup, InitDelivery, NextDelivery, PTL
        DEF Spec, ImplementsExchange, Exchange!Spec

=============================================================================
