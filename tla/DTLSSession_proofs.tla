-------------------------- MODULE DTLSSession_proofs --------------------------
(***************************************************************************)
(* Theorems about DTLS sessions, for every number of sessions and records  *)
(* and every state of the application.                                     *)
(***************************************************************************)
EXTENDS DTLSSession, TLAPS

\* The numbers in one record are at least those in another.
AtLeast(n, m) == n.record >= m.record /\ n.id >= m.id

\* The copy in RAM is that of the session in use; it is persistent but between a handshake
\* and the acknowledgement of the HELLO, and then it is the copy in retained memory;
\* until then there is none to be resumed.
Copies ==
    /\ backup # None => backup.persistent
    /\ at = "offline" => ssl = NoContext
    /\ at # "offline" => IF ram.persistent THEN backup = ram ELSE ~ Resumable /\ message = "hello"
    /\ at = "online" => ram.persistent
    /\ at \in {"begin", "sent", "saved"} /\ message # "hello" => ram.persistent

\* Session numbers are given in order.
SessionsSoFar ==
    /\ ssl.session # None => ssl.session <= sessions
    /\ Resumable => backup.session <= sessions
    /\ \A s \in discarded : s <= sessions
    /\ \A s \in Session : s > sessions => completed[s] = NoNumbers

\* What was sent is not after what each copy says.
NumbersKnown ==
    /\ at \in {"online", "saved"} => ram.numbers.record = ssl.record
    /\ at = "saved" => ram.numbers.id = nextId
    /\ at \in {"begin", "online", "saved"} =>
          /\ ssl.record >= completed[ssl.session].record
          /\ nextId >= completed[ssl.session].id
    /\ Resumable => AtLeast(backup.numbers, completed[backup.session])
    /\ at \in {"begin", "online", "saved"} => nextId >= ram.numbers.id
    /\ at # "offline" => AtLeast(ram.numbers, completed[ssl.session])

\* What was recorded as sent in a session is in all its copies.
RecordKept ==
    \A part \in {"subscriptions", "describe"} : recorded[part] # None =>
        /\ Resumable => backup.crc[part] = recorded[part]
        /\ at # "offline" => ram.crc[part] = recorded[part]

IInv == TypeOK /\ DiscardedStaysDiscarded /\ NumbersFresh /\ Copies /\ SessionsSoFar /\ NumbersKnown /\ RecordKept
-----------------------------------------------------------------------------
\* What is left of a copy that is invalidated, as it is in RAM and in retained memory.
LEMMA InvalidCopies ==
    ASSUME NEW persist \in SessionPersist
    PROVE  /\ Invalid(persist) \in SessionPersist
           /\ ~ Invalid(persist).valid /\ ~ Invalid(persist).persistent
           /\ [Invalid(persist) EXCEPT !.persistent = TRUE] \in SessionPersist
           /\ ~ [Invalid(persist) EXCEPT !.persistent = TRUE].valid
           /\ [Invalid(persist) EXCEPT !.persistent = TRUE].persistent
BY DEF Invalid, Blank, NoNumbers, NothingRecorded, Numbers, Recorded, SessionPersist

LEMMA InitIInv == Init => IInv
<1> SUFFICES ASSUME Init PROVE IInv
    OBVIOUS
<1>1. TypeOK
    <2>1. ram \in SessionPersist
        BY DEF Init, Blank, NoNumbers, NothingRecorded, Numbers, Recorded, Checksum, SessionPersist
    <2>2. completed \in [Session -> Numbers] /\ recorded \in Recorded
        BY DEF Init, NoNumbers, NothingRecorded, Numbers, Recorded, Checksum
    <2>3. ssl \in [session : Session \cup {None}, record : Nat] /\ message \in Message
        BY DEF Init, NoContext, Message, WithId
    <2>4. nextId \in Nat /\ sessions \in 0 .. MaxSessions
        BY BoundsAssumption DEF Init
    <2> QED BY <2>1, <2>2, <2>3, <2>4 DEF Init, TypeOK, Resumable
<1>2. DiscardedStaysDiscarded /\ NumbersFresh /\ Copies
    BY DEF Init, DiscardedStaysDiscarded, NumbersFresh, Copies, NoContext, Resumable
<1>3. SessionsSoFar /\ NumbersKnown /\ RecordKept
    BY DEF Init, SessionsSoFar, NumbersKnown, RecordKept, NoContext, NothingRecorded, Resumable
<1> QED BY <1>1, <1>2, <1>3 DEF IInv

LEMMA NextIInv == IInv /\ [Next]_vars => IInv'
<1> SUFFICES ASSUME IInv, [Next]_vars PROVE IInv'
    OBVIOUS
<1> USE BoundsAssumption, NoneAssumption
<1> USE DEF IInv, AtLeast, NoContext, NoNumbers, NothingRecorded, DiscardedStaysDiscarded, NumbersFresh, Copies,
            SessionsSoFar, NumbersKnown, RecordKept, Resumable, DiscardedWithBackup
<1> DEFINE Rest == DiscardedStaysDiscarded /\ NumbersFresh /\ Copies /\ SessionsSoFar /\ NumbersKnown /\ RecordKept
<1>1. CASE Resume
    <2>1. backup \in SessionPersist /\ backup.valid /\ backup.session \in Session
        BY <1>1 DEF Resume, TypeOK
    <2>2. /\ ram' \in SessionPersist /\ ram'.valid /\ ram'.session = backup.session
          /\ ssl' \in [session : Session \cup {None}, record : Nat] /\ ssl'.session = backup.session
          /\ nextId' \in Nat
        BY <1>1, <2>1 DEF Resume, SessionPersist, Numbers
    <2>3. message' \in Message /\ skipHello' \in BOOLEAN
        BY <1>1 DEF Resume, Message, WithId, TypeOK
    <2>4. TypeOK'
        BY <1>1, <2>1, <2>2, <2>3 DEF Resume, TypeOK
    <2>5. Rest'
        BY <1>1, <2>4 DEF Resume, TypeOK, SessionPersist, Numbers, Recorded, Session, WithId
    <2> QED BY <2>4, <2>5
<1>2. CASE Handshake
    <2>1. Loaded \in SessionPersist
        BY DEF Loaded, TypeOK
    <2>2. ram' \in SessionPersist /\ backup' \in SessionPersist /\ ~ backup'.valid /\ backup'.persistent
        BY <1>2, <2>1, InvalidCopies DEF Handshake, Clear
    <2>3. discarded' \subseteq Session /\ ssl' \in [session : Session \cup {None}, record : Nat]
        BY <1>2 DEF Handshake, GoOffline, TypeOK
    <2>4. TypeOK'
        BY <1>2, <2>2, <2>3 DEF Handshake, GoOffline, TypeOK
    <2>5. Rest'
        BY <1>2, <2>2, <2>4 DEF Handshake, GoOffline, TypeOK, SessionPersist, Numbers, Recorded, Session, WithId
    <2> QED BY <2>4, <2>5
<1>3. CASE HandshakeDone
    <2>1. Loaded \in SessionPersist
        BY DEF Loaded, TypeOK
    <2>2. sessions' \in Session /\ sessions' \in 0 .. MaxSessions
        BY <1>3 DEF HandshakeDone, TypeOK, Session
    <2>3. ram' \in SessionPersist /\ backup' \in SessionPersist /\ ~ backup'.valid /\ backup'.persistent
        <3>1. ram' \in SessionPersist
            BY <1>3, <2>1, <2>2 DEF HandshakeDone, SessionPersist, Numbers
        <3>2. backup' = [Invalid(Loaded) EXCEPT !.persistent = TRUE]
            BY <1>3 DEF HandshakeDone
        <3> QED BY <2>1, <3>1, <3>2, InvalidCopies
    <2>4. /\ discarded' \subseteq Session /\ ssl' \in [session : Session \cup {None}, record : Nat]
          /\ message' \in Message /\ recorded' \in Recorded
        BY <1>3, <2>2 DEF HandshakeDone, TypeOK, Message, WithId, Recorded, Checksum
    <2>5. TypeOK'
        BY <1>3, <2>2, <2>3, <2>4 DEF HandshakeDone, TypeOK
    <2>6. /\ ram'.valid /\ ~ ram'.persistent /\ ram'.session = sessions' /\ ram'.numbers = NoNumbers
          /\ ssl'.session = sessions' /\ ssl'.record = 0 /\ at' = "begin" /\ message' = "hello"
          /\ completed' = completed /\ completed[sessions'] = NoNumbers
          /\ sessions' \notin discarded' /\ nextId' \in Nat /\ sessions \in Nat
        BY <1>3, <2>2 DEF HandshakeDone, TypeOK, Session
    <2>7. DiscardedStaysDiscarded' /\ NumbersFresh' /\ Copies'
        BY <2>3, <2>6
    <2>8. SessionsSoFar'
        BY <1>3, <2>2, <2>3, <2>6 DEF HandshakeDone, Session, TypeOK
    <2>9. NumbersKnown' /\ RecordKept'
        BY <1>3, <2>3, <2>6 DEF HandshakeDone
    <2> QED BY <2>5, <2>7, <2>8, <2>9
<1>4. CASE NotifyEstablished
    <2>1. ram' \in SessionPersist /\ ram'.persistent /\ ram'.valid /\ ram'.session = ssl.session
        BY <1>4 DEF NotifyEstablished, TypeOK, SessionPersist
    <2>2. backup' = ram'
        BY <1>4, <2>1 DEF NotifyEstablished, Saved
    <2>3. TypeOK'
        BY <1>4, <2>1, <2>2 DEF NotifyEstablished, TypeOK
    <2>4. Rest'
        BY <1>4, <2>2, <2>3 DEF NotifyEstablished, TypeOK, SessionPersist, Numbers, Recorded, Session, WithId
    <2> QED BY <2>3, <2>4
<1>5. CASE DiscardBackup
    <2>1. backup \in SessionPersist /\ backup' = [Invalid(backup) EXCEPT !.persistent = TRUE]
        BY <1>5 DEF DiscardBackup, TypeOK
    <2>2. backup' \in SessionPersist /\ ~ backup'.valid /\ backup'.persistent
        BY <2>1, InvalidCopies
    <2>3. TypeOK'
        BY <1>5, <2>2 DEF DiscardBackup, TypeOK
    <2>4. Rest'
        BY <1>5, <2>2, <2>3 DEF DiscardBackup, TypeOK, SessionPersist, Numbers, Recorded, Session, WithId
    <2> QED BY <2>3, <2>4
<1>6. CASE \E m \in Message : Transmit(m)
    <2>1. TypeOK'
        BY <1>6 DEF Transmit, TypeOK
    <2>2. Rest'
        BY <1>6, <2>1 DEF Transmit, TypeOK, SessionPersist, Numbers, Recorded, Session, WithId
    <2> QED BY <2>1, <2>2
<1>7. CASE DiscardSession
    <2>1. ssl.session \in Session
        BY <1>7 DEF DiscardSession, TypeOK
    <2>2. ram' \in SessionPersist /\ backup' \in SessionPersist /\ ~ backup'.valid /\ backup'.persistent
        <3>1. ram \in SessionPersist
            BY DEF TypeOK
        <3> QED BY <1>7, <3>1, InvalidCopies DEF DiscardSession, Discard, Clear
    <2>3. ssl' \in [session : Session \cup {None}, record : Nat]
        BY <1>7 DEF DiscardSession, Discard, GoOffline
    <2>4. TypeOK'
        BY <1>7, <2>1, <2>2, <2>3 DEF DiscardSession, Discard, GoOffline, TypeOK
    <2>5. Rest'
        BY <1>7, <2>2, <2>4 DEF DiscardSession, Discard, GoOffline, TypeOK, SessionPersist, Numbers, Recorded, Session, WithId
    <2> QED BY <2>4, <2>5
<1>8. CASE UpdateSession
    <2>1. /\ ram' \in SessionPersist /\ ram'.valid /\ ram'.session = ssl.session
          /\ ram'.persistent = ram.persistent
        BY <1>8 DEF UpdateSession, TypeOK, SessionPersist, Numbers
    <2>2. backup' = IF ram.persistent THEN ram' ELSE backup
        BY <1>8, <2>1 DEF UpdateSession, Saved
    <2>3. completed' \in [Session -> Numbers]
        BY <1>8 DEF UpdateSession, TypeOK, Numbers
    <2>4. TypeOK'
        BY <1>8, <2>1, <2>2, <2>3 DEF UpdateSession, TypeOK
    <2>5. /\ ram'.numbers.record = ssl.record /\ ram'.numbers.id = nextId /\ ram'.crc = ram.crc
          /\ ssl.session \in Session
        BY <1>8 DEF UpdateSession, TypeOK, SessionPersist
    <2>6. \A s \in Session : completed'[s] = IF s = ssl.session THEN [record |-> ssl.record, id |-> nextId]
                                             ELSE completed[s]
        BY <1>8 DEF UpdateSession, TypeOK
    <2>7. DiscardedStaysDiscarded' /\ NumbersFresh' /\ Copies' /\ RecordKept'
        BY <1>8, <2>1, <2>2, <2>5 DEF UpdateSession, TypeOK
    <2>8. SessionsSoFar'
        <3>1. ssl.session # None /\ ssl.session <= sessions /\ ssl.session \in Nat /\ sessions \in Nat
            BY <2>5 DEF TypeOK, Session
        <3>2. \A s \in Session : s > sessions => s # ssl.session
            BY <3>1 DEF Session
        <3>3. Resumable' => backup'.session <= sessions
            BY <2>1, <2>2, <3>1
        <3> QED BY <1>8, <2>6, <3>1, <3>2, <3>3 DEF UpdateSession
    <2>9. NumbersKnown'
        <3>1. /\ ssl'.session = ssl.session /\ ssl'.record = ssl.record /\ nextId' = nextId
              /\ ssl.record \in Nat /\ nextId \in Nat
            BY <1>8 DEF UpdateSession, TypeOK
        <3>2. completed'[ssl.session].record = ssl.record /\ completed'[ssl.session].id = nextId
            BY <2>5, <2>6
        <3>3. AtLeast(ram'.numbers, completed'[ssl.session])
            BY <2>5, <3>1, <3>2
        <3>4. Resumable' => AtLeast(backup'.numbers, completed'[backup'.session])
            BY <1>8, <2>1, <2>2, <3>3 DEF UpdateSession
        <3> QED BY <2>5, <3>1, <3>2, <3>3, <3>4
    <2> QED BY <2>4, <2>7, <2>8, <2>9
<1>9. CASE RecordSent
    <2>1. ram.persistent /\ ram.valid /\ ram \in SessionPersist /\ backup = ram /\ Saved(ram) = ram
        BY <1>9 DEF RecordSent, Saved, TypeOK
    <2>2. Persisted = [ram EXCEPT !.crc[message] = app[message]]
        BY <2>1 DEF Persisted
    <2>3. message \in {"subscriptions", "describe"} /\ app[message] \in Checksum
        BY <1>9 DEF RecordSent, TypeOK, Checksum
    <2>4. Persisted \in SessionPersist
        BY <2>1, <2>2, <2>3 DEF SessionPersist, Recorded
    <2>5. /\ \A part \in {"subscriptions", "describe"} :
                Persisted.crc[part] = IF part = message THEN app[message] ELSE ram.crc[part]
          /\ Persisted.valid /\ Persisted.persistent
          /\ Persisted.session = ram.session /\ Persisted.numbers = ram.numbers
        BY <2>1, <2>2, <2>3 DEF SessionPersist, Recorded
    <2>6. ram' = Persisted /\ backup' = Persisted
        BY <1>9, <2>4 DEF RecordSent
    <2>7. recorded' \in Recorded
        BY <1>9, <2>3 DEF RecordSent, TypeOK, Recorded
    <2>8. TypeOK'
        BY <1>9, <2>4, <2>5, <2>6, <2>7 DEF RecordSent, TypeOK
    <2>9. RecordKept'
        BY <1>9, <2>3, <2>5, <2>6 DEF RecordSent, TypeOK, Recorded
    <2>10. Rest'
        BY <1>9, <2>5, <2>6, <2>8, <2>9 DEF RecordSent, TypeOK, Session
    <2> QED BY <2>8, <2>10
<1>10. CASE SendFails
    <2>1. CASE message = "hello"
        <3>1. TypeOK'
            BY <1>10, <2>1 DEF SendFails, GoOffline, TypeOK
        <3>2. at' = "offline" /\ ssl' = NoContext
            BY <1>10, <2>1 DEF SendFails, GoOffline
        <3>3. Rest'
            BY <1>10, <3>1, <3>2 DEF SendFails, TypeOK
        <3> QED BY <3>1, <3>3
    <2>2. CASE message # "hello"
        <3>1. TypeOK'
            BY <1>10, <2>2 DEF SendFails, TypeOK
        <3>2. Rest'
            BY <1>10, <2>2, <3>1 DEF SendFails, TypeOK, SessionPersist, Numbers, Recorded, Session, WithId
        <3> QED BY <3>1, <3>2
    <2> QED BY <2>1, <2>2
<1>11. CASE ChangeApp
    <2>1. TypeOK'
        BY <1>11 DEF ChangeApp, TypeOK
    <2>2. Rest'
        BY <1>11, <2>1 DEF ChangeApp, TypeOK, SessionPersist, Numbers, Recorded, Session, WithId
    <2> QED BY <2>1, <2>2
<1>12. CASE Disconnect
    <2>1. TypeOK'
        BY <1>12 DEF Disconnect, GoOffline, TypeOK
    <2>2. Rest'
        BY <1>12, <2>1 DEF Disconnect, GoOffline, TypeOK, SessionPersist, Numbers, Recorded, Session, WithId
    <2> QED BY <2>1, <2>2
<1>13. CASE Reset
    <2>1. ram' \in SessionPersist
        BY <1>13 DEF Reset, Blank, SessionPersist, Numbers, Recorded, Checksum
    <2>2. TypeOK'
        BY <1>13, <2>1 DEF Reset, GoOffline, TypeOK
    <2>3. Rest'
        BY <1>13, <2>2 DEF Reset, GoOffline, TypeOK, SessionPersist, Numbers, Recorded, Session, WithId
    <2> QED BY <2>2, <2>3
<1>14. CASE UNCHANGED vars
    <2>1. TypeOK'
        BY <1>14 DEF vars, TypeOK
    <2>2. Rest'
        BY <1>14, <2>1 DEF vars, TypeOK, SessionPersist, Numbers, Recorded, Session, WithId
    <2> QED BY <2>1, <2>2
<1> QED BY <1>1, <1>2, <1>3, <1>4, <1>5, <1>6, <1>7, <1>8, <1>9, <1>10, <1>11, <1>12, <1>13, <1>14 DEF Next

LEMMA SpecIInv == Spec => []IInv
BY InitIInv, NextIInv, PTL DEF Spec
-----------------------------------------------------------------------------
\* The state of the session and of its copies is always of its type.
THEOREM TypeCorrect == Spec => []TypeOK
BY SpecIInv, PTL DEF IInv

\* No record number and no message id of a session is used again once the message has been
\* sent and saved, for all the resets and resumptions in between (SessionPersist::update and
\* restore).
THEOREM NumbersStayFresh == Spec => []NumbersFresh
BY SpecIInv, PTL DEF IInv

\* A session discarded with reset_session() or for its address is never resumed.
THEOREM DiscardedIsForgotten == Spec => []DiscardedStaysDiscarded
BY SpecIInv, PTL DEF IInv

LEMMA IInvBackup == IInv => BackupKeepsUp
<1> SUFFICES ASSUME IInv, at = "online"
             PROVE  /\ backup = ram
                    /\ backup.session = ssl.session
                    /\ backup.numbers.record = ssl.record
                    /\ \A part \in DOMAIN recorded : recorded[part] # None => backup.crc[part] = recorded[part]
    BY DEF BackupKeepsUp
<1>1. backup = ram /\ ram.session = ssl.session /\ ram.numbers.record = ssl.record
    BY DEF IInv, Copies, TypeOK, NumbersKnown
<1>2. DOMAIN recorded = {"subscriptions", "describe"}
    BY DEF IInv, TypeOK, Recorded
<1>3. \A part \in {"subscriptions", "describe"} : recorded[part] # None => ram.crc[part] = recorded[part]
    BY DEF IInv, RecordKept
<1> QED BY <1>1, <1>2, <1>3

\* While connected, a reset at any time finds the session in use in retained memory, up to
\* the last record and with what was recorded as sent (update_persisted_state and
\* LOAD_SESSION).
THEOREM BackupIsCurrent == Spec => []BackupKeepsUp
BY SpecIInv, IInvBackup, PTL

=============================================================================
