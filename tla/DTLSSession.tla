------------------------------ MODULE DTLSSession ------------------------------
(***************************************************************************)
(* The DTLS session with the cloud and its copies: the one in use          *)
(* (mbedtls_ssl_context), the one in RAM (sessionPersist) and the one that *)
(* survives a reset (retained memory).  A session is resumed from the      *)
(* last, without a handshake; if the cloud was told all there is to know   *)
(* of the application it is resumed without a HELLO as well.               *)
(***************************************************************************)
EXTENDS Naturals

CONSTANTS
    AppState,     \* what can be subscribed to, or described; a value stands for its checksum
    MaxSessions,  \* bound: handshakes
    MaxRecords,   \* bound: records sent in a session
    None

ASSUME BoundsAssumption == MaxSessions \in Nat /\ MaxRecords \in Nat

VARIABLES
    app,          \* subscriptions and functions of the application
    ssl,          \* ssl_context: the session in use, and the number of the last record sent
    nextId,       \* CoAPChannel::message_id, the last message id given
    ram,          \* sessionPersist
    backup,       \* the copy in retained memory, None if the memory was lost
    skipHello,    \* Protocol::flags & SKIP_SESSION_RESUME_HELLO
    at,           \* where the system thread is
    message,      \* the message being sent
    sessions,     \* number of handshakes
    \* history
    completed,    \* the numbers up to which send() has returned, in each session
    discarded,    \* sessions that the device has discarded
    recorded      \* what was last recorded as sent in the session

vars == <<app, ssl, nextId, ram, backup, skipHello, at, message, sessions, completed, discarded, recorded>>

Session == 1 .. MaxSessions
Checksum == AppState \cup {None}    \* None is the checksum before anything was sent
Recorded == [subscriptions : Checksum, describe : Checksum]
Numbers == [record : Nat, id : Nat]
SessionPersist == [valid : BOOLEAN, persistent : BOOLEAN, session : Session \cup {None},
                   numbers : Numbers, crc : Recorded]

ASSUME NoneAssumption ==
    /\ None \notin AppState
    /\ None \notin Session
    /\ None \notin SessionPersist

NothingRecorded == [subscriptions |-> None, describe |-> None]
NoNumbers == [record |-> 0, id |-> 0]
NoContext == [session |-> None, record |-> 0]
Blank == [valid |-> FALSE, persistent |-> FALSE, session |-> None, numbers |-> NoNumbers, crc |-> NothingRecorded]

\* An acknowledgement, and the description that the cloud asks for, have the id of a request.
WithId == {"hello", "ping", "subscriptions", "event"}
Message == WithId \cup {"describe", "acknowledgement"}

Init ==
    /\ app \in [subscriptions : AppState, describe : AppState]
    /\ ssl = NoContext
    /\ nextId = 0
    /\ ram = Blank
    /\ backup = None
    /\ skipHello = FALSE
    /\ at = "offline"
    /\ message = "ping"
    /\ sessions = 0
    /\ completed = [s \in Session |-> NoNumbers]
    /\ discarded = {}
    /\ recorded = NothingRecorded
-----------------------------------------------------------------------------
(* Helpers *)

\* invalidate(): of a copy that is not valid only the checksums are ever used.
Invalid(persist) == [Blank EXCEPT !.crc = persist.crc]

\* is_valid() of the copy in retained memory, which may be lost
Resumable == backup # None /\ backup.valid

\* Mutant: the session is cleared in RAM only.
ClearUnsaved(persist) ==
    /\ ram' = Invalid(persist)
    /\ UNCHANGED backup

\* SessionPersist::clear(); what was recorded as sent stays in both copies.
Clear(persist) ==
    /\ ram' = Invalid(persist)
    /\ backup' = [Invalid(persist) EXCEPT !.persistent = TRUE]

\* save_this_with() and Spark_Save()
Saved(persist) == IF persist.persistent THEN persist ELSE backup

\* The session is not used any more.  The context is set up again before the next one.
GoOffline ==
    /\ at' = "offline"
    /\ ssl' = NoContext

\* reset_session() while a session is in use
Discard ==
    /\ Clear(ram)
    /\ discarded' = discarded \cup {ssl.session}
    /\ GoOffline
-----------------------------------------------------------------------------
(* establish() and begin() *)

\* The sessions that the device gives up when it starts another
DiscardedWithBackup == IF Resumable THEN discarded \cup {backup.session} ELSE discarded

\* restore_this_from(): whatever the retained memory holds, valid or not
Loaded == IF backup = None THEN ram ELSE backup

\* Mutant: the session is restored into the context, but not into RAM.
ResumeContext ==
    /\ at = "offline"
    /\ Resumable
    /\ ram' = [ram EXCEPT !.persistent = TRUE]
    /\ ssl' = [session |-> backup.session, record |-> backup.numbers.record]
    /\ nextId' = backup.numbers.id
    /\ skipHello' = (skipHello \/ backup.crc = app)
    /\ message' = IF skipHello' THEN "ping" ELSE "hello"
    /\ at' = "begin"
    /\ UNCHANGED <<app, backup, sessions, completed, discarded, recorded>>

\* The session is restored; it goes on with a ping, if the cloud needs no HELLO.
Resume ==
    /\ at = "offline"
    /\ Resumable
    /\ ram' = [backup EXCEPT !.persistent = TRUE]
    /\ ssl' = [session |-> backup.session, record |-> backup.numbers.record]
    /\ nextId' = backup.numbers.id
    /\ skipHello' = (skipHello \/ backup.crc = app)
    /\ message' = IF skipHello' THEN "ping" ELSE "hello"
    /\ at' = "begin"
    /\ UNCHANGED <<app, backup, sessions, completed, discarded, recorded>>

\* There is no session, or one of other keys or that cannot be restored: a handshake
\* succeeds or fails.
Handshake ==
    /\ at = "offline"
    /\ Clear(Loaded)
    /\ discarded' = DiscardedWithBackup
    /\ GoOffline
    /\ UNCHANGED <<app, nextId, skipHello, message, sessions, completed, recorded>>

HandshakeDone ==
    /\ at = "offline"
    /\ sessions < MaxSessions
    /\ sessions' = sessions + 1
    /\ ssl' = [session |-> sessions', record |-> 0]
    /\ ram' = [valid |-> TRUE, persistent |-> FALSE, session |-> sessions', numbers |-> NoNumbers, crc |-> Loaded.crc]
    /\ backup' = [Invalid(Loaded) EXCEPT !.persistent = TRUE]
    /\ discarded' = DiscardedWithBackup
    /\ at' = "begin"
    /\ message' = "hello"
    /\ recorded' = NothingRecorded
    /\ UNCHANGED <<app, nextId, skipHello, completed>>

\* notify_established(), after the HELLO was acknowledged
NotifyEstablished ==
    /\ at = "saved"
    /\ message = "hello"
    /\ ram' = [ram EXCEPT !.persistent = TRUE]
    /\ backup' = Saved(ram')
    /\ at' = "online"
    /\ UNCHANGED <<app, ssl, nextId, skipHello, message, sessions, completed, discarded, recorded>>

\* The server address is not that of the session.
DiscardBackup ==
    /\ at = "offline"
    /\ Resumable
    /\ backup' = [Invalid(backup) EXCEPT !.persistent = TRUE]
    /\ discarded' = discarded \cup {backup.session}
    /\ UNCHANGED <<app, ssl, nextId, ram, skipHello, at, message, sessions, completed, recorded>>
-----------------------------------------------------------------------------
(* Messages *)

\* CoAPChannel::send() and mbedtls_ssl_write(): the record leaves the device.
Transmit(m) ==
    /\ \/ at = "begin" /\ m = message
       \/ at = "online" /\ m # "hello"
    /\ ssl.record < MaxRecords
    /\ ssl' = [ssl EXCEPT !.record = @ + 1]
    /\ nextId' = IF m \in WithId THEN nextId + 1 ELSE nextId
    /\ message' = m
    /\ at' = "sent"
    /\ UNCHANGED <<app, ram, backup, skipHello, sessions, completed, discarded, recorded>>

\* The record cannot be sent, or the cloud ends the session: RESET, a key change, a close
\* notification, or a record that cannot be read.
DiscardSession ==
    /\ \/ at \in {"begin", "online"}
       \/ at = "saved" /\ message = "hello"
    /\ Discard
    /\ UNCHANGED <<app, nextId, skipHello, message, sessions, completed, recorded>>

\* Mutant: the id of the message is not saved.
UpdateRecord ==
    /\ at = "sent"
    /\ ram' = [ram EXCEPT !.numbers.record = ssl.record]
    /\ backup' = Saved(ram')
    /\ completed' = [completed EXCEPT ![ssl.session] = [record |-> ssl.record, id |-> nextId]]
    /\ at' = IF message \in {"hello", "subscriptions", "describe"} THEN "saved" ELSE "online"
    /\ UNCHANGED <<app, ssl, nextId, skipHello, message, sessions, discarded, recorded>>

\* SessionPersist::update(), the end of send()
UpdateSession ==
    /\ at = "sent"
    /\ ram' = [ram EXCEPT !.numbers = [record |-> ssl.record, id |-> nextId]]
    /\ backup' = Saved(ram')
    /\ completed' = [completed EXCEPT ![ssl.session] = [record |-> ssl.record, id |-> nextId]]
    /\ at' = IF message \in {"hello", "subscriptions", "describe"} THEN "saved" ELSE "online"
    /\ UNCHANGED <<app, ssl, nextId, skipHello, message, sessions, discarded, recorded>>

\* update_persisted_state() after SAVE_SESSION: the checksum of what was sent goes into a valid
\* copy in retained memory.
Persisted ==
    IF Saved(ram) # None /\ Saved(ram).valid THEN [Saved(ram) EXCEPT !.crc[message] = app[message]] ELSE Saved(ram)

\* Mutant: the session is not loaded again after the copy was changed.
RecordSentUnloaded ==
    /\ at = "saved"
    /\ message \in {"subscriptions", "describe"}
    /\ backup' = Persisted
    /\ recorded' = [recorded EXCEPT ![message] = app[message]]
    /\ at' = "online"
    /\ UNCHANGED <<app, ssl, nextId, ram, skipHello, message, sessions, completed, discarded>>

\* update_subscription_crc(), and the end of send_description(): SAVE_SESSION, the checksum
\* is changed in the copy, LOAD_SESSION.
RecordSent ==
    /\ at = "saved"
    /\ message \in {"subscriptions", "describe"}
    /\ backup' = Persisted
    /\ ram' = IF Persisted = None THEN ram ELSE Persisted
    /\ recorded' = [recorded EXCEPT ![message] = app[message]]
    /\ at' = "online"
    /\ UNCHANGED <<app, ssl, nextId, skipHello, message, sessions, completed, discarded>>

\* A message cannot be stored to be sent again, or a HELLO is not acknowledged.
SendFails ==
    /\ at = "saved"
    /\ IF message = "hello" THEN GoOffline ELSE at' = "online" /\ UNCHANGED ssl
    /\ UNCHANGED <<app, nextId, ram, backup, skipHello, message, sessions, completed, discarded, recorded>>
-----------------------------------------------------------------------------
(* The application, the connection and the device *)

\* Functions and subscriptions come and go; a new subscription is sent if there is a
\* connection, which is a Transmit of its own.
ChangeApp ==
    /\ at \in {"offline", "online"}
    /\ app' \in [subscriptions : AppState, describe : AppState]
    /\ UNCHANGED <<ssl, nextId, ram, backup, skipHello, at, message, sessions, completed, discarded, recorded>>

\* The connection is lost or closed.
Disconnect ==
    /\ at = "online"
    /\ GoOffline
    /\ UNCHANGED <<app, nextId, ram, backup, skipHello, message, sessions, completed, discarded, recorded>>

\* A reset at any time; retained memory is lost if the power is.
Reset ==
    /\ GoOffline
    /\ nextId' = 0
    /\ ram' = Blank
    /\ backup' \in {backup, None}
    /\ skipHello' = FALSE
    /\ UNCHANGED <<app, message, sessions, completed, discarded, recorded>>

Next ==
    \/ Resume \/ Handshake \/ HandshakeDone \/ NotifyEstablished \/ DiscardBackup
    \/ \E m \in Message : Transmit(m)
    \/ DiscardSession \/ UpdateSession \/ RecordSent \/ SendFails
    \/ ChangeApp \/ Disconnect \/ Reset

Spec == Init /\ [][Next]_vars
-----------------------------------------------------------------------------
(* Properties *)

TypeOK ==
    /\ app \in [subscriptions : AppState, describe : AppState]
    /\ ssl \in [session : Session \cup {None}, record : Nat]
    /\ nextId \in Nat
    /\ ram \in SessionPersist
    /\ backup \in SessionPersist \cup {None}
    /\ skipHello \in BOOLEAN
    /\ at \in {"offline", "begin", "online", "sent", "saved"}
    /\ message \in Message
    /\ sessions \in 0 .. MaxSessions
    /\ completed \in [Session -> Numbers]
    /\ discarded \subseteq Session
    /\ recorded \in Recorded
    /\ at # "offline" => ssl.session \in Session /\ ram.session = ssl.session /\ ram.valid
    /\ Resumable => backup.session \in Session

\* No record number and no message id is used again in a session once send() returned,
\* whatever resets came in between; the cloud would take the message for an old one.
NumbersFresh ==
    at = "sent" => /\ ssl.record > completed[ssl.session].record
                   /\ message \in WithId => nextId > completed[ssl.session].id

\* A session that was discarded is not in use, and no reset brings it back.
DiscardedStaysDiscarded ==
    /\ ssl.session \notin discarded
    /\ Resumable => backup.session \notin discarded

\* While the device is connected, the copy that a reset would resume from is the session in
\* use, up to the last record, and holds what was recorded as sent: none of the places that
\* change the one copy undoes what was written to the other.
BackupKeepsUp ==
    at = "online" =>
        /\ backup = ram
        /\ backup.session = ssl.session
        /\ backup.numbers.record = ssl.record
        /\ \A part \in DOMAIN recorded : recorded[part] # None => backup.crc[part] = recorded[part]

\* A session is resumed without a HELLO only if the cloud was sent the functions and
\* subscriptions that the application has.
HelloSkippedIfUnchanged ==
    [][Resume /\ message' = "ping" => backup.crc = app]_vars

=============================================================================
