# A TLA+ model of Device OS

This directory holds TLA+ models of the parts of Device OS (the firmware of
Particle devices) whose correctness depends on what happens in which order:
lost and late messages, resets in the middle of a flash write, requests that
overtake each other. The modules are written from the C++ code; TLC checks them
on small instances, and what matters most of the core is proved with TLAPS for
every size.

    tlc -config MCCoAPServer.cfg MCCoAPReliableChannel.tla
    tlapm CoAPReliableChannel_proofs.tla
    tlapm FlashDCD_proofs.tla
    tlapm ChunkedTransfer_proofs.tla
    tlapm FirmwareUpdateRequests_proofs.tla
    tlapm EEPROMEmulation_proofs.tla
    tlapm DTLSSession_proofs.tla
    tlapm ProtocolSession_proofs.tla
    tlapm USBControlRequests_proofs.tla

## Inventory of the system

| Part | Source | State | Operations | What makes it hard | What makes it correct |
|---|---|---|---|---|---|
| CoAP reliable channel | `communication/src/coap_channel.*` | two stores of messages with deadlines, the last message id | send, synchronous send, receive, process, establish | loss, duplication, reordering, a receive loop inside a handler | each request handled once, each message concluded, losses close the session |
| DTLS channel | `dtls_message_channel.cpp`, `dtls_session_persist.h` | mbedTLS context, session saved in backup RAM | establish, send, receive, move session, save, restore | resumption after sleep, a session older than what the server saw | a restored session continues with fresh sequence numbers or not at all, and the copies agree |
| Protocol | `protocol.cpp`, `ping.h`, `publisher.h`, `timesyncmanager.h` | keep-alive, time of the last message, event quota, acknowledgement handlers | begin, event loop, ping, publish, time request | timers against late answers | a dead connection is noticed, a live one is not dropped |
| Chunked transfer | `chunked_transfer.cpp`, `system_update.cpp` | descriptor, bitmap of chunks, counters, flash-update flag | UpdateBegin, chunk, UpdateDone, missing chunks, cancel | loss and repetition of chunks, errors half way, sessions resumed with half an update | only complete files are applied, transfers end |
| Firmware update over USB | `system/src/control/storage.cpp` | one descriptor | start, data, finish, cancel, completion of the reply | requests between a reply and its completion | only complete files are applied, a cancelled transfer is gone |
| USB control requests | `usb_control_request_channel.cpp` | up to four active requests, the current one | INIT, CHECK, SEND, RECV, RESET, set result | interrupt against system thread, id wrap-around | each request is answered once and its memory freed once |
| DCD | `services/inc/dcd.h` | two flash sectors | read, write | reset or error in any flash operation | a write happens completely or not at all |
| EEPROM emulation | `services/inc/eeprom_emulation.h` | two flash pages of records | get, put, clear, page swap | reset in any flash operation, page full | multi-byte put is atomic across resets |
| Completion handlers | `services/inc/completion_handler.h` | handlers with timeouts by id | add, set result, update, clear | answer against timeout | each handler is called exactly once |
| Active objects | `active_object.cpp`, `system_threading.*` | message queues, tasks queued from interrupts | invoke, process, enqueue | three threads and interrupts | no task lost or run twice, no two threads waiting on each other |
| Connection management | `system_task.cpp`, `system_network_internal.cpp`, `system_cloud*.cpp` | network and cloud flags | connect, disconnect, sleep, listen | application, network and system threads change the flags | the requested state is reached |
| Functions, variables, subscriptions | `functions.h`, `variables.h`, `subscriptions.h` | tables | register, dispatch | little | decoding |
| Legacy TCP channel | `lightssl_*`, `spark_protocol.cpp` | AES stream | handshake, send, receive | little: TCP is reliable | decoding |
| HAL, bootloader, Wiring, RTOS, network stacks | `hal`, `bootloader`, `wiring`, `platform` | drivers | | vendored or hardware specific | outside this project |

How they interact: the system thread runs `Spark_Process_Events`, which calls
`Protocol::event_loop`; that receives one message through
`CoAPReliableChannel`, which receives it through the DTLS channel from UDP, and
dispatches it to the chunked transfer, functions, variables or subscriptions.
Whoever sends a message with `confirm_received` runs a second receive loop
inside its handler. The system thread also handles the requests of the USB
channel, which arrive in interrupts, and both ways of updating write the same
flash region. The application reads its configuration from the DCD and data
from the EEPROM.

The hazards each part is exposed to are listed line by line in `PROJECT.json`.

## Modules

| Module | Models | Kind |
|---|---|---|
| `CoAPMessageStore` | `CoAPMessageStore`, `CoAPMessage` | operators on a store |
| `CoAPReliableChannel` | `CoAPReliableChannel` over DTLS, a lossy network and a cloud | state machine |
| `ConfirmableExchange` | what the channel promises the protocol | abstract specification |
| `CoAPReliableChannel_proofs` | duplicate detection, and what becomes of the messages of the device | theorems |
| `DTLSSession` | `DTLSMessageChannel` and `SessionPersist`, with the copies of a session and resets | state machine |
| `DTLSSession_proofs` | | theorems |
| `CompletionHandlerMap` | `CompletionHandlerMap` | operators on a map |
| `ProtocolSession` | the event loop of `Protocol`, `Pinger`, published events and the cloud | state machine |
| `ProtocolSession_proofs` | | theorems |
| `FlashDCD` | `DCD` on two flash sectors that fail | state machine |
| `AtomicStore` | what the DCD promises | abstract specification |
| `FlashDCD_proofs` | | theorems |
| `ChunkedTransfer` | `ChunkedTransfer`, the cloud's side of it and the network | state machine |
| `ChunkedTransfer_proofs` | | theorems |
| `FirmwareUpdateRequests` | firmware update requests of a USB host | state machine |
| `FirmwareUpdateRequests_proofs` | | theorems |
| `FirmwareUpdate` | what either way to update the firmware promises | abstract specification |
| `USBControlRequests` | `UsbControlRequestChannel` between the USB interrupt, the host and the threads, with `ISRTaskQueue` | state machine |
| `RequestService` | what the USB control channel promises | abstract specification |
| `USBControlRequests_proofs` | | theorems |
| `EEPROMEmulation` | `EEPROMEmulation` on two flash pages | state machine |
| `EEPROMEmulation_proofs` | | theorems |
| `MC*` | instances for TLC | |

Operators introduced with a comment "Mutant" are not part of the models. Each is
a form a definition would take with a plausible bug; putting it in the place
of the definition after it makes TLC find a property of the run violated, which
shows that the property depends on that code.

### The reliable channel

A store is a function from message ids to entries: `add()` clears the id first,
so the linked list of the code holds at most one message of an id. An entry
keeps the time left to its deadline in ticks, `Age` counts it down, and
`time_has_passed()` holds at 0. `Process` is one pass of
`CoAPMessageStore::process`. Each call of `receive()` is one action, with the
`process()` of both stores (client first) that ends it: `ReceiveReply`,
`ReceiveNewRequest`, `ReceiveDuplicate`, `ReceiveNothing`, `ReceiveError`. A
handler that answers is `AnswerRequest`, one that drops the message
`DropRequest`. `send_synchronous()` is `SendSynchronous` and then one
`SyncReceive...` step for each turn of its loop, which process the client store
only and drop requests. `sync` is the id it waits for, `handling` the request a
handler is busy with; while either is set the event loop does not run, because
everything happens on the system thread.

A datagram stays in its network set until its time to live is used up, so it may
be delivered never, once or often and in any order. A new DTLS session makes the
datagrams of the old one undecipherable (`EstablishNew`); a resumed one does not
(`EstablishResumed`). Which of the messages sent in one pass goes first is not
distinguished. A message that the channel fails to send resets the session: a first
transmission, a retransmission, an acknowledgement and one that is sent again.
Messages without confirmation touch no state and are left out.

The properties rest on two facts about the world, stated as assumptions:
`Lifetime < Span`, copies of a request die before the answer cached for it
expires (the code keeps it for MAX_TRANSMIT_SPAN = 45 s), and `IdRetired`, the
16-bit message ids do not come round while traces of their last use remain.

Runs: `coap_server` has one request of the cloud and one message of the device,
with the shortest time bounds for which a duplicate can arrive after a
retransmission, after the answer, and just before the cached answer expires.
`coap_client` has two ids, so that two messages can be outstanding while a third
waits for its id, one of them synchronous. One retransmission is enough: the
first transmission, a retransmission and the expiry are different code paths,
and further retransmissions repeat the second.

Fairness: the system thread keeps running its loops (weak fairness on
`ReceiveNothing` and `SyncReceiveNothing`), finishes handling a request, and
time passes. No message need arrive and no error need occur. Under this every
message is concluded and every synchronous send returns.

`ImplementsExchange` maps the channel to `ConfirmableExchange`: the session is
open or closed, and outcomes, received messages and handled requests are the
history variables. A lost message may only be reported together with the end of
the session, an acknowledged one only if the cloud has it, and a request is
handled once in a session. `LossClosesSession` is the first of these alone, and
`TransmitBound` counts the transmissions of a message; both are proved, so no
run repeats them.

### The DTLS session

A session exists in up to three places: in the mbedTLS context (`ssl`), in
`sessionPersist` (`ram`) and in retained memory (`backup`). Only the last one
survives a reset. A session is its number here; of its contents the model keeps
the number of the last record (`out_ctr`), the last message id and the checksums of
what the cloud was told. A checksum is the state it was computed from, so there
are no collisions. Copying to retained memory is one step, as is restoring from
it; the code has no checksum over the copy, and a reset within the `memcpy` is not
modelled.

`at` says where the system thread is. Sending is two steps, `Transmit` and
`UpdateSession`, with a reset possible in between; messages that change what the
cloud knows have a third (`RecordSent`: SAVE_SESSION, the checksum, LOAD_SESSION).
`Resume` and `HandshakeDone` are `establish()`, with the decision of `begin()` to
send a HELLO or a ping; `Handshake` is one that fails. An invalidated copy keeps its
checksums, in RAM and in retained memory, and an invalid one that is loaded brings them
back (`Loaded`); nothing else of it is ever used. `backup` is `None` when the memory was
lost. Requests that the cloud might make before it acknowledges the HELLO are not
modelled.

`dtls` has two sessions of four records. The second session is needed for one to
be discarded and another to begin; four records are a HELLO, a description,
subscriptions and one more. Three sessions of four records pass as well
(15.6 million states). There is no fairness: all properties are about safety.
`NumbersFresh` speaks of messages whose `send()` returned; a reset between the
transmission and `update()` does make the device use a number again.

### The event loop and published events

`ProtocolSession` is the system thread's view of a session: `Idle`, `Receive`,
`ReceiveUpdate` and `ReceiveError` are the ways a turn of `event_loop()` can go,
each after the handlers that expired were called. Times are counted down from, or
up to, the last event, never as absolute times: `sinceMessage` is
`now - last_message_millis`, `sinceUpdate` is `now - last_ack_handlers_update`.
`Tick` is held back by two assumptions: the loop turns at least every `MaxBlock`
ticks, and a cloud that can be reached answers a ping within `MaxLatency`, which is
at most `PingTimeout`. The answer lies in `socket` until the loop reads it. `Idle` is a turn
in which there is nothing to read, but also one in which the channel swallowed what it read:
a duplicate, an acknowledgement nobody waits for, a packet of one byte. Such a datagram
may come at any time and lie ahead of the answer, and then the pinger runs with the
answer unread (see Findings). What
`begin()` resets is reset in `Close` already, since nothing reads it in between.

Fairness: the loop turns, connecting is tried again (it may fail), time passes
(strongly fair: a socket with a message in it all the time must not stop it),
and the answer to a ping arrives, which `Tick` waits for. Nothing is assumed of
acknowledgements, errors, wake-ups and the application.

`protocol` has two events, so that one handler can expire while another stays; a
ping timeout as long as the loop may be blocked, so that the answer and the timeout
meet; and keep-alive intervals of 0 (no pings) and 2. `MaxWakes` bounds the wake-ups
between two messages: each sends a ping and with it resets the time the timeout is
compared with, so wake-ups without end would keep a dead session alive. During an
update no pings are sent either, and `DeadIsNoticed` says so. `MaxTicks` bounds the
ticks of the handler map. In the code they are 32 bits wide and start again
whenever a handler expires or the map is empty; only if some handler were pending
and acknowledged in time at every moment for 49 days would they wrap.

`LiveNotDropped` says when a turn may close the session of a cloud that can be reached: never,
unless the answer has arrived and waits behind a swallowed datagram.

`SilenceIsNoticed` is the bound in time behind `DeadIsNoticed`. `silence` counts the ticks
since a message was read, the device was woken, or the loop turned during an update or
with pings switched off, when no ping is due. In an open session it never exceeds
`SilenceBound`: the longest interval, the ping timeout, and a turn of the loop
for noticing each. In the run the bound is reached.

`TimeoutInTime` is exact in both directions. A handler may be called up to one turn
of the loop too late, and, because `ticks_` is as old as the last `update()` when a
handler is added, up to one turn too early: `protocol_defs.h:82` promises the cloud
20 seconds for its acknowledgement.

### The DCD

A sector is its header, data cells, footer (watermark, two-bit counter) and
checksum. The header has two words, each blank, valid or something else (`mark` and
`seal`; the seal may also be the one of a superseded sector). The checksum is what it
was computed from, so it matches exactly the same content: collisions of CRC-32 are
abstracted away. `currentSector()` is evaluated on the sectors as the code does. Each
flash operation of `_writeSector()` and `write()` is a step (`EraseTarget`, `CopyCell`,
`WriteFooter`, `WriteCrc`, `SealTarget`, `RetireSource`), and instead of each the
operation may be cut short, with an error that the call returns (`Fail`) or with a
reset (`Reset`). `CutShort` says what may be left: any of the words it works on done,
not done or damaged, since `InternalFlashStore::write` goes on after a word that failed.
A header is always written whole, so superseding a sector writes its watermark too. Of
an erase any part of the words may be gone and the others are intact; words that an
erase leaves half erased are not modelled.

Before the first use (`Factory`) the sectors are erased, or were used by version 1 of the
code: one of them is valid, the other one is too or has its seal cleared and old data in it
or is erased. `Factory` may also be garbage without a valid sector; see Findings.

`ImplementsAtomicStore` maps this to `AtomicStore`: the content is what `read()` would
return, `pending` is the write under way, and it takes effect at one moment
or, unless it succeeds, perhaps not at all. Nothing else ever changes the content, so
a later write that fails cannot undo an earlier one. Its mutant leaves the counter out
of the checksum: a reset in an erase then takes the superseded sector for the newer
one, and the last successful write is lost.

The run has two cells, enough for a torn copy, two values, which are interchangeable
(symmetry), and unbounded sequences of writes, failures and resets; the counters are
modulo 4 as in the code, so all of their states occur. `LoneSeal` is FALSE: a
watermark does not fail where the seal next to it is written (see Findings).

### Chunked transfer

A file is a number of units and a chunk some of them, so the last chunk may be
shorter. In fast mode the network holds a set of chunks and may deliver each
any number of times or lose it; otherwise the cloud sends one chunk after the
other and repeats one reported bad. Confirmable messages are steps shared by the
cloud and the device, which the reliable channel justifies: handled once, or
the session is lost. A handler that fails to send ends in `Bail`, which is what
`event_loop` and `cancel()` do: `updating` stays set until the next `begin()`.
After `begin()` on a resumed session the cloud may go on with its transfer; the
bitmap is then a null pointer, and what the code reads through it is arbitrary
(`MissingAnswers`). A chunk that arrives damaged is recognized by its checksum in both modes,
and an index beyond the bitmap is ignored. An UpdateBegin without a descriptor, for which
the device fills in defaults, is not modelled. The cloud starts a transfer only when no chunk of an
earlier one is in flight.

`AppliesComplete` speaks of what was handed to `save_firmware_chunk`, whose
result the code ignores; the image itself is validated in the HAL.
`ImplementsUpdate` maps the transfer to `FirmwareUpdate`: it is receiving while
`updating` is set and installing once the update is applied, and the units missing
are those of the announced file that are not at their place. So a chunk that
is repeated, late or out of order never spoils a unit in place, and the file is
installed with none missing. `AppliesComplete` says the latter alone; `CountsAgree`,
for chunks that come in turn, is proved but not repeated by the run. The run has files of three and four units and chunks of one and two, so that
there are several chunks, a short last one, and more missing chunks than may be
asked for at once. Fairness: the cloud goes on, and a chunk sent again and again
arrives (strong fairness); nothing is assumed of errors. `TransferEnds` says that
asking for missing chunks does not go on for ever.

### Firmware update requests

Requests are handled one at a time, but an update is applied by the completion
handler of the reply to the finish request; other requests may come between.
Because `cancelFirmwareUpdate()` never releases the descriptor (see Findings),
the file that is applied is the one that was validated. Its mutant shows that
simply releasing it would let a half-received file be applied.

`ImplementsUpdate` maps the requests to the same `FirmwareUpdate` as the transfer over the
air: there is a descriptor or not, the device is restarting or not, and the units
missing are those not written. `AppliesComplete` is what this says of the restart,
proved and not repeated by the run.

### USB control requests

The host's INIT, CHECK, SEND, RECV and RESET are handled in the USB interrupt
and are one step each, as are the completion of a data stage and a bus reset. What
the system thread and handlers do is split where an interrupt can come between:
`AllocRequestData` and `ConcludeAlloc`, `SetResult` and `ConcludeResult`, taking a task
(`TakeTask`) and running it. `FinishActive` decides what becomes of the memory of a
request, and its cases are those of `finishActiveRequest()`. The task queue is that
of `active_object.cpp`.

A transfer is given up in three ways. A bus reset cancels all requests and ends the
transfer (`BusReset`). A transfer that times out cancels all requests as well, but the
USB core goes on with its data stage (`TransferTimeout`, `LateDataStage`): it may still
complete, and the channel is not told. A host that begins another control transfer
abandons the one before without any notice (`Aborts`). So `FreedIsForgotten` speaks
of transfers in progress that have not timed out, and `ResultMeansReceived` of data
stages completed before their timeout; what the late data stage does is in Findings.

The run has two request objects that may both be active, with bus resets and timeouts at any
time: enough for one request to be cancelled while the other one is in the thread,
and for INIT to find no room. Requests beyond two are treated alike. Fairness: the
system thread takes tasks and every handler sets a result in the end; nothing is
assumed of the host. A host that abandons a control transfer (`Aborts`) is left out
there because of the finding `usb_control_aborts`, which needs nothing else.

`ImplementsService` maps the channel to `RequestService`, in which an object is free,
allocating, receiving, submitted, handling or done, and the interrupts, the task
queue and the buffers are gone. A submitted request goes to its handler once and
nobody takes it away before the handler has concluded, while anything else may be
cancelled at any moment, several at a time. It holds for hosts that give up transfers, too.

Raw vendor requests and the contents of requests are not modelled, and the
16-bit id is the object itself.

### The EEPROM emulation

A page is the status in its header and a log of records. `forEachValidRecord`
stops at the first slot without a valid record, so everything a read returns
follows from `ValidSlots`. A `put()` either appends the bytes that change, from
the far end back to the first free slot (`Appended`), or swaps pages (`Moved`).
Each header or record written is a step, and instead of each the device may be
reset (`Reset`) with any part of the operation done, or programming may fail (`Fail`): what
is read back is not what was written. Marginal cells turn bits that were programmed
to 1 into 0 and others may not be programmed at all, so a record that fails may be
any other record, valid or not (`Misread`). A header that fails stays as it was or becomes
no status at all; that it might read back as the status of an active page is left out.
A record is programmed in two half-words, as on the STM32F1
(`flash_storage_impl.h`); of an interrupted erase any part of the slots, and the
header or not, is gone. `Bytewise` programs single bytes instead, as the
`RAMFlashStorage` of the unit tests does: the code's own documentation makes no
difference between them.

An erase is cut short by resets and does not fail otherwise. The flash is blank
in the beginning, and a range given to `put()` lies within the capacity. The 16
bits of an index therefore never wrap; that `put(65535, ..)` would reach byte 0 is
not modelled. Nor is a stray index of 0xFF80 and more, which makes
`forEachUniqueValidRecord` loop for ever; the model has one stray index below that.

What is promised is less than the documentation says, and the history variables
say by how much. A failed record at the first free slot is visible at once if it is
valid: `spoilt` holds the byte it was for and the one it is about, and `AtomicPut` is
stated for all other bytes. If the put then succeeds by a page swap, the byte that the
spoilt index names is carried over, which `PutStores` excepts. When no such write failed
(`spoilt = {}`), a put is atomic and what is stored is exact. `AtomicPut` and
`ReadsAreDurable` exclude a put in which marking the old page inactive failed, until it is
made up for (`unretired`): the second attempt of the swap erases the page that was just
made active.

The run has two cells, one value besides 0xFF, puts of one and two bytes, two
slots in a page and two failures in a put. That is enough for a put that fits, one that
does not, one that meets the remains of an earlier one, an append that fails, a swap that
fails once and a swap that fails twice. Puts, clears and resets are unbounded in number.

## Findings

Each of these runs ends with a counterexample:

- `usb_update_cancel`: cancelling an update over USB fails and leaves it in
  place, and no new one can be started until the device restarts.
- `usb_control_aborts`: when the host gives up the transfer of a reply and begins
  another one, the completion of the other one ends the first request with the
  result for "reply received".
- `dtls_hello`: `SKIP_SESSION_RESUME_HELLO` is set in `Protocol::flags` when a session
  is first resumed without a HELLO and is never cleared; later resumptions skip
  the HELLO although the application has changed.

Other disagreements between the code and its documentation met while modelling,
which no run records:

- `coap_channel.h:159-162` declares NSTART = 1 as the number of outstanding messages
  allowed. `send()` does not look at it; `coap_client` has two outstanding.
- `dcd.h:75-76` says that a failed write is reattempted up to three times; `write()`
  returns the first error (`Fail`).
- `dcd.h:457-459` says that a write starts from a valid sector. When initializing one
  fails the write goes on and seals a copy of whatever the flash held, and marking the
  sector copied as superseded makes it the fallback: `MCFlashDCD` with
  `Factory = {"garbage"}` violates `ImplementsAtomicStore` and `BackupKept`.
- `currentSector()` (`dcd.h:356-392`) judges the second sector by its seal alone. If the
  watermark of a header could not be programmed but its seal was, `write()` returns an
  error, the sector is current nevertheless, and the next write erases the other one:
  after a reset no sector is found and all content is lost. `MCFlashDCD` with
  `LoneSeal = TRUE` violates `ImplementsAtomicStore`.
- `eeprom_emulation.h:206-207` says that a put is atomic across resets. On flash
  programmed byte by byte, such as the one of the unit tests, a reset between the
  two bytes of an index leaves a valid record of an index no byte has, and makes the
  other bytes of the put visible without the one being written: `MCEEPROMEmulation`
  with `Bytewise = TRUE`, one value and no failures violates `AtomicPut`.
- The same promise does not hold for the marginal cells that `eeprom_emulation.h:61-67` and
  `74-79` speak of. The record written last makes an append visible; if it reads back as
  another valid record the put goes on with a page swap, but until the swap is done, and for
  good if the device is reset before or the swap fails, `get()` returns the rest of the
  block with a wrong byte. If it is the index that is wrong, the swap copies
  the record of the other byte to the new page, and that byte has changed although the put
  succeeded. `AtomicPut` without `spoilt` is violated.
- A transfer on the control endpoint that times out is only cancelled on the side of the
  requests (`usb_hal.c:228-237`, `185-193`). The USB core goes on with the data stage
  (`usbd_core.c:216-319`) and with the buffer of the request, which the system thread frees;
  and a reply may arrive at the host although its handler was told that it was aborted,
  contrary to `system_control.h:101`. Only transfers of more than 64 bytes use the
  buffer of the request.
- `protocol.cpp:384-391` runs the pinger in every turn that gave no message, also
  when the channel swallowed one. After the loop was blocked, a duplicate that lies ahead of the
  answer to a ping lets the pinger end a session that is alive. `LiveNotDropped` without
  its exception is violated.
- The id of a USB request wraps to 0, which RESET takes for "all requests".

## Proofs

`CoAPReliableChannel_proofs` proves for every number of message ids, every set of
requests and all time bounds that satisfy the named assumptions:

- `TypeCorrect`: `Spec => []TypeOK`. The lemmas before it state the types of what
  the operators of the store return.
- `HandledAtMostOnce`: `Spec => []AtMostOnce`. `AtMostOnce` is not inductive: a second
  copy could arrive when the store has forgotten the request. `DedupInv` adds
  that every copy in flight is young (`CopiesExpire`: its time to live and the age
  of the request add up to at most `Lifetime`) and that a request handled before is
  either too old for copies to exist or still remembered for long enough
  (`Remembered`). `PassRemembers` shows that a pass over the stores forgets only
  entries whose time is up, `UnknownIsNew` that a request not in the store was
  not handled.

The second half of the module proves, from the same assumptions, `LossCloses`,
`AckedIsReceived`, `TransmissionsBounded`, `HandlerStaysInScope`, `QuietIsDone` and the
refinement `ImplementsConfirmableExchange`. One invariant, `DeliveryInv`, carries all of
them. Its core `Agree(c, sess, out)` relates the client store, the session and the
outcomes: an id is stored exactly while its outcome is pending, its transmissions
do not exceed the count of the entry, only the entry being waited for has a
handler, and a loss means a closed session. `Agree` takes the three as parameters
because a receive changes them in two parts; `ReplyAgrees` shows it for what an
acknowledgement leaves behind, `PassAgrees` and `SyncAgrees` for the pass of
`process()` that follows, in the event loop and in `send_synchronous`. The refinement
follows from how little such a pass may change (`OnlyLosses`) and, for the requests
of the cloud, from `UnknownIsNew` above.

`FlashDCD_proofs` proves for every number of cells and every set of values:

- `TypeCorrect`, `SuccessIsStored`, `BackupIsKept`, and `ImplementsStore`: the DCD
  implements `AtomicStore`. All assume that no watermark fails alone (`NoLoneSeal`), and all but
  the first that the sectors are blank or of version 1 before the first use
  (`FactoryAssumption`); Findings says what happens otherwise. The sector `read()` chooses
  depends on headers, seals, counters and checksums of both sectors, and any of these may be half
  erased or damaged. `Settled(f, c)` says when the choice falls on `c` and stays there whatever
  is done to the other sector before it is sealed (`SettledIsCurrent`, `SettledStays`). That
  erasing in parts never makes a checksum valid again (`ErodedStays`) needs `Eroded`:
  since its checksum was written a sector only lost content. `Progress` and
  `Sources` describe a call under way, `AfterOperation` what each interruption may
  leave, and `StepIsAtomic` concludes that the content changes only when the copy is
  sealed, and then to the content with the write under way. The checksum is taken to be free
  of collisions, as in the model.
- What remains when the sectors may have held anything else: a write that succeeded
  has stored its cell (`CellIsStored`), and from the first valid sector on there always
  is one and the content changes by the write under way or not at all
  (`AtomicFromFirstSector`). The invariant is the same, with what it says of a sector's
  content before the first write restricted to the assumption.

`ChunkedTransfer_proofs` proves for every set of files with a longest one, chunks of
every size, any set of chunks in flight and all limits on what is asked for again:

- `TransferTypeCorrect`, `AppliedIsComplete`, `ReceivedIsSaved` and `CountsStayEqual`: the
  two invariants of the run `ota` besides the type, and what the count of a transfer in
  turn means. `OneTransfer` says that while an update is under
  way the cloud, the chunks in flight and the descriptor belong to the same file; it
  is what a refused update, which overwrites the descriptor, might break. `InTurn`
  carries the proof of transfers without a bitmap: what the cloud has yet to send is
  what the device has not counted, and everything before is stored. That chunks
  cover a file, the last one included, is a lemma on division.
- `UpdateIsImplemented`: `Spec => ImplementsUpdate`, with one lemma for each way a step can
  go: `AcceptBegins` (UpdateBegin makes all units missing), `ChunkStores`
  (a chunk that is saved takes units from the missing ones and adds none, which is
  `SaveSpoilsNothing`: it writes only what belongs there), `CompleteInstalls` (UpdateDone with a
  full count or bitmap finds nothing missing) and `OthersLeaveIt`. It needs the storage
  before an update to be told from what is stored (`NothingAssumption`).

`EEPROMEmulation_proofs` proves for every capacity, size of the pages and length of a
put, with flash programmed by half words (`HalfWordAssumption`; see Findings for flash
programmed byte by byte):

- `EEPROMTypeCorrect`, `PutIsAtomic`, `ReadsAreWhatAResetFinds` and `PutIsStored`. A page
  is `Prefix(page, n, k)`: k valid records and then one that is not. `AppendPlan` and
  `MovePlan` show what a put writes, each byte once and in an order without gaps;
  `AppendedContent` and `MovedContent` that a page with all of these records holds the old
  content overlaid with the block. `Appending` says that the records of an append lie
  behind the first free slot until the last one closes the gap (`AppendWrite`),
  what closing it with a spoilt record changes, and
  that what follows them is not valid, which is what `Separated` checks for in the
  code. `IsCopying` describes the other page during a swap, all of whose slots beyond the
  records copied are empty (`MoveWrite`). `PagesOK` tells which page a reset chooses:
  the one in use except between activating the other one and retiring it, when both
  hold what `AtomicPut` allows (`SwappedContent`).

`FirmwareUpdateRequests_proofs` proves for files and pieces of every size:

- `RequestsTypeCorrect`: `Spec => []TypeOK`; a transfer never goes beyond the end
  of its file.
- `RestartsIntoCompleteFile`: `Spec => []AppliesComplete`. That the file is complete
  when the device restarts follows from two facts about the time before:
  everything up to the next address has been written (`WrittenSoFar`), and from
  the first accepted finish request on the transfer is complete and stays as it is
  (`CompleteUntilRestart`), since no further piece fits (`PieceExtends`) and
  cancelling keeps the descriptor (`CancelKeeps`).

- `UpdateIsImplemented`: `Spec => ImplementsUpdate`. A data request only adds to
  what is written (`WritingStores`), the completion of the reply to an accepted finish request
  finds nothing missing (`ReplyInstalls`), and a request that is refused is no step of the
  update (`RefusedStutters`). A null pointer
  is assumed to be no descriptor (`NoneAssumption`).

The conjuncts of the inductive invariant that do not occur in a run
(`WrittenSoFar`, `CompleteUntilRestart`) are checked by their proof alone.

`DTLSSession_proofs` proves for any number of sessions and records and any set of
application states:

- `TypeCorrect`, `NumbersStayFresh`, `DiscardedIsForgotten` and `BackupIsCurrent`: the
  four invariants of the run `dtls`. None but the type is inductive. `Copies` relates
  the places: a persistent session in RAM is the one in retained memory, and before
  it is persistent there is none there that could be resumed. `SessionsSoFar` makes a new session
  differ from every one used or discarded before, `NumbersKnown` says that no copy is
  behind the numbers for which `send()` has returned, and `RecordKept` that what was
  recorded as sent in a session is in each copy that would be written over another.

`ProtocolSession_proofs` proves for every number of events, all intervals and
timeouts, and every bound on a turn of the loop:

- `TimeoutsInTime`: `Spec => []TimeoutInTime`. `HandlersOK` says that no handler
  expires before the nearest expiry, so that skipping the scan in `update()` loses
  none; `TicksKnown` relates the ticks a handler has left to its age, also after
  the ticks have started again from 0 (`UpdateHandlers`, `TurnOK`). That a set of
  natural numbers has a minimum comes from the library (`MinOfNats`).
- `LiveSessionsStay`: `Spec => LiveNotDropped`, with the exception of a swallowed datagram
  ahead of the answer. `PingAnswered` says that the answer to a
  ping is in the socket or arrives while `sinceMessage` is still within `MaxLatency`.
- `SilenceNoticed`: `Spec => []SilenceIsNoticed`, the part of `DeadIsNoticed` that is safety:
  not only in the end but within `SilenceBound`. It is not inductive. `SilenceKnown` relates
  `silence` to the time the pinger compares: while no answer is expected it is at most
  `sinceMessage`, and after a ping at most the longest interval and a turn more.
- `SessionTypeCorrect`: `Spec => []TypeOK`, which includes that `nearestTimeout_` is always
  the nearest expiry (`NearestIs`), also after a handler was added or taken.

`USBControlRequests_proofs` proves for any number of request objects and any
USB_REQUEST_MAX_ACTIVE_COUNT:

- `ControlTypeCorrect`, `RequestsHaveOneOwner` and `HandlersRunAtTheEnd`, also for hosts that
  give up transfers, and `FreedStaysForgotten` and `ResultsMeanReceived` for those that do not
  (`~ Aborts` is an assumption of these two; see the finding `usb_control_aborts`). The
  invariant `ChannelInv` speaks of one object at a time: `Owned` says that a thread, the
  queue or a handler holds it exactly while it is live and not waiting for the host,
  `Purposeful` that its state fits what is being done with it, and `Answered` that it has a
  final result once it is no longer active. So each step needs to be looked at for
  the one object it is about (`OneObject`, `WorkerStep`), and `FinishKeeps` covers all
  steps that cancel or complete requests, of whatever number. That the list, its count
  and the queue change as the sets of their members do is shown once
  (`InOrderSelects`, `QueueFinish`, `FinishActiveEffect`).
- `RequestsHandledOnce`: `Spec => ImplementsService`, without an assumption on `Aborts`. `PhaseFits`,
  which follows from `Owned` and `Purposeful`, says how the phase of an object shows in its state;
  `PhaseMoves` says which changes of one object are moves of the abstract
  specification, `FinishActiveServes` that cancelling any number of requests is its `Cancel`,
  and `WorkerServes` the same for the steps of the threads.

The assumptions used are the named ASSUMEs of the modules, `FactoryAssumption`,
`NoLoneSeal`, `HalfWordAssumption` and, for two theorems, `~ Aborts`. The inductive invariants of these modules hold on the instances
of their runs as well, but for the two named above.

Only model-checked: the liveness properties, which TLAPS cannot prove. Every other
property of a passing run is stated by a theorem.

## Plan

1. Done: reliable channel and DCD with their abstract specifications, the theorems
   about them and the proofs of both refinements; chunked transfer, firmware update
   requests, USB control requests, EEPROM emulation, the DTLS session and the event
   loop of the protocol with their theorems.
2. Next modules: `ActiveObject` with the queues of the threads, and the
   connection flags of `system_task.cpp`.
3. Compositions: the three sources of firmware updates over one flash region; the
   reliable channel over `DTLSSession`, so that a retransmission meets a resumed
   session with the numbers it continues from.

## Not modelled

The repository has 1.3 million lines, nearly all of them vendored: the WICED SDK,
the STM32 peripheral libraries, mbedTLS, FreeRTOS and lwIP, the cellular and Wi-Fi
drivers under `hal`, and generated tables. They are used here only as what the
components above see of them: flash that fails, a network that loses messages,
interrupts and time. A model of them from this source would say nothing about
Device OS. The map therefore covers a small share of all lines, and much of
what `communication`, `services` and the control requests of `system` do.

Of Device OS itself these parts are left out:

- Encoding and decoding of messages, requests of functions, variables and
  subscriptions: sequential code with little state, covered by unit tests.
- The legacy TCP channel: a byte stream whose order and reliability TCP provides.
- Rate limiting of events and time synchronization: a few comparisons with a clock.
- The handshake and record layer of DTLS.
- LEDs, logging and diagnostics; the Wiring API, which wraps the HAL; the
  bootloader.
- The threads' message queues and the connection flags: planned.
