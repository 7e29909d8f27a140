-------------------------- MODULE USBControlRequests --------------------------
(***************************************************************************)
(* The control requests of a USB host (usb_control_request_channel.cpp).   *)
(* The host's INIT, CHECK, SEND, RECV and RESET transfers are handled in   *)
(* the USB interrupt; buffers are allocated, requests handled and memory   *)
(* freed on the system thread, which takes tasks from the ISRTaskQueue,    *)
(* and a request may be concluded on the application thread.  An interrupt *)
(* may come between any two steps of the threads.                          *)
(*                                                                         *)
(* The host names a request by its 16-bit id; here it names the object, so *)
(* ids are assumed not to come round while a request is active.            *)
(***************************************************************************)
EXTENDS Naturals, Sequences, FiniteSets

CONSTANTS
    Obj,        \* request objects the system pool has room for
    MaxActive,  \* USB_REQUEST_MAX_ACTIVE_COUNT
    Aborts,     \* the host may give up a control transfer and begin another one
    None

ASSUME ChannelAssumption ==
    /\ MaxActive \in Nat \ {0}
    /\ Aborts \in BOOLEAN

Results == {"UNKNOWN", "HANDLED", "NONE", "CANCELLED", "ABORTED"}
Request == [state   : {"free", "ALLOC_PENDING", "ALLOC_FAILED", "RECV_PAYLOAD", "PENDING", "DONE"},
            payload : {"none", "small", "large"},  \* request_size: 0, <= 64, > 64
            data    : {"none", "pooled", "heap"},  \* request_data and POOLED_REQ_DATA
            reply   : BOOLEAN,                     \* reply_data
            handler : BOOLEAN,                     \* a completion handler is set
            result  : Results,
            received : BOOLEAN]                    \* history: the reply or result reached the host in time

Task == [func : {"allocRequestData", "invokeRequestHandler", "finishRequest"}, req : Obj]
Job == [step : {"taken", "allocated"}, task : Task]
Transfer == [kind : {"in", "send"}, req : Obj \cup {None}, timedOut : BOOLEAN]

ASSUME NoneAssumption == None \notin Obj /\ None \notin Job /\ None \notin Transfer

VARIABLES
    req,        \* the request objects
    active,     \* activeReqs_, the newest first
    count,      \* activeReqCount_
    curReq,     \* curReq_
    tasks,      \* SystemISRTaskQueue
    running,    \* what the system thread is executing of allocRequestData and finishRequest
    handling,   \* requests a handler is busy with
    setting,    \* requests in setResult(), before its atomic block
    transfer    \* the data stage in progress on endpoint 0

vars == <<req, active, count, curReq, tasks, running, handling, setting, transfer>>
threads == <<running, handling, setting>>

Free == [state |-> "free", payload |-> "none", data |-> "none", reply |-> FALSE,
         handler |-> FALSE, result |-> "UNKNOWN", received |-> FALSE]

TypeOK ==
    /\ req \in [Obj -> Request]
    /\ active \in Seq(Obj)
    /\ count \in 0 .. MaxActive
    /\ curReq \in Obj \cup {None}
    /\ tasks \in Seq(Task)
    /\ running \in Job \cup {None}
    /\ handling \subseteq Obj
    /\ setting \subseteq Obj
    /\ transfer \in Transfer \cup {None}

Init ==
    /\ req = [o \in Obj |-> Free]
    /\ active = <<>>
    /\ count = 0
    /\ curReq = None
    /\ tasks = <<>>
    /\ running = None
    /\ handling = {}
    /\ setting = {}
    /\ transfer = None
-----------------------------------------------------------------------------
(* Helpers of the interrupt *)

Active == {active[i] : i \in DOMAIN active}
Live(o) == req[o].state # "free"
TaskOf(func, o) == [func |-> func, req |-> o]

\* The system thread or a handler still works on the request.
InThread(r) == r.state \in {"ALLOC_PENDING", "PENDING"}

\* Only pool memory can be freed in an interrupt.
WithoutPooledData(r) == [r EXCEPT !.data = IF @ = "pooled" THEN "none" ELSE @]

\* Mutant: the completion handler is forgotten.
HoldsBuffers(r) == WithoutPooledData(r).data # "none" \/ r.reply

HoldsMemory(r) == WithoutPooledData(r).data # "none" \/ r.reply \/ r.handler

\* finishActiveRequest(), for the object.
Detached(r) ==
    IF InThread(r) THEN [r EXCEPT !.state = "DONE"]
    ELSE IF HoldsMemory(r) THEN WithoutPooledData(r)
    ELSE Free

\* What is at some positions of a list, in order: the only member of this set.
InOrder(list, positions) ==
    {[n \in 1 .. Cardinality(positions) |-> list[at[n]]] :
        at \in {at \in [1 .. Cardinality(positions) -> positions] :
                \A m, n \in 1 .. Cardinality(positions) : m < n => at[m] < at[n]}}

DetachAll(os, result, received) ==
    req' = [o \in Obj |-> IF o \in os THEN Detached([req[o] EXCEPT !.result = result, !.received = received])
                          ELSE req[o]]

\* Mutant: cancelling one request is counted as cancelling all.
FinishActiveCountingAll(os, result, received) ==
    /\ DetachAll(os, result, received)
    /\ active' \in InOrder(active, {i \in DOMAIN active : active[i] \notin os})
    /\ count' = count - Len(active)
    /\ UNCHANGED tasks

\* The threads are done with the request, but it holds memory that they must free.
ToFinish(o) == ~ InThread(req[o]) /\ HoldsMemory(req[o])

\* finishActiveRequest() of some of the active requests, one after the other.
FinishActive(os, result, received) ==
    /\ DetachAll(os, result, received)
    /\ active' \in InOrder(active, {i \in DOMAIN active : active[i] \notin os})
    /\ count' = count - Cardinality(os)
    /\ \E later \in InOrder(active, {i \in DOMAIN active : active[i] \in os /\ ToFinish(active[i])}) :
          tasks' = tasks \o [i \in DOMAIN later |-> TaskOf("finishRequest", later[i])]

Reply(o) == transfer' = [kind |-> "in", req |-> o, timedOut |-> FALSE]

\* The channel will be told when the data stage ends (USB_InSetupRequest is not NONE).
InProgress == transfer # None /\ ~ transfer.timedOut

\* The host begins a control transfer when the last one has ended or timed out; it may also
\* give one up before.
Setup == ~ InProgress \/ Aborts
-----------------------------------------------------------------------------
(* Transfers of the host, handled in the USB interrupt *)

\* processInitRequest(): the buffer is pooled if the payload is small and the pool has room.
NewRequest(o, payload, pooled) ==
    [Free EXCEPT !.payload = payload,
                 !.state = IF payload = "none" THEN "PENDING" ELSE IF pooled THEN "RECV_PAYLOAD" ELSE "ALLOC_PENDING",
                 !.data = IF pooled THEN "pooled" ELSE "none"]

InitRequest ==
    /\ Setup
    /\ Reply(None)
    /\ UNCHANGED <<curReq, threads>>
    /\ IF count >= MaxActive \/ \A o \in Obj : Live(o)
       THEN UNCHANGED <<req, active, count, tasks>>      \* BUSY, NO_MEMORY
       ELSE \E o \in {x \in Obj : ~ Live(x)}, payload \in {"none", "small", "large"}, pooled \in BOOLEAN :
              /\ pooled => payload = "small"
              /\ req' = [req EXCEPT ![o] = NewRequest(o, payload, pooled)]
              /\ active' = <<o>> \o active
              /\ count' = count + 1
              /\ tasks' = CASE payload = "none" -> Append(tasks, TaskOf("invokeRequestHandler", o))
                            [] pooled           -> tasks
                            [] OTHER            -> Append(tasks, TaskOf("allocRequestData", o))

\* Mutant: a request is done with when its result was fetched, also if it has a reply.
ResultIsAllAlways(r) == r.state = "DONE"

ResultIsAll(r) == r.state = "DONE" /\ ~ r.reply

\* processCheckRequest(); the data stage carries the result if there is no reply to fetch.
CheckRequest ==
    /\ Setup
    /\ UNCHANGED threads
    /\ \/ \E o \in Active :
            \/ /\ req[o].state # "ALLOC_FAILED" /\ ~ ResultIsAll(req[o])
               /\ Reply(None)
               /\ UNCHANGED <<req, active, count, tasks, curReq>>
            \/ /\ req[o].state = "ALLOC_FAILED"
               /\ FinishActive({o}, req[o].result, FALSE)
               /\ Reply(None)
               /\ UNCHANGED curReq
            \/ /\ ResultIsAll(req[o])
               /\ curReq' = o
               /\ Reply(IF req[o].reply THEN None ELSE o)
               /\ UNCHANGED <<req, active, count, tasks>>
       \/ Reply(None) /\ UNCHANGED <<req, active, count, tasks, curReq>>    \* NOT_FOUND

\* The SETUP stage of SEND: a large payload goes straight to the request's buffer,
\* a small one to a buffer of the HAL.
SendSetup ==
    /\ Setup
    /\ \E o \in Active :
          /\ req[o].payload # "none"
          /\ req[o].payload = "large" => req[o].state = "RECV_PAYLOAD"
          /\ transfer' = [kind |-> "send", req |-> o, timedOut |-> FALSE]
    /\ UNCHANGED <<req, active, count, curReq, tasks, threads>>

\* Mutant: the payload is taken whatever the state of the request.
SendRequestAnyState ==
    /\ InProgress /\ transfer.kind = "send"
    /\ transfer' = None
    /\ LET o == transfer.req
       IN  IF o \in Active
           THEN /\ req' = [req EXCEPT ![o].state = "PENDING"]
                /\ tasks' = Append(tasks, TaskOf("invokeRequestHandler", o))
           ELSE UNCHANGED <<req, tasks>>
    /\ UNCHANGED <<active, count, curReq, threads>>

\* processSendRequest() when the payload has arrived.
SendRequest ==
    /\ InProgress /\ transfer.kind = "send"
    /\ transfer' = None
    /\ LET o == transfer.req
       IN  IF o \in Active /\ req[o].state = "RECV_PAYLOAD"
           THEN /\ req' = [req EXCEPT ![o].state = "PENDING"]
                /\ tasks' = Append(tasks, TaskOf("invokeRequestHandler", o))
           ELSE UNCHANGED <<req, tasks>>
    /\ UNCHANGED <<active, count, curReq, threads>>

RecvRequest ==
    /\ Setup
    /\ \E o \in Active :
          /\ req[o].state = "DONE" /\ req[o].reply
          /\ curReq' = o
          /\ Reply(o)
    /\ UNCHANGED <<req, active, count, tasks, threads>>

\* processResetRequest() for one request and for all.
ResetRequest ==
    /\ Setup
    /\ Reply(None)
    /\ \/ \E o \in Active : FinishActive({o}, "CANCELLED", FALSE)
       \/ FinishActive(Active, "CANCELLED", FALSE)
    /\ UNCHANGED <<curReq, threads>>

\* TX_COMPLETED: the data stage of some transfer to the host has ended.  A request that
\* is no longer active would be followed through stale pointers; the model ends there.
TransferCompleted ==
    /\ InProgress /\ transfer.kind = "in"
    /\ transfer' = None
    /\ curReq' = None
    /\ IF curReq = None THEN UNCHANGED <<req, active, count, tasks>>
       ELSE curReq \in Active /\ FinishActive({curReq}, "NONE", transfer.req = curReq)
    /\ UNCHANGED threads

\* Mutant: a request that was to be completed stays the current one.
AbortRequestsButCurReq ==
    /\ FinishActive(Active, "ABORTED", FALSE)
    /\ UNCHANGED <<curReq, threads>>

\* The state RESET: every request is cancelled.
AbortRequests ==
    /\ FinishActive(Active, "ABORTED", FALSE)
    /\ curReq' = None
    /\ UNCHANGED threads

\* The bus is reset or the cable removed.
BusReset == transfer' = None /\ AbortRequests

\* The data stage lasts for USB_VENDOR_REQUEST_TIMEOUT frames.  The requests are cancelled,
\* but nobody tells the USB core: the data stage goes on with the buffer it was given.
TransferTimeout ==
    /\ InProgress
    /\ transfer' = [transfer EXCEPT !.timedOut = TRUE]
    /\ AbortRequests

\* A data stage ends after its timeout, of which the channel is not told.
LateDataStage ==
    /\ transfer # None /\ transfer.timedOut
    /\ transfer' = None
    /\ UNCHANGED <<req, active, count, curReq, tasks, threads>>
-----------------------------------------------------------------------------
(* The system thread and the handlers *)

interrupt == <<active, count, curReq, transfer>>

\* ISRTaskQueue::process() takes a task; its function runs later.
TakeTask ==
    /\ running = None
    /\ tasks # <<>>
    /\ tasks' = Tail(tasks)
    /\ running' = [step |-> "taken", task |-> Head(tasks)]
    /\ UNCHANGED <<interrupt, req, handling, setting>>

Running(func, step) == running # None /\ running.step = step /\ running.task.func = func

\* processRequest(): the handler may conclude the request now or on another thread.
InvokeRequestHandler ==
    /\ Running("invokeRequestHandler", "taken")
    /\ handling' = handling \cup {running.task.req}
    /\ running' = None
    /\ UNCHANGED <<interrupt, req, tasks, setting>>

AllocRequestData ==
    /\ Running("allocRequestData", "taken")
    /\ \E data \in {"none", "heap"} : req' = [req EXCEPT ![running.task.req].data = data]
    /\ running' = [running EXCEPT !.step = "allocated"]
    /\ UNCHANGED <<interrupt, tasks, handling, setting>>

\* Mutant: the state is not looked at again after the allocation.
ConcludeAllocBlindly ==
    /\ Running("allocRequestData", "allocated")
    /\ LET o == running.task.req
       IN  req' = [req EXCEPT ![o].state = IF req[o].data = "heap" THEN "RECV_PAYLOAD" ELSE "ALLOC_FAILED"]
    /\ running' = None
    /\ UNCHANGED <<interrupt, tasks, handling, setting>>

\* The atomic block of allocRequestData(): the request may have been cancelled meanwhile.
ConcludeAlloc ==
    /\ Running("allocRequestData", "allocated")
    /\ LET o == running.task.req
       IN  req' = [req EXCEPT ![o] =
              IF @.state # "ALLOC_PENDING" THEN Free
              ELSE [@ EXCEPT !.state = IF req[o].data = "heap" THEN "RECV_PAYLOAD" ELSE "ALLOC_FAILED"]]
    /\ running' = None
    /\ UNCHANGED <<interrupt, tasks, handling, setting>>

\* allocReplyData() and freeRequestData(), called by a handler.
AllocReplyData(o) ==
    /\ o \in handling
    /\ \E reply \in BOOLEAN : req' = [req EXCEPT ![o].reply = reply]
    /\ UNCHANGED <<interrupt, tasks, threads>>

FreeRequestData(o) ==
    /\ o \in handling
    /\ req' = [req EXCEPT ![o].data = "none"]
    /\ UNCHANGED <<interrupt, tasks, threads>>

\* setResult() up to its atomic block.
SetResult(o) ==
    /\ o \in handling
    /\ \E handler \in BOOLEAN : req' = [req EXCEPT ![o].data = "none", ![o].handler = handler]
    /\ handling' = handling \ {o}
    /\ setting' = setting \cup {o}
    /\ UNCHANGED <<interrupt, tasks, running>>

\* finishRequest(): free everything, call the completion handler.
Finish(o) == req' = [req EXCEPT ![o] = Free]

\* Mutant: a request that was cancelled before setResult() is not finished.
ConcludeResultOnly(o) ==
    /\ o \in setting
    /\ setting' = setting \ {o}
    /\ IF req[o].state = "PENDING"
       THEN req' = [req EXCEPT ![o].result = "HANDLED", ![o].state = "DONE"]
       ELSE UNCHANGED req
    /\ UNCHANGED <<interrupt, tasks, running, handling>>

\* The atomic block of setResult() and what follows it.
ConcludeResult(o) ==
    /\ o \in setting
    /\ setting' = setting \ {o}
    /\ IF req[o].state = "PENDING"
       THEN req' = [req EXCEPT ![o].result = "HANDLED", ![o].state = "DONE"]
       ELSE Finish(o)
    /\ UNCHANGED <<interrupt, tasks, running, handling>>

FinishRequest ==
    /\ Running("finishRequest", "taken")
    /\ Finish(running.task.req)
    /\ running' = None
    /\ UNCHANGED <<interrupt, tasks, handling, setting>>

Host == InitRequest \/ CheckRequest \/ SendSetup \/ RecvRequest \/ ResetRequest \/ BusReset
Bus == SendRequest \/ TransferCompleted \/ TransferTimeout \/ LateDataStage
SystemThread == TakeTask \/ InvokeRequestHandler \/ AllocRequestData \/ ConcludeAlloc \/ FinishRequest
Handler(o) == AllocReplyData(o) \/ FreeRequestData(o) \/ SetResult(o) \/ ConcludeResult(o)

Next == Host \/ Bus \/ SystemThread \/ \E o \in Obj : Handler(o)

\* The system thread keeps taking tasks and every handler concludes; of the host nothing is assumed.
Fairness == WF_vars(SystemThread) /\ \A o \in Obj : WF_vars(SetResult(o)) /\ WF_vars(ConcludeResult(o))

Spec == Init /\ [][Next]_vars /\ Fairness
-----------------------------------------------------------------------------
(* Properties *)

\* The references the system thread and the handlers hold to a request.
Workers(o) ==
    {<<"queue", i>> : i \in {i \in DOMAIN tasks : tasks[i].req = o}}
    \cup {w \in {<<"system thread", 0>>} : running # None /\ running.task.req = o}
    \cup {w \in {<<"handler", 0>>} : o \in handling}
    \cup {w \in {<<"setResult", 0>>} : o \in setting}

\* Once a request has been returned to the pool nothing refers to it: neither the list,
\* the queue and the threads, nor a transfer in progress, which may use its buffers.  It is
\* not so for a transfer that timed out: its data stage may outlive the request.
FreedIsForgotten ==
    /\ curReq \in Active \cup {None}
    /\ \A o \in Obj : ~ Live(o) =>
          /\ o \notin Active
          /\ Workers(o) = {}
          /\ InProgress => transfer.req # o

\* Interrupt and threads never work on a request together, and never both let go of it:
\* a request that is not waiting for the host has exactly one worker, whatever was
\* cancelled meanwhile.  The number of active requests is kept along.
OneOwner ==
    /\ count = Len(active) /\ count = Cardinality(Active)
    /\ \A o \in Obj : Live(o) =>
          Cardinality(Workers(o)) = IF o \in Active /\ ~ InThread(req[o]) THEN 0 ELSE 1

\* The request goes back to the pool in this step.
Returned(o) == Live(o) /\ req'[o] = Free

\* A completion handler learns whether the host received the reply: it is called with 0
\* exactly if a data stage with it was completed before its timeout, in spite of resets and
\* cancellations.  Of a data stage that is completed later the handler was told ABORTED.
ResultMeansReceived ==
    [][\A o \in Obj : Returned(o) /\ req[o].handler => (req[o].result = "NONE" <=> req[o].received)]_vars

\* A request with a completion handler is returned to the pool only by the two steps that
\* call the handler, and a request that was handled has got a final result by then.
HandlerRunsAtTheEnd ==
    [][\A o \in Obj : Returned(o) /\ req[o].handler =>
          /\ FinishRequest \/ ConcludeResult(o)
          /\ req[o].result \notin {"UNKNOWN", "HANDLED"}]_vars

\* The phase of a request; whoever holds it may not know yet that it was cancelled.
Submitted(o) ==
    \/ \E i \in DOMAIN tasks : tasks[i] = TaskOf("invokeRequestHandler", o)
    \/ running # None /\ running.task = TaskOf("invokeRequestHandler", o)

Phase(o) ==
    IF ~ Live(o) THEN "free"
    ELSE IF Submitted(o) THEN "submitted"
    ELSE IF o \in handling \cup setting THEN "handling"
    ELSE IF req[o].state = "ALLOC_PENDING" THEN "allocating"
    ELSE IF req[o].state = "RECV_PAYLOAD" /\ o \in Active THEN "receiving"
    ELSE "done"

\* Each request is given to its handler exactly once and with its payload, also if the host
\* sends the payload again, and is not taken from the handler whatever is cancelled.
Service == INSTANCE RequestService WITH phase <- [o \in Obj |-> Phase(o)]

ImplementsService == Service!Spec

\* A request that the threads work on is handed back to the host, or returned to the pool
\* if the host has cancelled it.
ThreadsLetGo ==
    \A o \in Obj : (Live(o) /\ (o \notin Active \/ InThread(req[o])))
                      ~> (~ Live(o) \/ (o \in Active /\ ~ InThread(req[o])))

=============================================================================
