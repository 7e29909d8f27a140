---------------------------- MODULE RequestService ----------------------------
(***************************************************************************)
(* What a channel for control requests promises, with no interrupts, task  *)
(* queues or buffers: a request is handed to its handler once, after its   *)
(* payload has arrived, and from then on until the handler has concluded   *)
(* it nobody takes it away.  The host may cancel it before and after.      *)
(***************************************************************************)
CONSTANT Obj    \* request objects, which are used again

VARIABLE phase  \* of each object

Phases == {"free", "allocating", "receiving", "submitted", "handling", "done"}

Init == phase = [o \in Obj |-> "free"]

Move(o, from, to) == phase[o] = from /\ \E p \in to : phase' = [phase EXCEPT ![o] = p]

\* A request without a payload is submitted at once.
Accept(o) == Move(o, "free", {"allocating", "receiving", "submitted"})

\* There may be no memory for the payload.
Allocate(o) == Move(o, "allocating", {"receiving", "done"})

Submit(o) == Move(o, "receiving", {"submitted"})

Handle(o) == Move(o, "submitted", {"handling"})

\* A request that was cancelled meanwhile has nobody to wait for it.
Conclude(o) == Move(o, "handling", {"done", "free"})

Release(o) == Move(o, "done", {"free"})

\* Requests are cancelled, which their handlers are not told.
Cancel ==
    phase' \in {p \in [Obj -> Phases] : \A o \in Obj :
                    \/ p[o] = phase[o]
                    \/ phase[o] \in {"allocating", "receiving", "done"} /\ p[o] \in {"done", "free"}}

Next ==
    \/ \E o \in Obj : Accept(o) \/ Allocate(o) \/ Submit(o) \/ Handle(o) \/ Conclude(o) \/ Release(o)
    \/ Cancel

Spec == Init /\ [][Next]_phase

=============================================================================
