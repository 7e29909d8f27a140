------------------------- MODULE CompletionHandlerMap -------------------------
(***************************************************************************)
(* Operators on a CompletionHandlerMap (services/inc/completion_handler.h):*)
(* handlers by key, each with the tick at which it expires.  Ticks are     *)
(* counted only while there are handlers; they start again from 0 whenever *)
(* handlers expired, and the expiry of the others is then moved.           *)
(***************************************************************************)
EXTENDS Naturals, FiniteSetsExt, Functions

CONSTANT MaxTimeout   \* MAX_TIMEOUT, later than anything expires

ASSUME MaxTimeoutAssumption == MaxTimeout \in Nat

NoHandlers == [due |-> <<>>, nearest |-> MaxTimeout, ticks |-> 0]

Keys(m) == DOMAIN m.due

\* The nearest expiry of some handlers.
NearestOf(due) == Min({due[k] : k \in DOMAIN due} \cup {MaxTimeout})

AddHandler(m, key, timeout) ==
    LET t == m.ticks + timeout
    IN  [m EXCEPT !.due = [k \in Keys(m) \cup {key} |-> IF k = key THEN t ELSE m.due[k]],
                  !.nearest = Min({@, t})]

\* Mutant: the nearest expiry is not computed again.
TakeHandlerNearest(m, key) ==
    LET due == Restrict(m.due, Keys(m) \ {key})
    IN  [m EXCEPT !.due = due, !.ticks = IF key \in Keys(m) /\ DOMAIN due = {} THEN 0 ELSE @]

TakeHandler(m, key) ==
    LET due == Restrict(m.due, Keys(m) \ {key})
    IN  [due     |-> due,
         nearest |-> NearestOf(due),
         ticks   |-> IF key \in Keys(m) /\ DOMAIN due = {} THEN 0 ELSE m.ticks]

\* The handlers that update() would call with a timeout after so many ticks.
Expired(m, ticks) ==
    IF m.ticks + ticks < m.nearest THEN {} ELSE {k \in Keys(m) : m.due[k] <= m.ticks + ticks}

\* Mutant: the expiry of the handlers that stay is not moved when ticks start again.
UpdateUnmoved(m, ticks) ==
    LET due == Restrict(m.due, Keys(m) \ Expired(m, ticks))
    IN  IF Keys(m) = {} THEN m
        ELSE IF m.ticks + ticks < m.nearest THEN [m EXCEPT !.ticks = @ + ticks]
        ELSE [due |-> due, nearest |-> NearestOf(due), ticks |-> 0]

Update(m, ticks) ==
    LET now == m.ticks + ticks
        due == [k \in Keys(m) \ Expired(m, ticks) |-> m.due[k] - now]
    IN  IF Keys(m) = {} THEN m
        ELSE IF now < m.nearest THEN [m EXCEPT !.ticks = now]
        ELSE [due |-> due, nearest |-> NearestOf(due), ticks |-> 0]

=============================================================================
