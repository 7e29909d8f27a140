------------------------ MODULE ConfirmableExchange ------------------------
(***************************************************************************)
(* What the reliable channel promises the protocol above it, with no       *)
(* stores, timers or datagrams: a message of the device is concluded once  *)
(* and as delivered only if the cloud has it; a message that fails takes   *)
(* the session with it; a request of the cloud is handled at most once in  *)
(* a session and only while the session is open.                           *)
(***************************************************************************)
EXTENDS Naturals

CONSTANTS Id, Req

VARIABLES
    open,      \* is the session usable
    outcome,   \* of each message of the device
    got,       \* messages the cloud has received
    handled    \* requests of the cloud given to the application

exchangeVars == <<open, outcome, got, handled>>

Init ==
    /\ open = TRUE
    /\ outcome = [i \in Id |-> "none"]
    /\ got = {}
    /\ handled = [r \in Req |-> 0]

\* A message is submitted, or fails at once and closes the session.
Submit(i) ==
    /\ outcome[i] # "pending"
    /\ \E result \in {"pending", "lost"} : outcome' = [outcome EXCEPT ![i] = result]
    /\ open' \in {open, FALSE}
    /\ outcome'[i] = "lost" => ~ open'
    /\ got' = got \ {i}
    /\ UNCHANGED handled

\* Pending messages that are concluded by a step, with their results.
Concluded == {i \in Id : outcome'[i] # outcome[i]}

\* The device takes a step: messages are concluded, the session may close, a
\* request may be handled.
Proceed ==
    /\ outcome' \in [Id -> {"none", "pending", "acked", "reset", "lost"}]
    /\ \A i \in Concluded :
          /\ outcome[i] = "pending"
          /\ \/ outcome'[i] = "acked" /\ i \in got
             \/ outcome'[i] \in {"reset", "lost"} /\ ~ open'
    /\ open' \in {open, FALSE}
    /\ \/ UNCHANGED handled
       \/ \E r \in Req : open /\ handled[r] = 0 /\ handled' = [handled EXCEPT ![r] = 1]
    /\ UNCHANGED got

CloudReceives(i) == got' = got \cup {i} /\ UNCHANGED <<open, outcome, handled>>

\* A new session starts with a clean slate.
Establish ==
    /\ open' = TRUE
    /\ outcome' = [i \in Id |-> "none"]
    /\ handled' = [r \in Req |-> 0]
    /\ got' \subseteq got

Next ==
    \/ \E i \in Id : Submit(i) \/ CloudReceives(i)
    \/ Proceed
    \/ Establish

Spec == Init /\ [][Next]_exchangeVars

=============================================================================
