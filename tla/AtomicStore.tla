---------------------------- MODULE AtomicStore ----------------------------
(***************************************************************************)
(* What rewritable storage on two flash sectors promises: an array of      *)
(* cells, and one write at a time that replaces one cell.  A write that is *)
(* under way takes effect at one moment or, unless it succeeds, not at     *)
(* all, whatever fails and whenever the power goes.  Nothing else changes  *)
(* the content.                                                            *)
(***************************************************************************)
CONSTANTS Cell, Content,
          None     \* no write is under way

VARIABLES value,
          pending, \* the write under way
          result   \* of the last call

vars == <<value, pending, result>>

Job == [cell : Cell, value : Content]

Result == {"none", "ok", "error", "reset"}

Init == value \in [Cell -> Content] /\ pending = None /\ result = "none"

\* The content with the write under way.
Committed == [value EXCEPT ![pending.cell] = pending.value]

Start(j) ==
    /\ pending = None
    /\ pending' = j
    /\ result' = "none"
    /\ UNCHANGED value

Commit ==
    /\ pending # None
    /\ value' = Committed
    /\ UNCHANGED <<pending, result>>

Finish(r) ==
    /\ pending # None
    /\ pending' = None
    /\ value' = Committed \/ (r # "ok" /\ UNCHANGED value)
    /\ result' = r

\* read(), which may have to initialize the storage and then fail or be reset.
Fetch(r) ==
    /\ pending = None
    /\ result' = r
    /\ UNCHANGED <<value, pending>>

Next ==
    \/ \E j \in Job : Start(j)
    \/ Commit
    \/ \E r \in Result \ {"none"} : Finish(r)
    \/ \E r \in Result : Fetch(r)

Spec == Init /\ [][Next]_vars

=============================================================================
