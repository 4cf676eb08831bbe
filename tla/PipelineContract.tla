-------------------------- MODULE PipelineContract --------------------------
(***************************************************************************)
(* What the pipeline promises about its tables, whatever tasks, workers,   *)
(* redeliveries and transactions lie behind them.  Each message moves      *)
(* through four stages and never back.  A signal is raised for a message   *)
(* once the message is tagged, at most once for each kind; replies of the  *)
(* thread it was raised in may close it, and nothing opens it again.       *)
(***************************************************************************)
CONSTANTS Events, ParentOf, Kinds, None

VARIABLES stage, signals, closedBy

vars == <<stage, signals, closedBy>>

SignalKeys == Events \X Kinds
ThreadOf(e) == IF ParentOf[e] = None THEN e ELSE ParentOf[e]

Init ==
    /\ stage = [e \in Events |-> "unseen"]
    /\ signals = [s \in SignalKeys |-> "none"]
    /\ closedBy = [s \in SignalKeys |-> None]

MoveOn(e, from, to) ==
    /\ stage[e] = from
    /\ stage' = [stage EXCEPT ![e] = to]
    /\ UNCHANGED <<signals, closedBy>>

Store(e) == MoveOn(e, "unseen", "stored")
Tag(e) == MoveOn(e, "stored", "tagged")
Score(e) == MoveOn(e, "tagged", "scored")

Classified(e) == stage[e] \in {"tagged", "scored"}

Raise(e, k) ==
    /\ Classified(e) /\ signals[<<e, k>>] = "none"
    /\ signals' = [signals EXCEPT ![<<e, k>>] = "open"]
    /\ UNCHANGED <<stage, closedBy>>

\* A reply closes signals of its thread; of two replies that close the same
\* signal the later one is recorded.
Close(r, closed) ==
    /\ ParentOf[r] # None /\ Classified(r)
    /\ \A s \in closed : signals[s] # "none" /\ ThreadOf(s[1]) = ParentOf[r]
    /\ signals' = [s \in SignalKeys |-> IF s \in closed THEN "resolved" ELSE signals[s]]
    /\ closedBy' = [s \in SignalKeys |-> IF s \in closed THEN r ELSE closedBy[s]]
    /\ UNCHANGED stage

Next ==
    \E e \in Events :
       \/ Store(e) \/ Tag(e) \/ Score(e)
       \/ \E k \in Kinds : Raise(e, k)
       \/ \E closed \in SUBSET SignalKeys : Close(e, closed)

Spec == Init /\ [][Next]_vars
=============================================================================
