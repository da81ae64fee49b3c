--------------------------- MODULE AtLeastOnceQueue ---------------------------
(***************************************************************************)
(* What the durable work queue promises to the code that enqueues.  A      *)
(* worker takes an item in hand by reading it while it is open, claims it, *)
(* executes it and returns it, and between the read and the return others  *)
(* may have done the same or cancelled it.  A claim may open again what    *)
(* ended since the read, and a return may overwrite how it ended, but each *)
(* only once per read; an item is returned as completed only after an      *)
(* execution of it committed; and what ended and is in nobody's hand stays *)
(* as it is.                                                               *)
(***************************************************************************)
CONSTANTS
    Items,
    Workers,
    Ignored             \* items that are completed without an execution

VARIABLES
    state,              \* item -> "absent", "open", or how it ended
    reads,              \* item -> the workers that read it and did not claim it yet
    claims,             \* item -> the workers that claimed it and did not return it yet
    cancels,            \* items that a cancel under way has read
    executed            \* items of which an execution committed

vars == <<state, reads, claims, cancels, executed>>

Init ==
    /\ state = [i \in Items |-> "absent"]
    /\ reads = [i \in Items |-> {}]
    /\ claims = [i \in Items |-> {}]
    /\ cancels = {}
    /\ executed = {}

Accept(i) ==
    /\ state[i] = "absent"
    /\ state' = [state EXCEPT ![i] = "open"]
    /\ UNCHANGED <<reads, claims, cancels, executed>>

Read(w, i) ==
    /\ state[i] = "open"
    /\ reads' = [reads EXCEPT ![i] = @ \cup {w}]
    /\ UNCHANGED <<state, claims, cancels, executed>>

\* The claim of an item that ended since the read opens it again, or not.
Claim(w, i) ==
    /\ w \in reads[i]
    /\ state' \in {state, [state EXCEPT ![i] = "open"]}
    /\ reads' = [reads EXCEPT ![i] = @ \ {w}]
    /\ claims' = [claims EXCEPT ![i] = @ \cup {w}]
    /\ UNCHANGED <<cancels, executed>>

Execute(w, i) ==
    /\ w \in claims[i]
    /\ executed' = executed \cup {i}
    /\ UNCHANGED <<state, reads, claims, cancels>>

Return(w, i, how) ==
    /\ w \in claims[i]
    /\ how = "completed" => i \in executed \cup Ignored
    /\ state' = [state EXCEPT ![i] = how]
    /\ claims' = [claims EXCEPT ![i] = @ \ {w}]
    /\ UNCHANGED <<reads, cancels, executed>>

\* A worker dies.
Drop(w) ==
    /\ reads' = [i \in Items |-> reads[i] \ {w}]
    /\ claims' = [i \in Items |-> claims[i] \ {w}]
    /\ UNCHANGED <<state, cancels, executed>>

ReadToCancel(is) ==
    /\ \A i \in is : state[i] = "open"
    /\ cancels' = cancels \cup is
    /\ UNCHANGED <<state, reads, claims, executed>>

\* Cancelling a task ends several of its items at once.
Cancel(is) ==
    /\ \A i \in is : state[i] = "open" \/ i \in cancels
    /\ state' = [i \in Items |-> IF i \in is THEN "cancelled" ELSE state[i]]
    /\ cancels' \in {cancels, cancels \ is}
    /\ UNCHANGED <<reads, claims, executed>>

Next ==
    \/ \E i \in Items : Accept(i)
    \/ \E w \in Workers, i \in Items : Read(w, i) \/ Claim(w, i) \/ Execute(w, i)
    \/ \E w \in Workers, i \in Items, how \in {"open", "completed", "failed"} :
          Return(w, i, how)
    \/ \E w \in Workers : Drop(w)
    \/ \E is \in SUBSET Items : ReadToCancel(is) \/ Cancel(is)

Spec == Init /\ [][Next]_vars
=============================================================================
