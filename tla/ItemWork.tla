------------------------------ MODULE ItemWork ------------------------------
(***************************************************************************)
(* What the queue promises to whoever looks at a Sales item and knows      *)
(* nothing of rows, leases, attempts or stages: the item wants one input,  *)
(* at most one input is being worked on, and work that was begun is given  *)
(* up only for an outcome, for a newer input or because the item no longer *)
(* wants any.  ProcessingQueue implements this specification.              *)
(***************************************************************************)
CONSTANTS Items, Identities, NoIdentity

VARIABLES
    wanted,   \* the input each item wants, or NoIdentity
    working,  \* the inputs being worked on: none or one
    done,     \* the inputs with a result
    failed    \* the inputs that failed

work == <<wanted, working, done, failed>>

Init == /\ wanted = [i \in Items |-> NoIdentity]
        /\ working = [i \in Items |-> {}]
        /\ done = [i \in Items |-> {}]
        /\ failed = [i \in Items |-> {}]

\* A new input is wanted; work on it begins unless older work is still under way.
Want(i, id) ==
    /\ wanted' = [wanted EXCEPT ![i] = id]
    /\ working' = [working EXCEPT ![i] = IF @ = {} THEN {id} ELSE @]
    /\ UNCHANGED <<done, failed>>

\* No input is wanted any more; work under way may be given up at once.
Forget(i) ==
    /\ wanted' = [wanted EXCEPT ![i] = NoIdentity]
    /\ \E rest \in SUBSET working[i] : working' = [working EXCEPT ![i] = rest]
    /\ UNCHANGED <<done, failed>>

\* Work on an input that failed and is still wanted begins again.
Retry(i) ==
    /\ working[i] = {} /\ wanted[i] \in failed[i]
    /\ working' = [working EXCEPT ![i] = {wanted[i]}]
    /\ UNCHANGED <<wanted, done, failed>>

\* Work on the wanted input has a result.
Finish(i) ==
    /\ working[i] = {wanted[i]}
    /\ working' = [working EXCEPT ![i] = {}]
    /\ done' = [done EXCEPT ![i] = @ \union {wanted[i]}]
    /\ UNCHANGED <<wanted, failed>>

\* Work fails, on an input that may be wanted no longer.
Fail(i) ==
    /\ working[i] # {}
    /\ working' = [working EXCEPT ![i] = {}]
    /\ failed' = [failed EXCEPT ![i] = @ \union working[i]]
    /\ UNCHANGED <<wanted, done>>

\* Work under way is replaced by work on another input, which is the wanted one.
Replace(i, id) ==
    /\ working[i] # {}
    /\ wanted' = [wanted EXCEPT ![i] = id]
    /\ working' = [working EXCEPT ![i] = {id}]
    /\ UNCHANGED <<done, failed>>

Next == \E i \in Items :
    \/ \E id \in Identities : Want(i, id) \/ Replace(i, id)
    \/ Forget(i) \/ Retry(i) \/ Finish(i) \/ Fail(i)

Spec == Init /\ [][Next]_work
=============================================================================
