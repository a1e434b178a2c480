----------------------------- MODULE ObjectStore -----------------------------
(***************************************************************************)
(* The port every adapter stands behind (persistence/objectstore.py): a    *)
(* map from keys to bytes, changed by calls that take effect at one moment *)
(* between their beginning and their answer.  A create refuses a key that  *)
(* is taken, and of several creates of one key exactly one succeeds.       *)
(***************************************************************************)
CONSTANTS
    Actors,   \* the threads that make calls
    Keys,     \* the keys below one folder
    Values,   \* the bytes a key may hold
    Nothing   \* what an absent key reads as

VARIABLES
    values,   \* key -> its bytes, or Nothing
    phase,    \* how far the call of each actor got
    call      \* the call of each actor

vars == <<values, phase, call>>

Calls == [op: {"create", "replace"}, key: Keys, value: Values] \union [op: {"delete"}]

Init ==
    /\ values \in [Keys -> Values \union {Nothing}]
    /\ phase = [a \in Actors |-> "idle"]
    /\ call \in [Actors -> Calls]

Goes(a, from, to) == phase[a] \in from /\ phase' = [phase EXCEPT ![a] = to]

Begin(a) ==
    /\ Goes(a, {"idle"}, "begun")
    /\ \E c \in Calls : call' = [call EXCEPT ![a] = c]
    /\ UNCHANGED values

(***************************************************************************)
(* write_atomic and create place one key; delete_prefix takes all at once. *)
(***************************************************************************)
TakeEffect(a) ==
    /\ Goes(a, {"begun"}, "effective")
    /\ \/ /\ call[a].op = "replace" \/ (call[a].op = "create" /\ values[call[a].key] = Nothing)
          /\ values' = [values EXCEPT ![call[a].key] = call[a].value]
       \/ /\ call[a].op = "delete"
          /\ values' = [k \in Keys |-> Nothing]
    /\ UNCHANGED call

Refuse(a) ==
    /\ Goes(a, {"begun"}, "refused")
    /\ call[a].op = "create" /\ values[call[a].key] # Nothing
    /\ UNCHANGED <<values, call>>

Return(a) == Goes(a, {"effective"}, "ok") /\ UNCHANGED <<values, call>>

\* A call that raises may have had its effect all the same.
Raise(a) == Goes(a, {"begun", "effective"}, "raised") /\ UNCHANGED <<values, call>>

Take(a) == Goes(a, {"ok", "refused", "raised"}, "idle") /\ UNCHANGED <<values, call>>

Stop ==
    /\ phase' = [a \in Actors |-> "idle"]
    /\ UNCHANGED <<values, call>>

\* Of bytes not yet on disk the port promises nothing.
LosePower ==
    /\ values' \in [Keys -> Values \union {Nothing}]
    /\ phase' = [a \in Actors |-> "idle"]
    /\ UNCHANGED call

Next ==
    \/ \E a \in Actors :
        Begin(a) \/ TakeEffect(a) \/ Refuse(a) \/ Return(a) \/ Raise(a) \/ Take(a)
    \/ Stop
    \/ LosePower

Spec == Init /\ [][Next]_vars
=============================================================================
