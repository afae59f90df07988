----------------------------- MODULE RemoteCall -----------------------------
(***************************************************************************)
(* What a caller of the stubs may rely on, whatever ports, messages and    *)
(* threads there are: a call is performed at most once, and what it        *)
(* returns is either the outcome of its own performance or a failure.      *)
(***************************************************************************)
EXTENDS Naturals

CONSTANT MaxCalls    \* bound: how many calls are made

VARIABLES
    asked,        \* calls made so far; they are numbered
    performed,    \* the calls the server has performed
    outcome       \* of each call: open, failed, or done

vars == <<asked, performed, outcome>>

Calls == 1 .. MaxCalls

Init ==
    /\ asked = 0
    /\ performed = {}
    /\ outcome = [c \in Calls |-> "open"]

Ask ==
    /\ asked < MaxCalls
    /\ asked' = asked + 1
    /\ UNCHANGED <<performed, outcome>>

(* A call that is refused before it leaves the caller ends as it is made. *)
AskInVain ==
    /\ asked < MaxCalls
    /\ asked' = asked + 1
    /\ outcome' = [outcome EXCEPT ![asked + 1] = "failed"]
    /\ UNCHANGED performed

Perform(c) ==
    /\ c <= asked
    /\ c \notin performed
    /\ performed' = performed \cup {c}
    /\ UNCHANGED <<asked, outcome>>

Return(c) ==
    /\ c \in performed
    /\ outcome[c] = "open"
    /\ outcome' = [outcome EXCEPT ![c] = "done"]
    /\ UNCHANGED <<asked, performed>>

Fail(c) ==
    /\ c <= asked
    /\ outcome[c] = "open"
    /\ outcome' = [outcome EXCEPT ![c] = "failed"]
    /\ UNCHANGED <<asked, performed>>

Next == Ask \/ AskInVain \/ \E c \in Calls : Perform(c) \/ Return(c) \/ Fail(c)

Spec == Init /\ [][Next]_vars
=============================================================================
