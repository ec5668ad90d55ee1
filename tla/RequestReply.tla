---------------------------- MODULE RequestReply ----------------------------
(***************************************************************************)
(* What SendAndAwaitResponse promises its callers: a request is executed   *)
(* at most once, and a call that returns a response returns that of its    *)
(* own request, executed before.  It promises no execution: a call that    *)
(* fails may have been executed, or be executed later.                     *)
(***************************************************************************)
CONSTANT Call

VARIABLES
    status,         \* what the caller of each call knows
    executed        \* the calls whose request was executed

Init ==
    /\ status = [c \in Call |-> "idle"]
    /\ executed = {}

Request(c) ==
    /\ status[c] = "idle"
    /\ status' = [status EXCEPT ![c] = "pending"]
    /\ UNCHANGED executed

\* Also after the caller gave up, but never before it called.
Execute(c) ==
    /\ status[c] # "idle"
    /\ c \notin executed
    /\ executed' = executed \cup {c}
    /\ UNCHANGED status

Succeed(c) ==
    /\ status[c] = "pending"
    /\ c \in executed
    /\ status' = [status EXCEPT ![c] = "answered"]
    /\ UNCHANGED executed

GiveUp(c) ==
    /\ status[c] = "pending"
    /\ status' = [status EXCEPT ![c] = "failed"]
    /\ UNCHANGED executed

Next == \E c \in Call : Request(c) \/ Execute(c) \/ Succeed(c) \/ GiveUp(c)

Spec == Init /\ [][Next]_<<status, executed>>
=============================================================================
