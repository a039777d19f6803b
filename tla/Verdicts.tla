-------------------------------- MODULE Verdicts --------------------------------
(***************************************************************************)
(* What a client is told, without routing tables, handlers or an order of  *)
(* steps: one of the Answers there are to its request.  A connection is    *)
(* closed without an answer when the handling of the request panics, and   *)
(* all are when the process ends.                                          *)
(***************************************************************************)
EXTENDS Answers

VARIABLES
    options,
    asked,      \* the request of each client that is not answered yet, or None
    told        \* the last answer of each client, or None

vars == <<options, asked, told>>

----------------------------------------------------------------------------
Init ==
    /\ options \in Option
    /\ asked = [c \in Client |-> None]
    /\ told = [c \in Client |-> None]

Ask(c, q) ==
    /\ asked[c] = None
    /\ asked' = [asked EXCEPT ![c] = q]
    /\ told' = [told EXCEPT ![c] = None]
    /\ UNCHANGED options

Tell(c) ==
    /\ asked[c] # None
    /\ \E a \in Answers[options][asked[c]] :
          told' = [told EXCEPT ![c] = IF a = Closed THEN None ELSE a]
    /\ asked' = [asked EXCEPT ![c] = None]
    /\ UNCHANGED options

(* The process ends, and every connection with it.                         *)
HangUp ==
    /\ asked' = [c \in Client |-> None]
    /\ UNCHANGED <<options, told>>

Next ==
    \/ \E c \in Client : Tell(c) \/ \E q \in Sends[c] : Ask(c, q)
    \/ HangUp

Spec == Init /\ [][Next]_vars
=============================================================================
