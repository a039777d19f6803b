---------------------------- MODULE StatelessMock ----------------------------
(***************************************************************************)
(* What stripe-mock promises of its responses (README.md:48, "stripe-mock  *)
(* is stateless"): whatever was sent before and whatever is being served   *)
(* at the same time, the answer to a request is a function of that request *)
(* and of the fixtures as they were loaded (and of the random ID minted    *)
(* for it).  There is no shared variable here at all.                      *)
(***************************************************************************)
EXTENDS Responses

VARIABLES
    status,     \* "idle", "serving" or "answered"
    request,    \* the request being served
    answer      \* the response, once there is one

vars == <<status, request, answer>>

NoAnswer == [m \in Map |-> [k \in Key |-> None]]

Init == /\ status = [c \in Handler |-> "idle"]
        /\ request = [c \in Handler |-> CHOOSE r \in Request : TRUE]
        /\ answer = [c \in Handler |-> NoAnswer]

Receive(c) == /\ status[c] # "serving"
              /\ status' = [status EXCEPT ![c] = "serving"]
              /\ \E r \in Request : request' = [request EXCEPT ![c] = r]
              /\ answer' = [answer EXCEPT ![c] = NoAnswer]

Reply(c) == /\ status[c] = "serving"
            /\ status' = [status EXCEPT ![c] = "answered"]
            /\ \E i \in MintedId : answer' = [answer EXCEPT ![c] = Ideal(request[c], i)]
            /\ UNCHANGED request

Next == \E c \in Handler : Receive(c) \/ Reply(c)

Spec == Init /\ [][Next]_vars
=============================================================================
