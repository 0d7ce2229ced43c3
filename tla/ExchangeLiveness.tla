-------------------------- MODULE ExchangeLiveness --------------------------
(***************************************************************************)
(* Progress of AS4Exchange when it is called as its tests and examples     *)
(* call it: a receiving exchange per HTTP request (parse_peppol_message    *)
(* makes a fresh one), its signal is the response to that request, and     *)
(* mark_sent is called once after build, no restart in between.            *)
(*                                                                         *)
(* A response is handed over at most once.  It may get lost instead, and   *)
(* nothing sends it again: to be settled the exchange must take it the     *)
(* one time it comes, in whatever state it then is.                        *)
(***************************************************************************)
EXTENDS AS4Exchange

VARIABLES
    requester, \* the sending exchange whose request a receiving one serves
    response   \* what became of the response to that request

liveVars == <<vars, requester, response>>

LiveInit ==
    /\ Init
    /\ requester = [r \in Receiving |-> None]
    /\ response = [r \in Receiving |-> "none"]

\* A request with a copy of build b of x reaches a fresh exchange.
Request(r, x, b) ==
    /\ response[r] = "none"
    /\ Receive(r, x, b)
    /\ requester' = [requester EXCEPT ![r] = x]
    /\ response' = [response EXCEPT ![r] = "owed"]

\* The receiving application answers its request with the signal.
Respond(r) ==
    /\ response[r] = "owed"
    /\ BuildSignal(r)
    /\ response' = [response EXCEPT ![r] = "sent"]
    /\ UNCHANGED requester

\* The response is not read: a broken connection, a time-out.
Lose(r) ==
    /\ response[r] = "sent"
    /\ response' = [response EXCEPT ![r] = "lost"]
    /\ UNCHANGED <<vars, requester>>

\* The sending application hands the response to receive_signal of the
\* exchange x that made the request; a signal that x refuses raises and
\* changes nothing.
HandOver(r, x) ==
    /\ response[r] = "sent"
    /\ requester[r] = x
    /\ response' = [response EXCEPT ![r] = "handed over"]
    /\ LET s == receiving[r].receipt
       IN  IF SignalVerifies(s, Remote[x]) /\ s.original_message_id = x
           THEN ReceiveSignal(x, s)
           ELSE UNCHANGED vars
    /\ UNCHANGED requester

LiveNext ==
    \/ \E x \in Sending :
         \/ Build(x) /\ UNCHANGED <<requester, response>>
         \/ sending[x].state = "built" /\ MarkSent(x) /\ UNCHANGED <<requester, response>>
         \/ \E r \in Receiving, b \in 1..MaxBuilds : Request(r, x, b)
         \/ \E r \in Receiving : HandOver(r, x)
    \/ \E r \in Receiving : Respond(r) \/ Lose(r)

\* The receiving application answers the requests it has processed, and the
\* sending one hands over the response to its request unless it is lost;
\* nobody has to build, send, receive or repeat anything.
Fairness ==
    /\ \A r \in Receiving : WF_liveVars(Respond(r))
    /\ \A r \in Receiving, x \in Sending : WF_liveVars(HandOver(r, x))

LiveSpec == LiveInit /\ [][LiveNext]_liveVars /\ Fairness

Settled == {"acknowledged", "rejected", "failed"}

\* Once the intended access point has accepted or refused a message whose id
\* it could read (receive), its one response (build_signal) settles the sending
\* exchange with that very signal (receive_signal), unless the response is
\* lost: also when the message was rebuilt or marked sent meanwhile, when
\* another response was handed over before, and when the copy was unsigned.
ProcessedIsSettled ==
    \A r \in Receiving, x \in Sending :
        /\ response[r] = "owed"
        /\ requester[r] = x
        /\ Local[r] = Remote[x]
        /\ receiving[r].message_id = x
        ~> \/ response[r] = "lost"
           \/ /\ sending[x].receipt = receiving[r].receipt
              /\ sending[x].state \in Settled
=============================================================================
