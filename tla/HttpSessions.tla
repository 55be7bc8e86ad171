---------------------------- MODULE HttpSessions ----------------------------
(***************************************************************************)
(* What the web server promises its clients: connections are served in the *)
(* order in which they were made, one at a time, and each is answered at   *)
(* most once before it is closed.                                          *)
(***************************************************************************)
EXTENDS Sequences

CONSTANT Clients

VARIABLES
  waiting,   \* the clients connected, the one being served first
  answer     \* what each of them has been answered: "none", or a status

Init == waiting = <<>> /\ answer = [c \in Clients |-> "none"]

Connect(c) ==
  /\ \A i \in DOMAIN waiting : waiting[i] # c
  /\ waiting' = Append(waiting, c)
  /\ UNCHANGED answer

Answer ==
  /\ waiting # <<>> /\ answer[Head(waiting)] = "none"
  /\ \E status \in {"200", "202", "400", "403", "404", "409", "413", "500"} :
       answer' = [answer EXCEPT ![Head(waiting)] = status]
  /\ UNCHANGED waiting

Close ==
  /\ waiting # <<>>
  /\ waiting' = Tail(waiting)
  /\ answer' = [answer EXCEPT ![Head(waiting)] = "none"]

\* The server ends between two clients.
End ==
  /\ waiting' = <<>>
  /\ \A c \in Clients : answer[c] = "none"
  /\ UNCHANGED answer

Next == (\E c \in Clients : Connect(c)) \/ Answer \/ Close \/ End

Spec == Init /\ [][Next]_<<waiting, answer>>
=============================================================================
