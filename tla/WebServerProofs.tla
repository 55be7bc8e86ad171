--------------------------- MODULE WebServerProofs ---------------------------
(***************************************************************************)
(* Why the radio waits for a bounded number of reads, why an answer fits   *)
(* the request, why only the token's owners upload, how many clients are   *)
(* served after a signal, and why the server implements HttpSessions: for  *)
(* any clients, requests, limits and configurations.                       *)
(***************************************************************************)
EXTENDS WebServer, SequenceTheorems, TLAPS

-----------------------------------------------------------------------------
(* Types.  What main()'s thread holds, the queue, and the connections.     *)

ThreadOK ==
  /\ conf \in Confs /\ at \in Places /\ served \in 0 .. PerTick
  /\ cur \in Clients \union {"nobody"} /\ (cur \in Clients <=> Serving)
  /\ got \in 0 .. Limit + Buffer - 1
  /\ status \in Statuses \union {"none"}
  /\ reads \in 0 .. PerTick * Limit + 1 /\ late \in 0 .. PerTick + 1

\* Nobody is in the queue twice, or in it and served.
QueueOK ==
  /\ queue \in Seq(Clients) /\ Len(queue) <= Backlog
  /\ \A i, j \in DOMAIN queue : queue[i] = queue[j] => i = j
  /\ \A i \in DOMAIN queue : queue[i] # cur

ClientsOK ==
  /\ request \in [Clients -> Requests \union {NoRequest}]
  /\ written \in [Clients -> Nat]
  /\ peer \in [Clients -> {"open", "shut", "gone"}]
  /\ \A c \in Clients : written[c] <= request[c].size
  /\ \A c \in Clients : Connected(c) => request[c] \in Requests
  /\ \A c \in Clients : ~Connected(c) => written[c] = 0

AnswersOK == answer \in [Clients -> Statuses \union {"none"}]

Types == ThreadOK /\ QueueOK /\ ClientsOK /\ AnswersOK /\ running \in BOOLEAN

LEMMA TypesOK == Types => TypeOK
<1> SUFFICES ASSUME Types PROVE TypeOK
  OBVIOUS
<1>1. running \in BOOLEAN
  BY Zenon DEF Types
<1> QED
  BY <1>1, Zenon DEF Types, ThreadOK, QueueOK, ClientsOK, AnswersOK, TypeOK

\* Facts about the constants, and about the sizes of requests.
LEMMA Constants ==
  /\ Backlog \in Nat \ {0} /\ PerTick \in Nat \ {0} /\ Limit \in Nat \ {0} /\ Buffer \in Nat \ {0}
  /\ PerTick * Limit \in Nat
  /\ "nobody" \notin Clients
  /\ \A r \in Requests : r.size \in Nat \ {0}
  /\ NoRequest.size = 0
BY WebAssumption DEF RequestType, NoRequest

LEMMA Ends ==
  ASSUME NEW S, NEW s \in Seq(S), s # <<>>
  PROVE  /\ Head(s) = s[1] /\ Head(s) \in S
         /\ 1 \in DOMAIN s /\ Len(s) \in DOMAIN s
<1>1. Len(s) \in Nat \ {0} /\ DOMAIN s = 1 .. Len(s)
  BY EmptySeq, LenProperties
<1>2. Head(s) = s[1]
  OBVIOUS
<1> QED
  BY <1>1, <1>2, HeadTailProperties

LEMMA InitTypes == Init => Types
<1> SUFFICES ASSUME Init PROVE Types
  OBVIOUS
<1> USE DEF Init
<1>1. running \in BOOLEAN
  OBVIOUS
<1>2. ThreadOK
  BY Constants DEF ThreadOK, Places, Serving
<1>3. QueueOK
  BY Constants DEF QueueOK
<1>4. ClientsOK /\ AnswersOK
  BY Constants DEF ClientsOK, AnswersOK, Connected, Queued
<1> QED
  BY <1>1, <1>2, <1>3, <1>4 DEF Types

LEMMA RunningStep == running \in BOOLEAN /\ [Next]_vars => running' \in BOOLEAN
<1> SUFFICES ASSUME running \in BOOLEAN, [Next]_vars PROVE running' \in BOOLEAN
  OBVIOUS
<1> USE DEF server, vars
<1>1. CASE Main
  BY <1>1, Zenon DEF Main, Start, Setup, Accept, EndTick, Radio
<1>2. CASE Serve
  BY <1>2, Zenon DEF Serve, Recv, RecvFails, TooLarge, Route, Upload, SendHead, SendBody, Close
<1>3. CASE Environment
  BY <1>3, Zenon DEF Environment, Connect, Send, Leave, HandleSignal, Restart
<1>4. CASE UNCHANGED vars
  BY <1>4, Zenon
<1> QED
  BY <1>1, <1>2, <1>3, <1>4 DEF Next

LEMMA ThreadStep == Types /\ [Next]_vars => ThreadOK'
<1> SUFFICES ASSUME ThreadOK, QueueOK, [Next]_vars PROVE ThreadOK'
  BY Zenon DEF Types
<1> USE Constants
    DEF ThreadOK, Places, Statuses, Serving, Reply, Count, CountLate, ProcessEnds, history, server, vars
<1>1. CASE Start
  BY <1>1 DEF Start
<1>2. CASE Accept
  <2>1. Head(queue) \in Clients
    BY <1>2, HeadTailProperties DEF Accept, QueueOK
  <2> QED
    BY <1>2, <2>1 DEF Accept
<1>3. CASE EndTick
  BY <1>3 DEF EndTick
<1>4. CASE Radio
  BY <1>4 DEF Radio
<1>5. CASE Recv
  BY <1>5 DEF Recv
<1>6. CASE RecvFails
  BY <1>6 DEF RecvFails
<1>7. CASE TooLarge
  BY <1>7 DEF TooLarge
<1>8. CASE Route
  BY <1>8 DEF Route
<1>9. CASE Upload
  BY <1>9 DEF Upload
<1>10. CASE SendHead
  BY <1>10 DEF SendHead
<1>11. CASE SendBody
  BY <1>11 DEF SendBody
<1>12. CASE Close
  BY <1>12 DEF Close
<1>13. CASE Environment
  BY <1>13 DEF Environment, Connect, Send, Leave, HandleSignal, Restart
<1>14. CASE UNCHANGED vars
  BY <1>14
<1>15. CASE Setup
  BY <1>15 DEF Setup
<1> QED
  BY <1>1, <1>2, <1>3, <1>4, <1>5, <1>6, <1>7, <1>8, <1>9, <1>10, <1>11, <1>12, <1>13, <1>14, <1>15
  DEF Next, Main, Serve

\* The steps that leave the queue and the connections alone.
Still == UNCHANGED <<queue, cur, client>>

LEMMA StillSteps ==
  ASSUME [Next]_vars
  PROVE  \/ Still
         \/ Accept \/ Close \/ (ProcessEnds /\ ~Serving /\ UNCHANGED cur)
         \/ \E c \in Clients : Connect(c) \/ Send(c) \/ Leave(c)
<1> USE DEF Still, server, client, vars
<1>1. CASE Main
  <2>1. CASE Setup \/ Radio
    <3>1. ~Serving
      BY <2>1 DEF Setup, Radio, Serving
    <3> QED
      BY <2>1, <3>1, Zenon DEF Setup, Radio
  <2>2. CASE Start \/ EndTick
    BY <2>2, Zenon DEF Start, EndTick
  <2> QED
    BY <1>1, <2>1, <2>2, Zenon DEF Main
<1>2. CASE Serve
  <2>1. Still \/ Close
    BY <1>2, Zenon DEF Serve, Recv, RecvFails, TooLarge, Route, Upload, SendHead, SendBody
  <2> QED
    BY <2>1, Zenon
<1>3. CASE Environment
  BY <1>3, Zenon DEF Environment, HandleSignal, Restart
<1>4. CASE UNCHANGED vars
  BY <1>4, Zenon
<1> QED
  BY <1>1, <1>2, <1>3, <1>4 DEF Next

LEMMA QueueStep == Types /\ [Next]_vars => QueueOK'
<1> SUFFICES ASSUME ThreadOK, QueueOK, [Next]_vars PROVE QueueOK'
  BY Zenon DEF Types
<1> USE Constants DEF QueueOK, server, client
<1>1. CASE Still
  BY <1>1 DEF Still
<1>2. CASE Accept
  <2>1. queue # <<>> /\ cur' = Head(queue) /\ queue' = Tail(queue)
    BY <1>2 DEF Accept
  <2>2. /\ queue' \in Seq(Clients) /\ Len(queue') = Len(queue) - 1
        /\ \A i \in 1 .. Len(queue') : queue'[i] = queue[i + 1]
    BY <2>1, HeadTailProperties
  <2>3. DOMAIN queue' = 1 .. Len(queue') /\ DOMAIN queue = 1 .. Len(queue) /\ Len(queue) \in Nat
    BY <2>2, LenProperties
  <2>4. cur' = queue[1] /\ 1 \in DOMAIN queue
    BY <2>1, <2>3, EmptySeq
  <2>5. \A i \in DOMAIN queue' : i + 1 \in DOMAIN queue /\ queue'[i] = queue[i + 1] /\ i \in Nat
    BY <2>2, <2>3
  <2>6. ASSUME NEW i \in DOMAIN queue', NEW j \in DOMAIN queue', queue'[i] = queue'[j]
        PROVE  i = j
    <3>1. i + 1 = j + 1
      BY <2>5, <2>6
    <3> QED
      BY <2>5, <3>1
  <2>7. ASSUME NEW i \in DOMAIN queue' PROVE queue'[i] # cur'
    <3>1. i >= 1 /\ i + 1 # 1
      BY <2>3, <2>5
    <3>2. queue[i + 1] # queue[1]
      BY <2>4, <2>5, <3>1
    <3> QED
      BY <2>4, <2>5, <3>2
  <2> QED
    BY <2>2, <2>6, <2>7
<1>3. CASE Close
  <2>1. cur' = "nobody" /\ queue' = queue
    BY <1>3 DEF Close
  <2> QED
    BY <2>1, ElementOfSeq, LenProperties
<1>4. CASE ProcessEnds /\ ~Serving /\ UNCHANGED cur
  <2>1. queue' = <<>>
    BY <1>4 DEF ProcessEnds
  <2> QED
    BY <2>1
<1>5. ASSUME NEW c \in Clients, Connect(c) PROVE QueueOK'
  <2>1. /\ Len(queue) < Backlog /\ queue' = Append(queue, c) /\ cur' = cur
        /\ c # cur /\ \A i \in DOMAIN queue : queue[i] # c
    BY <1>5 DEF Connect, Connected, Queued
  <2>2. /\ queue' \in Seq(Clients) /\ Len(queue') = Len(queue) + 1
        /\ \A i \in 1 .. Len(queue) : queue'[i] = queue[i]
        /\ queue'[Len(queue) + 1] = c
    BY <2>1, AppendProperties
  <2>3. DOMAIN queue' = 1 .. Len(queue') /\ DOMAIN queue = 1 .. Len(queue) /\ Len(queue) \in Nat
    BY <2>2, LenProperties
  <2> QED
    BY <2>1, <2>2, <2>3
<1>6. ASSUME NEW c \in Clients, Send(c) \/ Leave(c) PROVE QueueOK'
  BY <1>6 DEF Send, Leave
<1> QED
  BY <1>1, <1>2, <1>3, <1>4, <1>5, <1>6, StillSteps

LEMMA ClientsStep == Types /\ [Next]_vars => ClientsOK'
<1> SUFFICES ASSUME ThreadOK, QueueOK, ClientsOK, [Next]_vars PROVE ClientsOK'
  BY Zenon DEF Types
<1> USE Constants DEF ClientsOK, server, client
<1>1. CASE Still
  BY <1>1 DEF Still, Connected, Queued
<1>2. CASE Accept
  <2>1. /\ queue # <<>> /\ cur' = Head(queue) /\ queue' = Tail(queue)
        /\ UNCHANGED <<request, written, peer>>
    BY <1>2 DEF Accept
  <2>2. /\ queue' \in Seq(Clients) /\ Len(queue') = Len(queue) - 1
        /\ \A i \in 1 .. Len(queue') : queue'[i] = queue[i + 1]
    BY <2>1, HeadTailProperties DEF QueueOK
  <2>3. DOMAIN queue' = 1 .. Len(queue') /\ DOMAIN queue = 1 .. Len(queue) /\ Len(queue) \in Nat
    BY <2>2, LenProperties DEF QueueOK
  <2>4. cur' = queue[1] /\ 1 \in DOMAIN queue
    BY <2>1, <2>3, EmptySeq DEF QueueOK
  <2>5. \A i \in DOMAIN queue' : i + 1 \in DOMAIN queue /\ queue'[i] = queue[i + 1]
    BY <2>2, <2>3
  <2>6. \A c \in Clients : Connected(c)' => Connected(c)
    BY <2>4, <2>5 DEF Connected, Queued
  <2>7. cur \notin Clients
    BY <1>2 DEF Accept, ThreadOK, Serving
  <2>8. \A i \in DOMAIN queue : i = 1 \/ (i - 1 \in DOMAIN queue' /\ queue'[i - 1] = queue[i])
    BY <2>2, <2>3
  <2>9. \A c \in Clients : Connected(c) => Connected(c)'
    BY <2>4, <2>7, <2>8 DEF Connected, Queued
  <2> QED
    BY <2>1, <2>6, <2>9
<1>3. CASE Close
  <2>1. /\ at = "close" /\ cur' = "nobody" /\ queue' = queue
        /\ request' = [request EXCEPT ![cur] = NoRequest]
        /\ written' = [written EXCEPT ![cur] = 0]
        /\ peer' = [peer EXCEPT ![cur] = "open"]
    BY <1>3 DEF Close
  <2>2. cur \in Clients
    BY <2>1 DEF ThreadOK, Serving
  <2>3. \A c \in Clients : Connected(c)' <=> Connected(c) /\ c # cur
    BY <2>1 DEF Connected, Queued, QueueOK, ThreadOK
  <2> QED
    BY <2>1, <2>2, <2>3
<1>4. CASE ProcessEnds /\ ~Serving /\ UNCHANGED cur
  <2>1. /\ queue' = <<>> /\ cur' = cur
        /\ request' = [c \in Clients |-> NoRequest]
        /\ written' = [c \in Clients |-> 0]
        /\ peer' = [c \in Clients |-> "open"]
    BY <1>4 DEF ProcessEnds
  <2>2. cur \notin Clients
    BY <1>4 DEF ThreadOK
  <2> QED
    BY <2>1, <2>2 DEF Connected, Queued
<1>5. ASSUME NEW c \in Clients, Connect(c) PROVE ClientsOK'
  <2>1. /\ queue' = Append(queue, c) /\ cur' = cur /\ UNCHANGED <<written, peer>>
        /\ ~Connected(c)
    BY <1>5 DEF Connect
  <2>2. PICK r \in Requests : request' = [request EXCEPT ![c] = r]
    BY <1>5 DEF Connect
  <2>3. /\ queue' \in Seq(Clients) /\ Len(queue') = Len(queue) + 1
        /\ \A i \in 1 .. Len(queue) : queue'[i] = queue[i]
        /\ queue'[Len(queue) + 1] = c
    BY <2>1, AppendProperties DEF QueueOK
  <2>4. DOMAIN queue' = 1 .. Len(queue') /\ DOMAIN queue = 1 .. Len(queue) /\ Len(queue) \in Nat
    BY <2>3, LenProperties DEF QueueOK
  <2>5. \A d \in Clients : Connected(d)' <=> Connected(d) \/ d = c
    BY <2>1, <2>3, <2>4 DEF Connected, Queued
  <2>6. request[c].size \in Nat /\ r.size \in Nat
    BY <2>2
  <2>7. written[c] = 0
    BY <2>1
  <2> QED
    BY <2>1, <2>2, <2>5, <2>6, <2>7
<1>6. ASSUME NEW c \in Clients, Send(c) PROVE ClientsOK'
  <2>1. /\ Connected(c) /\ written[c] < request[c].size /\ written' = [written EXCEPT ![c] = @ + 1]
        /\ UNCHANGED <<request, peer, queue, cur>>
    BY <1>6 DEF Send
  <2>2. \A d \in Clients : request[d].size \in Nat
    OBVIOUS
  <2>3. written' \in [Clients -> Nat] /\ \A d \in Clients : written'[d] <= request[d].size
    BY <2>1, <2>2
  <2>4. \A d \in Clients : Connected(d)' <=> Connected(d)
    BY <2>1 DEF Connected, Queued
  <2> QED
    BY <2>1, <2>3, <2>4
<1>7. ASSUME NEW c \in Clients, Leave(c) PROVE ClientsOK'
  <2>1. UNCHANGED <<request, written, queue, cur>> /\ peer' \in [Clients -> {"open", "shut", "gone"}]
    BY <1>7 DEF Leave
  <2> QED
    BY <2>1 DEF Connected, Queued
<1> QED
  BY <1>1, <1>2, <1>3, <1>4, <1>5, <1>6, <1>7, StillSteps

LEMMA AnswersStep == Types /\ [Next]_vars => AnswersOK'
<1> SUFFICES ASSUME ThreadOK, AnswersOK, [Next]_vars PROVE AnswersOK'
  BY Zenon DEF Types
<1> USE DEF AnswersOK, vars
<1>1. answer' = answer \/ SendHead \/ Close
  BY DEF Next, Main, Serve, Environment, Start, Setup, Accept, EndTick, Radio, Recv, RecvFails, TooLarge,
         Route, Upload, SendBody, Connect, Send, Leave, HandleSignal, Restart
<1>2. CASE SendHead
  BY <1>2 DEF SendHead, ThreadOK
<1>3. CASE Close
  BY <1>3 DEF Close, ThreadOK
<1> QED
  BY <1>1, <1>2, <1>3

LEMMA AlwaysTypes == Spec => []Types
<1>1. Types /\ [Next]_vars => Types'
  BY RunningStep, ThreadStep, QueueStep, ClientsStep, AnswersStep DEF Types
<1> QED
  BY InitTypes, <1>1, PTL DEF Spec

\* Every variable keeps its type: the queue, tick() and the header buffer
\* stay within their limits.
THEOREM TypeCorrect == Spec => []TypeOK
BY AlwaysTypes, TypesOK, PTL

-----------------------------------------------------------------------------
(* The bound: each recv() that returns data brings a byte at least, and a  *)
(* client is given up at Limit bytes or at the first recv() without any.   *)

Least(m, n) == IF m <= n THEN m ELSE n

Counted ==
  /\ at \in {"start", "setup", "ended"} => served = 0 /\ reads = 0
  /\ at = "radio" => served = 0 /\ reads <= PerTick * Limit
  /\ Serving => served >= 1
  /\ at = "recv" => reads <= (served - 1) * Limit + Least(got, Limit)
  /\ Serving \/ at = "tick" => (at # "recv" => reads <= served * Limit)

LEMMA Products ==
  ASSUME NEW n \in 0 .. PerTick
  PROVE  /\ n * Limit <= PerTick * Limit /\ n * Limit \in Nat
         /\ n * Limit = (n - 1) * Limit + Limit
         /\ (n + 1) * Limit = n * Limit + Limit
         /\ 0 * Limit = 0
BY Constants

LEMMA CountedStep == Types /\ Counted /\ [Next]_vars => Counted'
<1> SUFFICES ASSUME ThreadOK, Counted, [Next]_vars PROVE Counted'
  BY Zenon DEF Types
<1> USE Constants DEF ThreadOK, Serving, Counted, Count, Reply, Least, ProcessEnds, history, server, vars
<1>p. /\ served * Limit <= PerTick * Limit /\ served * Limit \in Nat
      /\ served * Limit = (served - 1) * Limit + Limit
      /\ (served + 1) * Limit = served * Limit + Limit
      /\ 0 * Limit = 0
  BY Products
<1> USE <1>p
<1>1. CASE Start
  BY <1>1 DEF Start
<1>2. CASE Accept
  BY <1>2 DEF Accept
<1>3. CASE EndTick
  BY <1>3 DEF EndTick
<1>4. CASE Radio
  BY <1>4 DEF Radio
<1>5. CASE Recv
  <2>1. PICK n \in 1 .. Buffer : got' = got + n
    BY <1>5 DEF Recv
  <2>2. at = "recv" /\ got < Limit /\ Least(got', Limit) >= Least(got, Limit) + 1
    BY <1>5, <2>1 DEF Recv
  <2>3. reads' = reads + 1 /\ served' = served /\ at' \in {"route", "recv"}
    BY <1>5, <2>2 DEF Recv
  <2> QED
    BY <2>1, <2>2, <2>3
<1>6. CASE RecvFails
  BY <1>6 DEF RecvFails
<1>7. CASE TooLarge
  BY <1>7 DEF TooLarge
<1>8. CASE Route
  BY <1>8 DEF Route
<1>9. CASE Upload
  BY <1>9 DEF Upload
<1>10. CASE SendHead
  BY <1>10 DEF SendHead
<1>11. CASE SendBody
  BY <1>11 DEF SendBody
<1>12. CASE Close
  BY <1>12 DEF Close
<1>13. CASE Environment
  BY <1>13 DEF Environment, Connect, Send, Leave, HandleSignal, Restart
<1>14. CASE UNCHANGED vars
  BY <1>14
<1>15. CASE Setup
  BY <1>15 DEF Setup
<1> QED
  BY <1>1, <1>2, <1>3, <1>4, <1>5, <1>6, <1>7, <1>8, <1>9, <1>10, <1>11, <1>12, <1>13, <1>14, <1>15
  DEF Next, Main, Serve

LEMMA AlwaysCounted == Spec => [](Types /\ Counted)
<1>1. Init => Counted
  BY Products, Constants DEF Init, Counted, Serving
<1> QED
  BY <1>1, CountedStep, AlwaysTypes, PTL DEF Spec

\* Between two looks at the radio there are PerTick * Limit calls of recv()
\* for headers at most.
THEOREM TurnCorrect == Spec => []TurnBounded
<1>1. Types /\ Counted => TurnBounded
  <2> SUFFICES ASSUME ThreadOK, Counted PROVE TurnBounded
    BY Zenon DEF Types
  <2>1. served * Limit <= PerTick * Limit /\ served * Limit = (served - 1) * Limit + Limit
    BY Products, Constants DEF ThreadOK
  <2> QED
    BY <2>1, Constants DEF ThreadOK, Counted, Least, TurnBounded, Serving, Places
<1> QED
  BY <1>1, AlwaysCounted, PTL

-----------------------------------------------------------------------------
(* What is known of the request where, and that an answer is the status of *)
(* the client being served.                                                *)

Fits ==
  LET r == request[cur] IN
  /\ status \in Statuses
  /\ status \in {"200", "202", "404", "409", "413", "500"} => got = r.size /\ r.kind # "bad"
  /\ status = "400" => r.kind = "bad" \/ got < r.size \/ (r.kind = "ota" /\ Admitted(r))
  /\ status \in {"202", "409", "413", "500"} => r.kind = "ota" /\ Admitted(r)
  /\ status = "404" <=> got = r.size /\ r.kind = "unknown"
  /\ status = "403" => r.kind = "ota" /\ ~Admitted(r)

Settled ==
  /\ at = "recv" => got < request[cur].size
  /\ at \in {"route", "ota"} => got = request[cur].size
  /\ at = "ota" => request[cur].kind = "ota" /\ Admitted(request[cur])
  /\ at \in {"head", "body", "close"} => Fits

Answered ==
  \A c \in Clients : answer[c] # "none" =>
    c = cur /\ at \in {"body", "close"} /\ answer[c] = status

LEMMA Sizes == \A r \in Requests : 0 < r.size
BY WebAssumption DEF RequestType

\* Admission depends on the configuration and the request alone.
LEMMA AdmittedStays ==
  ASSUME conf' = conf, request'[cur'] = request[cur]
  PROVE  Admitted(request[cur])' <=> Admitted(request[cur])
BY DEF Admitted, CheckOtaToken

LEMMA SettledStep == Types /\ Settled /\ GateHolds /\ [Next]_vars => Settled' /\ GateHolds'
<1> SUFFICES ASSUME ThreadOK, QueueOK, ClientsOK, Settled, GateHolds, [Next]_vars
             PROVE  Settled' /\ GateHolds'
  BY Zenon DEF Types
<1> USE Constants DEF ThreadOK, Settled, GateHolds, Serving, Reply, server, client
<1>1. ASSUME UNCHANGED <<conf, at, cur, got, status, request>> PROVE Settled' /\ GateHolds'
  BY <1>1, Zenon DEF Fits, Admitted, CheckOtaToken
<1>2. ASSUME at' \notin {"recv", "route", "ota", "head", "body", "close"} PROVE Settled' /\ GateHolds'
  BY <1>2
<1>3. CASE Main
  <2>1. CASE Accept
    <3>1. /\ queue # <<>> /\ cur' = Head(queue) /\ got' = 0 /\ at' = "recv" /\ request' = request
      BY <2>1 DEF Accept
    <3>2. cur' \in Clients /\ cur' = queue[1] /\ 1 \in DOMAIN queue
      BY <3>1, Ends DEF QueueOK
    <3>3. Connected(cur')
      BY <3>2 DEF Connected, Queued
    <3>4. request[cur'] \in Requests
      BY <3>2, <3>3 DEF ClientsOK
    <3>6. 0 < request[cur'].size
      BY <3>4, Sizes
    <3>7. got' < request'[cur'].size
      BY <3>1, <3>6
    <3> QED
      BY <3>1, <3>7
  <2>2. CASE Start \/ Setup \/ EndTick \/ Radio
    BY <1>2, <2>2 DEF Start, Setup, EndTick, Radio, ProcessEnds
  <2> QED
    BY <1>3, <2>1, <2>2 DEF Main
<1>4. CASE Recv
  <2>1. PICK n \in 1 .. Buffer :
          /\ got + n <= written[cur] /\ got' = got + n
          /\ at' = IF got + n = request[cur].size THEN "route" ELSE "recv"
    BY <1>4 DEF Recv
  <2>2. at = "recv" /\ UNCHANGED <<cur, request>> /\ cur \in Clients
    BY <1>4 DEF Recv
  <2>3. written[cur] \in Nat /\ written[cur] <= request[cur].size /\ request[cur].size \in Nat
    BY <2>2 DEF ClientsOK
  <2> QED
    BY <2>1, <2>2, <2>3
<1>5. CASE RecvFails \/ TooLarge
  <2>1. /\ at = "recv" /\ status' = "400" /\ at' = "head" /\ UNCHANGED <<cur, got, request>>
    BY <1>5 DEF RecvFails, TooLarge
  <2>2. cur \in Clients /\ request[cur].size \in Nat
    BY <2>1 DEF ClientsOK
  <2> QED
    BY <2>1, <2>2 DEF Fits, Statuses
<1>6. CASE Route
  <2>1. at = "route" /\ UNCHANGED <<conf, cur, got, request>> /\ cur \in Clients
    BY <1>6 DEF Route
  <2>2. CASE at' = "head"
    <3>1. Fits'
      BY <1>6, <2>1, <2>2, AdmittedStays DEF Route, Fits, Statuses
    <3> QED
      BY <2>2, <3>1
  <2>3. CASE at' # "head"
    <3>1. at' = "ota" /\ request[cur].kind = "ota" /\ conf.enabled /\ CheckOtaToken(request[cur])
      BY <1>6, <2>3 DEF Route, Admitted
    <3>2. request[cur] \in RequestType
      BY <2>1, WebAssumption DEF ClientsOK, Connected
    <3>3. \E tokens \in {request[cur].headers, request[cur].query} :
            \E i \in DOMAIN tokens : tokens[i] = conf.token
      <4>1. CASE request[cur].headers # <<>> /\ LastHeader(request[cur]) = conf.token
        <5>1. request[cur].headers \in Seq(Tokens)
          BY <3>2 DEF RequestType
        <5>2. Len(request[cur].headers) \in DOMAIN request[cur].headers
          BY <4>1, <5>1, Ends
        <5> QED
          BY <4>1, <5>2 DEF LastHeader
      <4>2. CASE FirstOfQuery(request[cur]) = conf.token
        <5>1. request[cur].query \in Seq(Tokens)
          BY <3>2 DEF RequestType
        <5>2. request[cur].query # <<>>
          BY <3>1, <4>2 DEF FirstOfQuery, CheckOtaToken
        <5>3. Head(request[cur].query) = conf.token
          BY <4>2, <5>2 DEF FirstOfQuery
        <5>4. 1 \in DOMAIN request[cur].query /\ Head(request[cur].query) = request[cur].query[1]
          BY <5>1, <5>2, Ends
        <5> QED
          BY <5>3, <5>4
      <4> QED
        BY <3>1, <4>1, <4>2 DEF CheckOtaToken
    <3>4. conf.token \notin {"", "change-me"}
      BY <3>1 DEF CheckOtaToken
    <3>5. Admitted(request[cur])'
      BY <2>1, <3>1, AdmittedStays DEF Admitted
    <3> QED
      BY <2>1, <3>1, <3>3, <3>4, <3>5
  <2> QED
    BY <2>2, <2>3
<1>7. CASE Upload
  BY <1>7, AdmittedStays DEF Upload, Fits, Statuses
<1>8. CASE SendHead \/ SendBody
  <2>1. UNCHANGED <<conf, cur, got, status, request>> /\ at \in {"head", "body"} /\ at' \in {"body", "close"}
    BY <1>8 DEF SendHead, SendBody
  <2> QED
    BY <2>1, AdmittedStays DEF Fits
<1>9. CASE Close
  BY <1>2, <1>9 DEF Close
<1>10. CASE Environment
  <2>1. CASE HandleSignal \/ \E c \in Clients : Send(c) \/ Leave(c)
    BY <1>1, <2>1 DEF HandleSignal, Send, Leave
  <2>2. CASE Restart
    BY <1>2, <2>2 DEF Restart
  <2>3. ASSUME NEW c \in Clients, Connect(c) PROVE Settled' /\ GateHolds'
    <3>1. UNCHANGED <<conf, at, cur, got, status>> /\ c # cur
      BY <2>3 DEF Connect, Connected
    <3>2. Serving => request'[cur] = request[cur]
      BY <2>3, <3>1 DEF Connect, ClientsOK
    <3> QED
      BY <3>1, <3>2, AdmittedStays DEF Fits
  <2> QED
    BY <1>10, <2>1, <2>2, <2>3 DEF Environment
<1>11. CASE UNCHANGED vars
  BY <1>1, <1>11 DEF vars
<1> QED
  BY <1>3, <1>4, <1>5, <1>6, <1>7, <1>8, <1>9, <1>10, <1>11 DEF Next, Serve

LEMMA AnsweredStep == Types /\ Answered /\ [Next]_vars => Answered'
<1> SUFFICES ASSUME ThreadOK, AnswersOK, Answered, [Next]_vars PROVE Answered'
  BY Zenon DEF Types
<1> USE Constants DEF ThreadOK, AnswersOK, Answered, Serving, Reply, server
<1>1. CASE Main
  BY <1>1 DEF Main, Start, Setup, Accept, EndTick, Radio, ProcessEnds
<1>2. CASE Recv \/ RecvFails \/ TooLarge \/ Route \/ Upload
  <2>1. at \notin {"body", "close"} /\ UNCHANGED answer
    BY <1>2 DEF Recv, RecvFails, TooLarge, Route, Upload
  <2> QED
    BY <2>1
<1>3. CASE SendHead
  BY <1>3 DEF SendHead
<1>4. CASE SendBody
  BY <1>4 DEF SendBody
<1>5. CASE Close
  BY <1>5 DEF Close
<1>6. CASE Environment
  BY <1>6 DEF Environment, Connect, Send, Leave, HandleSignal, Restart
<1>7. CASE UNCHANGED vars
  BY <1>7 DEF vars
<1> QED
  BY <1>1, <1>2, <1>3, <1>4, <1>5, <1>6, <1>7 DEF Next, Serve

LEMMA AlwaysAnswered == Spec => [](Types /\ Settled /\ GateHolds /\ Answered)
<1>1. Init => Settled /\ GateHolds /\ Answered
  BY DEF Init, Settled, GateHolds, Answered
<1> QED
  BY <1>1, AlwaysTypes, SettledStep, AnsweredStep, PTL DEF Spec

\* Answers are true to the request that was sent.
THEOREM AnswersCorrect == Spec => []AnswersFit
<1>1. Settled /\ Answered => AnswersFit
  BY DEF Settled, Answered, Fits, AnswersFit
<1> QED
  BY <1>1, AlwaysAnswered, PTL

\* Nobody uploads without the token, whatever headers and query repeat.
THEOREM GateCorrect == Spec => []GateHolds
BY AlwaysAnswered, PTL

-----------------------------------------------------------------------------
(* The refinement: clients wait from Connect to Close, in one sequence.    *)

Waiting == IF Serving THEN <<cur>> \o queue ELSE queue

LEMMA WaitingFacts ==
  ASSUME Types
  PROVE  /\ queue \in Seq(Clients) /\ queue' \in Seq(Clients) => Waiting \in Seq(Clients)
         /\ Serving => Waiting # <<>> /\ Head(Waiting) = cur /\ Tail(Waiting) = queue
         /\ \A c \in Clients : (\A i \in DOMAIN Waiting : Waiting[i] # c) <=> ~Connected(c)
         /\ \A c \in Clients : IF Serving THEN Append(Waiting, c) = <<cur>> \o Append(queue, c)
                                          ELSE Append(Waiting, c) = Append(queue, c)
<1> USE DEF Types, ThreadOK, QueueOK
<1>1. CASE Serving
  <2>1. cur \in Clients /\ <<cur>> \in Seq(Clients) /\ Len(<<cur>>) = 1 /\ <<cur>>[1] = cur
    BY <1>1
  <2>2. Waiting = <<cur>> \o queue
    BY <1>1 DEF Waiting
  <2>3. /\ Waiting \in Seq(Clients) /\ Len(Waiting) = 1 + Len(queue)
        /\ \A i \in 1 .. 1 + Len(queue) : Waiting[i] = IF i <= 1 THEN <<cur>>[i] ELSE queue[i - 1]
    BY <2>1, <2>2, ConcatProperties
  <2>4. Len(queue) \in Nat /\ DOMAIN queue = 1 .. Len(queue) /\ DOMAIN Waiting = 1 .. 1 + Len(queue)
    BY <2>3, LenProperties
  <2>5. Waiting # <<>> /\ Head(Waiting) = cur
    BY <2>1, <2>3, <2>4, Ends
  <2>6. Tail(Waiting) = queue
    <3>1. /\ Tail(Waiting) \in Seq(Clients) /\ Len(Tail(Waiting)) = Len(queue)
          /\ \A i \in 1 .. Len(queue) : Tail(Waiting)[i] = Waiting[i + 1]
      BY <2>3, <2>4, <2>5, HeadTailProperties
    <3>2. ASSUME NEW i \in 1 .. Len(queue) PROVE Waiting[i + 1] = queue[i]
      <4>1. i + 1 \in 1 .. 1 + Len(queue) /\ ~(i + 1 <= 1) /\ (i + 1) - 1 = i
        BY <2>4
      <4> QED
        BY <2>3, <4>1
    <3> QED
      BY <3>1, <3>2, SeqEqual
  <2>7. \A c \in Clients : (\A i \in DOMAIN Waiting : Waiting[i] # c) <=> ~Connected(c)
    <3>1. Waiting[1] = cur /\ 1 \in DOMAIN Waiting
      BY <2>1, <2>3, <2>4
    <3>2. ASSUME NEW i \in DOMAIN queue
          PROVE  i + 1 \in DOMAIN Waiting /\ Waiting[i + 1] = queue[i]
      <4>1. i \in 1 .. Len(queue) /\ i + 1 \in 1 .. 1 + Len(queue) /\ ~(i + 1 <= 1) /\ (i + 1) - 1 = i
        BY <2>4
      <4> QED
        BY <2>3, <2>4, <4>1
    <3>3. ASSUME NEW i \in DOMAIN Waiting, i # 1
          PROVE  i - 1 \in DOMAIN queue /\ Waiting[i] = queue[i - 1]
      <4>1. i \in 1 .. 1 + Len(queue) /\ ~(i <= 1)
        BY <2>4, <3>3
      <4> QED
        BY <2>3, <2>4, <4>1
    <3> QED
      BY <3>1, <3>2, <3>3 DEF Connected, Queued
  <2>8. ASSUME NEW c \in Clients PROVE Append(Waiting, c) = <<cur>> \o Append(queue, c)
    <3>1. Append(Waiting, c) = (<<cur>> \o queue) \o <<c>>
      BY <2>2, <2>3, AppendIsConcat
    <3>2. Append(queue, c) = queue \o <<c>>
      BY AppendIsConcat
    <3> QED
      BY <2>1, <3>1, <3>2, ConcatAssociative
  <2> QED
    BY <1>1, <2>3, <2>5, <2>6, <2>7, <2>8
<1>2. CASE ~Serving
  <2>1. Waiting = queue /\ \A c \in Clients : c # cur
    BY <1>2, Zenon DEF Waiting
  <2>2. \A c \in Clients : (\A i \in DOMAIN Waiting : Waiting[i] # c) <=> ~Connected(c)
    BY <2>1 DEF Connected, Queued
  <2> QED
    BY <1>2, <2>1, <2>2
<1> QED
  BY <1>1, <1>2

LEMMA SessionStep ==
  ASSUME Types, Types', Settled, Answered, [Next]_vars
  PROVE  [Sessions!Next]_<<Waiting, answer>>
<1> DEFINE Goal == [Sessions!Next]_<<Waiting, answer>>
<1> USE DEF Sessions!Next
<1>1. ASSUME UNCHANGED <<cur, queue, answer>>, Serving' <=> Serving PROVE Goal
  BY <1>1 DEF Waiting
<1>2. CASE Main
  <2>1. CASE Accept
    <3>1. ~Serving /\ Serving' /\ queue # <<>> /\ cur' = Head(queue) /\ queue' = Tail(queue)
          /\ UNCHANGED answer
      BY <2>1 DEF Accept, Serving
    <3>2. <<Head(queue)>> \o Tail(queue) = queue
      BY <3>1, HeadTailAppend DEF Types, QueueOK
    <3> QED
      BY <3>1, <3>2 DEF Waiting
  <2>2. CASE Start \/ EndTick \/ ((Setup \/ Radio) /\ ~ProcessEnds)
    BY <1>1, <2>2 DEF Start, Setup, EndTick, Radio, Serving, client
  <2>3. CASE (Setup \/ Radio) /\ ProcessEnds
    <3>1. ~Serving' /\ queue' = <<>> /\ UNCHANGED answer /\ at \in {"setup", "radio"}
      BY <2>3 DEF Setup, Radio, ProcessEnds, Serving
    <3>2. \A c \in Clients : answer[c] = "none"
      BY <3>1 DEF Answered
    <3>3. Sessions!End
      BY <3>1, <3>2 DEF Sessions!End, Waiting
    <3> QED
      BY <3>3
  <2> QED
    BY <1>2, <2>1, <2>2, <2>3 DEF Main
<1>3. CASE Recv \/ RecvFails \/ TooLarge \/ Route \/ Upload \/ SendBody
  BY <1>1, <1>3 DEF Recv, RecvFails, TooLarge, Route, Upload, SendBody, Serving, Reply
<1>4. CASE SendHead
  <2>1. /\ at = "head" /\ at' = "body" /\ UNCHANGED <<cur, queue, status>>
        /\ answer' = IF peer[cur] = "gone" THEN answer ELSE [answer EXCEPT ![cur] = status]
    BY <1>4 DEF SendHead
  <2>2. Serving /\ Serving' /\ cur \in Clients
    BY <2>1, Zenon DEF Serving, Types, ThreadOK
  <2>3. CASE peer[cur] = "gone"
    BY <1>1, <2>1, <2>2, <2>3
  <2>4. CASE peer[cur] # "gone"
    <3>1. answer[cur] = "none" /\ status \in Statuses
      BY <2>1, <2>2 DEF Answered, Settled, Fits
    <3>2. Waiting # <<>> /\ Head(Waiting) = cur /\ Waiting' = Waiting
      BY <2>1, <2>2, WaitingFacts DEF Waiting
    <3>3. Sessions!Answer
      BY <2>1, <2>4, <3>1, <3>2 DEF Sessions!Answer, Statuses, Waiting
    <3> QED
      BY <3>3
  <2> QED
    BY <2>3, <2>4
<1>5. CASE Close
  <2>1. /\ at = "close" /\ at' = "tick" /\ queue' = queue
        /\ answer' = [answer EXCEPT ![cur] = "none"]
    BY <1>5 DEF Close
  <2>2. Serving /\ ~Serving'
    BY <2>1 DEF Serving
  <2>3. Waiting # <<>> /\ Head(Waiting) = cur /\ Waiting' = Tail(Waiting)
    BY <2>1, <2>2, WaitingFacts DEF Waiting
  <2>4. Sessions!Close
    BY <2>1, <2>3 DEF Sessions!Close, Waiting
  <2> QED
    BY <2>4
<1>6. CASE Environment
  <2>1. ASSUME NEW c \in Clients, Connect(c) PROVE Goal
    <3>1. /\ ~Connected(c) /\ queue' = Append(queue, c) /\ UNCHANGED <<at, cur, answer>>
      BY <2>1 DEF Connect
    <3>2. Waiting' = Append(Waiting, c)
      BY <3>1, WaitingFacts DEF Waiting, Serving
    <3>3. \A i \in DOMAIN Waiting : Waiting[i] # c
      BY <3>1, WaitingFacts
    <3>4. Sessions!Connect(c)
      BY <3>1, <3>2, <3>3 DEF Sessions!Connect, Waiting
    <3> QED
      BY <3>4
  <2>2. CASE HandleSignal \/ Restart \/ \E c \in Clients : Send(c) \/ Leave(c)
    BY <1>1, <2>2 DEF HandleSignal, Restart, Send, Leave, Serving, server
  <2> QED
    BY <1>6, <2>1, <2>2 DEF Environment
<1>7. CASE UNCHANGED vars
  BY <1>1, <1>7 DEF vars, server, Serving
<1> QED
  BY <1>2, <1>3, <1>4, <1>5, <1>6, <1>7 DEF Next, Serve

\* Connections are served in order, one at a time, and answered once at most.
THEOREM SessionRefinement == Spec => ServesInOrder
<1>1. Init => Sessions!Init
  BY DEF Init, Sessions!Init, Serving
<1>2. Types /\ Types' /\ Settled /\ Answered /\ [Next]_vars => [Sessions!Next]_<<Waiting, answer>>
  BY SessionStep
<1> QED
  BY <1>1, <1>2, AlwaysAnswered, PTL DEF Spec, ServesInOrder, Sessions!Spec, Waiting

-----------------------------------------------------------------------------
(* The end: a signal in a tick() leaves it to serve the rest of its        *)
(* clients, and there is no other tick() after it.                         *)

LateServed ==
  /\ running \/ at \in {"start", "setup", "ended"} => late = 0
  /\ late <= IF at = "radio" THEN PerTick ELSE served

LEMMA LateStep == Types /\ Counted /\ LateServed /\ [Next]_vars => LateServed'
<1> SUFFICES ASSUME ThreadOK, Counted, running \in BOOLEAN, LateServed, [Next]_vars PROVE LateServed'
  BY Zenon DEF Types
<1> USE Constants DEF ThreadOK, LateServed, history
<1>1. CASE Accept
  BY <1>1 DEF Accept, CountLate
<1>2. CASE Start \/ EndTick
  BY <1>2 DEF Start, EndTick, Counted
<1>3. CASE Setup \/ Radio
  BY <1>3 DEF Setup, Radio, ProcessEnds, Counted
<1>4. CASE Serve
  BY <1>4 DEF Serve, Recv, RecvFails, TooLarge, Route, Upload, SendHead, SendBody, Close, Reply, Count
<1>5. CASE Environment
  BY <1>5 DEF Environment, Connect, Send, Leave, HandleSignal, Restart, server, Counted
<1>6. CASE UNCHANGED vars
  BY <1>6 DEF vars, server
<1> QED
  BY <1>1, <1>2, <1>3, <1>4, <1>5, <1>6 DEF Next, Main

\* After a signal the process serves the clients of one tick() at most, for any
\* PerTick, however many wait and come back.
THEOREM StopsCorrect == Spec => []StopsWithinTick
<1>1. Init => LateServed
  BY Constants DEF Init, LateServed
<1>2. Types /\ LateServed => StopsWithinTick
  BY Constants DEF Types, ThreadOK, LateServed, StopsWithinTick
<1> QED
  BY <1>1, <1>2, LateStep, AlwaysCounted, PTL DEF Spec

-----------------------------------------------------------------------------
(* The thread waits for nothing: in every state the guard of some call of  *)
(* it holds.                                                               *)

Executes == Main \/ Serve

\* The guards of the actions of Main and of Serve, in their order.
MainReady ==
  \/ at = "start"
  \/ at = "setup"
  \/ at = "tick" /\ conf.web /\ served < PerTick /\ queue # <<>>
  \/ at = "tick" /\ (conf.web => served = PerTick \/ queue = <<>>)
  \/ at = "radio"

ServeReady ==
  \/ at = "recv" /\ got < Limit /\ got < written[cur]
  \/ at = "recv" /\ got < Limit /\ got = written[cur]
  \/ at = "recv" /\ got >= Limit
  \/ at = "route" /\ request[cur].kind \in {"bad", "get", "unknown", "ota"}
  \/ at \in {"ota", "head", "body", "close"}

\* What ENABLED says: an action whose guard holds can be taken, since the rest
\* of it only gives the variables their next values.
GuardsEnable == MainReady \/ ServeReady => ENABLED <<Main \/ Serve>>_vars

\* The server has read no more of the headers than the client has sent.
Sent == at = "recv" => got <= written[cur]

LEMMA SentStep == Types /\ Sent /\ [Next]_vars => Sent'
<1> SUFFICES ASSUME ThreadOK, QueueOK, ClientsOK, Sent, [Next]_vars PROVE Sent'
  BY Zenon DEF Types
<1> USE Constants DEF ThreadOK, ClientsOK, Sent, Serving, Reply, server, client
<1>1. ASSUME at' # "recv" PROVE Sent'
  BY <1>1
<1>2. ASSUME UNCHANGED <<at, got, cur, written>> PROVE Sent'
  BY <1>2
<1>3. CASE Accept
  <2>1. cur' \in Clients /\ got' = 0 /\ written' = written
    BY <1>3, Ends DEF Accept, QueueOK
  <2> QED
    BY <2>1
<1>4. CASE Recv
  BY <1>4 DEF Recv
<1>5. ASSUME NEW c \in Clients, Send(c) PROVE Sent'
  <2>1. UNCHANGED <<at, got, cur>> /\ written' = [written EXCEPT ![c] = @ + 1]
    BY <1>5 DEF Send
  <2>2. \A d \in Clients : written[d] \in Nat /\ written'[d] \in Nat /\ written[d] <= written'[d]
    BY <2>1
  <2> QED
    BY <2>1, <2>2
<1>6. CASE UNCHANGED vars
  BY <1>2, <1>6 DEF vars
<1> QED
  BY <1>1, <1>2, <1>3, <1>4, <1>5, <1>6
  DEF Next, Main, Serve, Environment, Start, Setup, EndTick, Radio, ProcessEnds, RecvFails, TooLarge, Route, Upload,
      SendHead, SendBody, Close, Connect, Leave, HandleSignal, Restart

LEMMA KindKnown ==
  ASSUME Types, Serving
  PROVE  request[cur].kind \in {"bad", "get", "unknown", "ota"}
<1>1. cur \in Clients /\ request[cur] \in Requests
  BY DEF Types, ThreadOK, ClientsOK, Connected
<1> QED
  BY <1>1, WebAssumption DEF RequestType

\* No call of the thread waits for what a client withholds: until the process
\* ends, there is one that can return, with data or at the end of its timeout.
THEOREM NeverBlocked == Spec => [](at # "ended" => MainReady \/ ServeReady)
<1>1. Init => Sent
  BY DEF Init, Sent
<1>2. Types /\ Sent => (at # "ended" => MainReady \/ ServeReady)
  <2> SUFFICES ASSUME Types, Sent, at # "ended" PROVE MainReady \/ ServeReady
    OBVIOUS
  <2>1. ThreadOK /\ ClientsOK
    BY Zenon DEF Types
  <2>2. CASE at = "tick"
    BY <2>1, <2>2, Constants DEF ThreadOK, MainReady
  <2>3. CASE at = "recv"
    <3>1. cur \in Clients /\ written[cur] \in Nat
      BY <2>1, <2>3 DEF ThreadOK, ClientsOK, Serving
    <3> QED
      BY <2>1, <2>3, <3>1, Constants DEF ThreadOK, Sent, ServeReady
  <2>4. CASE at = "route"
    BY <2>4, KindKnown DEF ServeReady, Serving
  <2> QED
    BY <2>1, <2>2, <2>3, <2>4 DEF ThreadOK, Places, MainReady, ServeReady
<1> QED
  BY <1>1, <1>2, SentStep, AlwaysTypes, PTL DEF Spec

\* CanStep, of which ENABLED is all that stays with TLC.
THEOREM CanStepCorrect == Spec /\ []GuardsEnable => []CanStep
<1>1. GuardsEnable /\ (at # "ended" => MainReady \/ ServeReady) => CanStep
  BY DEF GuardsEnable, CanStep
<1> QED
  BY <1>1, NeverBlocked, PTL

-----------------------------------------------------------------------------
(* Liveness: calls to the next tick() or radio, and rounds of one client   *)
(* each to the end of the tick, or to the client at some place of the      *)
(* queue.                                                                  *)

Lives == FairSpec /\ []CanStep

LEMMA GuardsLive == FairSpec /\ []GuardsEnable => Lives
BY CanStepCorrect, PTL DEF Lives, FairSpec

\* More than one client takes, and what is left of it.
Round == Limit + Buffer + 10

Rest ==
  CASE at = "recv"  -> Limit + Buffer - got + 8
    [] at = "route" -> 7
    [] at = "ota"   -> 6
    [] at = "head"  -> 5
    [] at = "body"  -> 4
    [] at = "close" -> 3
    [] at = "start" -> 2
    [] at = "tick"  -> IF served < PerTick THEN 0 ELSE 2
    [] OTHER        -> 1

\* The queue is that of a server that listens.
Idle ==
  /\ at \in {"start", "ended"} => queue = <<>>
  /\ queue # <<>> => conf.web

WInv == Types /\ Counted /\ Idle

LEMMA IdleStep == Idle /\ [Next]_vars => Idle'
<1> SUFFICES ASSUME Idle, [Next]_vars PROVE Idle'
  OBVIOUS
<1> USE DEF Idle, Reply, ProcessEnds, server, vars
<1>1. CASE Start
  BY <1>1 DEF Start
<1>2. CASE Accept
  BY <1>2 DEF Accept
<1>3. CASE EndTick
  BY <1>3 DEF EndTick
<1>4. CASE Radio
  BY <1>4 DEF Radio
<1>5. CASE Serve
  BY <1>5 DEF Serve, Recv, RecvFails, TooLarge, Route, Upload, SendHead, SendBody, Close
<1>6. CASE Environment
  BY <1>6 DEF Environment, Connect, Send, Leave, HandleSignal, Restart, Listening
<1>7. CASE UNCHANGED vars
  BY <1>7
<1>8. CASE Setup
  BY <1>8 DEF Setup, client
<1> QED
  BY <1>1, <1>2, <1>3, <1>4, <1>5, <1>6, <1>7, <1>8 DEF Next, Main

LEMMA AlwaysWInv == Spec => []WInv
<1>1. Init => Idle
  BY DEF Init, Idle
<1> QED
  BY <1>1, IdleStep, AlwaysCounted, PTL DEF Spec, WInv

LEMMA Sums ==
  /\ Round \in Nat /\ Round = Limit + Buffer + 10
  /\ Limit \in Nat /\ Buffer \in Nat /\ PerTick \in Nat \ {0} /\ Backlog \in Nat
BY Constants DEF Round

LEMMA Parts == WInv => ThreadOK /\ QueueOK /\ Counted /\ Idle
BY Zenon DEF WInv, Types

LEMMA RestRange == ThreadOK => Rest \in 0 .. Limit + Buffer + 8
  BY Constants DEF ThreadOK, Places, Rest

\* Each call made for a client brings the end of its connection nearer.
LEMMA ServeNearer ==
  ASSUME ThreadOK, Serve
  PROVE  /\ UNCHANGED <<served, queue, conf>> /\ ~(at \in {"start", "setup", "radio", "ended"})
         /\ ~(at' \in {"start", "setup", "radio", "ended"})
         /\ Rest' \in 0 .. Rest - 1
<1> USE Constants DEF ThreadOK, Places, Rest, Reply
<1>1. CASE Recv
  <2>1. PICK n \in 1 .. Buffer : got' = got + n
    BY <1>1 DEF Recv
  <2>2. /\ at = "recv" /\ got < Limit /\ at' \in {"recv", "route"}
        /\ UNCHANGED <<served, queue, conf>>
    BY <1>1 DEF Recv
  <2> QED
    BY <2>1, <2>2
<1>2. CASE RecvFails \/ TooLarge
  BY <1>2 DEF RecvFails, TooLarge
<1>3. CASE Route
  BY <1>3 DEF Route
<1>4. CASE Upload \/ SendHead \/ SendBody
  BY <1>4 DEF Upload, SendHead, SendBody
<1>5. CASE Close
  BY <1>5 DEF Close
<1> QED
  BY <1>1, <1>2, <1>3, <1>4, <1>5 DEF Serve

LEMMA OthersWait ==
  ASSUME Environment \/ UNCHANGED vars, at # "ended"
  PROVE  UNCHANGED <<at, served, got>> /\ Rest' = Rest
<1>1. UNCHANGED <<at, served, got>>
  BY DEF Environment, Connect, Send, Leave, HandleSignal, Restart, server, vars
<1> QED
  BY <1>1 DEF Rest

\* The calls to the next look at the radio.
Turned == at \in {"radio", "ended"}
Ahead == (PerTick - served) * Round + Rest
Near(n) == ~Turned /\ Ahead <= n
Nears(n) == [](Near(n) => <>Turned)

LEMMA Rounds ==
  ASSUME NEW n \in 0 .. PerTick
  PROVE  /\ (PerTick - n) * Round \in 0 .. PerTick * Round
         /\ n < PerTick => (PerTick - n) * Round = (PerTick - (n + 1)) * Round + Round
<1>1. Round \in Nat /\ PerTick \in Nat
  BY Constants DEF Round
<1>2. \A a, b \in Nat : a * b \in Nat
  OBVIOUS
<1>3. \A a, b, c \in Nat : (a + c) * b = a * b + c * b
  OBVIOUS
<1>4. PerTick * Round = (PerTick - n) * Round + n * Round
  BY <1>1, <1>3
<1>5. n < PerTick => (PerTick - n) * Round = (PerTick - (n + 1)) * Round + 1 * Round
  <2> HAVE n < PerTick
  <2>1. PerTick - (n + 1) \in Nat /\ PerTick - n = (PerTick - (n + 1)) + 1
    BY <1>1
  <2> QED
    BY <1>1, <1>3, <2>1
<1>6. n * Round \in Nat /\ (PerTick - n) * Round \in Nat /\ PerTick * Round \in Nat
  BY <1>1, <1>2
<1> QED
  BY <1>1, <1>4, <1>5, <1>6

LEMMA AheadStep ==
  ASSUME WInv, [Next]_vars, ~Turned
  PROVE  /\ Ahead \in 0 .. PerTick * Round + Round
         /\ ~Turned' => /\ Ahead' \in 0 .. Ahead
                        /\ Executes => Ahead' \in 0 .. Ahead - 1
<1>1. ThreadOK /\ Counted /\ PerTick \in Nat \ {0} /\ Round \in Nat /\ Round = Limit + Buffer + 10
      /\ Limit \in Nat /\ Buffer \in Nat
  BY Sums, Parts
<1>2. Rest \in 0 .. Limit + Buffer + 8
  BY <1>1, RestRange
<1>3. /\ (PerTick - served) * Round \in 0 .. PerTick * Round /\ served \in 0 .. PerTick
      /\ served < PerTick => (PerTick - served) * Round = (PerTick - (served + 1)) * Round + Round
  BY <1>1, Rounds DEF ThreadOK
<1>4. Ahead \in 0 .. PerTick * Round + Round
  BY <1>1, <1>2, <1>3 DEF Ahead
<1>5. CASE Executes
  <2>1. CASE Serve
    <3>1. Rest' \in 0 .. Rest - 1 /\ served' = served
      BY <1>1, <2>1, ServeNearer
    <3>2. Ahead' = (PerTick - served) * Round + Rest'
      BY <3>1 DEF Ahead, Round
    <3> QED
      BY <1>2, <1>3, <1>4, <3>1, <3>2 DEF Ahead
  <2>2. CASE Accept
    <3>1. /\ at = "tick" /\ served < PerTick /\ served' = served + 1
          /\ at' = "recv" /\ got' = 0
      BY <2>2 DEF Accept
    <3>2. Rest = 0 /\ Rest' = Limit + Buffer + 8
      BY <1>1, <3>1 DEF Rest
    <3>3. Ahead' = (PerTick - (served + 1)) * Round + Rest'
      BY <3>1 DEF Ahead, Round
    <3>4. (PerTick - (served + 1)) * Round \in Nat
      <4>1. served + 1 \in 0 .. PerTick
        BY <1>1, <1>3, <3>1
      <4> QED
        BY <4>1, Rounds
    <3> QED
      BY <1>1, <1>3, <1>4, <3>1, <3>2, <3>3, <3>4 DEF Ahead
  <2>3. CASE Start
    <3>1. at = "start" /\ (at' = "setup" \/ Turned') /\ served' = served /\ served = 0
      BY <1>1, <2>3 DEF Start, Turned, Counted
    <3>2. Rest = 2 /\ (at' = "setup" => Rest' = 1)
      BY <1>1, <3>1 DEF Rest
    <3>3. Ahead' = (PerTick - served) * Round + Rest'
      BY <3>1 DEF Ahead, Round
    <3> QED
      BY <1>3, <1>4, <3>1, <3>2, <3>3 DEF Ahead, Turned
  <2>4. CASE EndTick
    BY <1>4, <2>4 DEF EndTick, Turned
  <2>5. CASE Radio
    BY <2>5 DEF Radio, Turned
  <2>6. CASE Setup
    <3>1. at = "setup" /\ (at' = "tick" \/ Turned') /\ served' = served /\ served = 0
      BY <1>1, <2>6 DEF Setup, ProcessEnds, Turned, Counted
    <3>2. Rest = 1 /\ (at' = "tick" => Rest' = 0)
      BY <1>1, <3>1 DEF Rest
    <3>3. Ahead' = (PerTick - served) * Round + Rest'
      BY <3>1 DEF Ahead, Round
    <3> QED
      BY <1>3, <1>4, <3>1, <3>2, <3>3 DEF Ahead, Turned
  <2> QED
    BY <1>5, <2>1, <2>2, <2>3, <2>4, <2>5, <2>6 DEF Executes, Main
<1>6. CASE Environment \/ UNCHANGED vars
  <2>1. Rest' = Rest /\ served' = served
    BY <1>6, OthersWait DEF Turned
  <2>2. Ahead' = Ahead
    BY <2>1 DEF Ahead, Round
  <2>3. CASE ~Executes
    BY <1>4, <2>2, <2>3
  <2> QED
    BY <1>5, <2>3
<1> QED
  BY <1>5, <1>6 DEF Next, Executes

\* Between two looks at the radio the thread makes at most PerTick * Round +
\* Round calls, whatever the clients do meanwhile: none of their steps takes
\* it further away.  No fairness, and no induction, is needed for that.
CallsAhead == ~Turned => Ahead \in 0 .. PerTick * Round + Round
CallsFall ==
  ~Turned /\ ~Turned' => Ahead' \in 0 .. Ahead /\ (Executes => Ahead' < Ahead)

THEOREM CallsBounded == Spec => []CallsAhead /\ [][CallsFall]_vars
<1>1. WInv /\ [Next]_vars => CallsAhead /\ [CallsFall]_vars
  <2> SUFFICES ASSUME WInv, [Next]_vars, ~Turned
               PROVE  /\ Ahead \in 0 .. PerTick * Round + Round
                      /\ ~Turned' => Ahead' \in 0 .. Ahead /\ (Executes => Ahead' < Ahead)
    BY DEF CallsAhead, CallsFall
  <2>1. /\ Ahead \in 0 .. PerTick * Round + Round
        /\ ~Turned' => /\ Ahead' \in 0 .. Ahead
                       /\ Executes => Ahead' \in 0 .. Ahead - 1
    BY AheadStep
  <2>2. \A a \in 0 .. PerTick * Round + Round : \A b \in 0 .. a - 1 : b < a
    BY Sums
  <2> QED
    BY <2>1, <2>2
<1> QED
  BY <1>1, AlwaysWInv, PTL DEF Spec

LEMMA Steppable == CanStep /\ ~(at = "ended") => ENABLED <<Main \/ Serve>>_vars
  BY DEF CanStep

LEMMA NearOne == Lives => Nears(0)
<1>1. WInv /\ Near(0) /\ [Next]_vars => Near(0)' \/ Turned'
  BY AheadStep DEF Near
<1>2. WInv /\ Near(0) /\ <<Main \/ Serve>>_vars => Turned'
  BY AheadStep DEF Near, Next, Executes
<1>3. Near(0) => ~(at = "ended")
  BY DEF Near, Turned
<1> QED
  BY <1>1, <1>2, <1>3, Steppable, AlwaysWInv, PTL DEF Lives, Nears, FairSpec, Spec

LEMMA NearMore ==
  ASSUME NEW n \in Nat
  PROVE  Lives => (Nears(n) => Nears(n + 1))
<1>1. WInv /\ Near(n + 1) /\ [Next]_vars => Near(n + 1)' \/ Turned'
  BY AheadStep DEF Near
<1>2. WInv /\ Near(n + 1) /\ <<Main \/ Serve>>_vars => Near(n)' \/ Turned'
  BY AheadStep DEF Near, Next, Executes
<1>3. Near(n + 1) => ~(at = "ended")
  BY DEF Near, Turned
<1> QED
  BY <1>1, <1>2, <1>3, Steppable, AlwaysWInv, PTL DEF Lives, Nears, FairSpec, Spec

\* Induction over the calls ahead: an instance of NatInduction of the library,
\* for a formula about the future.
InductionOnAhead ==
  Nears(0) /\ (\A n \in Nat : Nears(n) => Nears(n + 1)) => \A n \in Nat : Nears(n)

\* The loop gets back to the radio whatever the clients do, for any PerTick and
\* any limit of the headers.
THEOREM TurnsCorrect == FairSpec /\ []GuardsEnable /\ InductionOnAhead => RadioTurns
<1>1. Lives => Nears(0) /\ \A n \in Nat : Nears(n) => Nears(n + 1)
  BY NearOne, NearMore
<1>2. Lives /\ InductionOnAhead => \A n \in Nat : Nears(n)
  BY <1>1 DEF InductionOnAhead
<1>3. PerTick * Round + Round \in Nat
  BY Constants DEF Round
<1>4. Lives /\ InductionOnAhead => Nears(PerTick * Round + Round)
  BY <1>2, <1>3
<1>5. WInv /\ [Next]_vars => Turned \/ Near(PerTick * Round + Round)
  BY AheadStep DEF Near
<1>6. Turned <=> at \in {"radio", "ended"}
  BY DEF Turned
<1> QED
  BY <1>4, <1>5, <1>6, GuardsLive, AlwaysWInv, PTL DEF Lives, Nears, RadioTurns, FairSpec, Spec

\* Client c is at place i of the queue: i clients are accepted, and no more
\* than n calls made, until it is out of it.
Due(c, n) == \E i \in DOMAIN queue : queue[i] = c /\ i * Round + Rest <= n
Comes(c, n) == [](Due(c, n) => <>(~Queued(c)))
InductionOnDue(c) ==
  Comes(c, 0) /\ (\A n \in Nat : Comes(c, n) => Comes(c, n + 1)) => \A n \in Nat : Comes(c, n)

LEMMA PlaceTimesRound ==
  ASSUME NEW i \in Nat \ {0}
  PROVE  /\ i * Round \in Nat /\ i * Round >= Round
         /\ i * Round = (i - 1) * Round + Round
<1>1. Round \in Nat
  BY Constants DEF Round
<1>2. \A a, b \in Nat : a * b \in Nat
  OBVIOUS
<1>3. \A a, b, c \in Nat : (a + c) * b = a * b + c * b
  OBVIOUS
<1>4. i * Round = (i - 1) * Round + 1 * Round
  BY <1>1, <1>3
<1>5. i * Round \in Nat /\ (i - 1) * Round \in Nat
  BY <1>1, <1>2
<1> QED
  BY <1>1, <1>4, <1>5

\* Accepting takes one from the place of everyone in the queue.
LEMMA AcceptNearer ==
  ASSUME WInv, Accept, NEW c \in Clients, NEW n \in Int, Due(c, n + 1)
  PROVE  Due(c, n)' \/ ~Queued(c)'
<1>1. ThreadOK /\ QueueOK /\ Round \in Nat /\ Round = Limit + Buffer + 10
      /\ Limit \in Nat /\ Buffer \in Nat /\ PerTick \in Nat
  BY Sums, Parts
<1>2. /\ at = "tick" /\ served < PerTick /\ served' = served + 1 /\ at' = "recv" /\ got' = 0
      /\ queue # <<>> /\ queue' = Tail(queue)
  BY DEF Accept
<1>3. Rest = 0 /\ Rest' = Limit + Buffer + 8
  BY <1>1, <1>2 DEF Rest
<1>4. PICK i \in DOMAIN queue : queue[i] = c /\ i * Round + Rest <= n + 1
  BY DEF Due
<1>5. /\ queue \in Seq(Clients) /\ Len(queue) \in Nat \ {0} /\ DOMAIN queue = 1 .. Len(queue)
      /\ \A j, k \in DOMAIN queue : queue[j] = queue[k] => j = k
  BY <1>1, <1>2, EmptySeq, LenProperties DEF QueueOK
<1>6. /\ DOMAIN queue' = 1 .. Len(queue) - 1
      /\ \A j \in 1 .. Len(queue) - 1 : queue'[j] = queue[j + 1]
  BY <1>2, <1>5, HeadTailProperties, LenProperties
<1>7. CASE i = 1
  <2>1. \A j \in DOMAIN queue' : queue'[j] # c
    <3> SUFFICES ASSUME NEW j \in DOMAIN queue', queue'[j] = c PROVE FALSE
      OBVIOUS
    <3>1. j + 1 \in DOMAIN queue /\ queue[j + 1] = queue[1] /\ j + 1 # 1 /\ 1 \in DOMAIN queue
      BY <1>4, <1>5, <1>6, <1>7
    <3> QED
      BY <1>5, <3>1
  <2> QED
    BY <2>1 DEF Queued
<1>8. CASE i # 1
  <2>1. i \in Nat \ {0} /\ i - 1 \in DOMAIN queue' /\ queue'[i - 1] = c
    <3>1. i - 1 \in 1 .. Len(queue) - 1 /\ (i - 1) + 1 = i /\ i \in Nat \ {0}
      BY <1>5, <1>8
    <3> QED
      BY <1>4, <1>6, <3>1
  <2>2. (i - 1) * Round + Rest' <= n
    <3>1. i * Round = (i - 1) * Round + Round /\ i * Round \in Nat
      BY <2>1, PlaceTimesRound
    <3>2. (i - 1) * Round \in Int
      BY <1>1, <2>1
    <3> QED
      BY <1>1, <1>3, <1>4, <3>1, <3>2
  <2> QED
    BY <2>1, <2>2 DEF Due, Round
<1> QED
  BY <1>7, <1>8

LEMMA DueStep ==
  ASSUME WInv, [Next]_vars, NEW c \in Clients, NEW n \in Nat
  PROVE  /\ Queued(c) => ~(at = "ended") /\ Due(c, Backlog * Round + Round)
         /\ ~Due(c, 0)
         /\ Due(c, n) => Queued(c) /\ (Due(c, n)' \/ ~Queued(c)')
         /\ Executes /\ Due(c, n + 1) => Due(c, n)' \/ ~Queued(c)'
<1>1. ThreadOK /\ Counted /\ Idle /\ QueueOK /\ Round \in Nat /\ Round = Limit + Buffer + 10
      /\ Limit \in Nat /\ Buffer \in Nat /\ PerTick \in Nat \ {0} /\ Backlog \in Nat
  BY Sums, Parts
<1>2. Rest \in 0 .. Limit + Buffer + 8
  BY <1>1, RestRange
<1>3. queue \in Seq(Clients) /\ Len(queue) \in 0 .. Backlog /\ DOMAIN queue = 1 .. Len(queue)
  BY <1>1, LenProperties DEF QueueOK
<1>4. \A i \in DOMAIN queue :
        i \in Nat \ {0} /\ i * Round \in Nat /\ i * Round >= Round /\ i * Round <= Backlog * Round
  <2> TAKE i \in DOMAIN queue
  <2>1. i \in 1 .. Backlog
    BY <1>1, <1>3
  <2>2. i * Round \in Nat /\ i * Round >= Round
    BY <2>1, PlaceTimesRound
  <2>3. \A a, b, d \in Nat : (a + d) * b = a * b + d * b /\ a * b \in Nat
    OBVIOUS
  <2>4. Backlog * Round = i * Round + (Backlog - i) * Round /\ (Backlog - i) * Round \in Nat
    BY <1>1, <2>1, <2>3
  <2>5. Backlog * Round \in Nat
    BY <1>1, <2>3
  <2> QED
    BY <2>1, <2>2, <2>4, <2>5
<1>5. \A m \in Int : Due(c, m) => Queued(c)
  BY DEF Due, Queued
<1>6. Queued(c) => queue # <<>> /\ ~(at = "ended") /\ ~(at = "start") /\ conf.web
  <2> HAVE Queued(c)
  <2>1. queue # <<>>
    BY <1>3 DEF Queued
  <2> QED
    BY <1>1, <2>1 DEF Idle
<1>7. Queued(c) => Due(c, Backlog * Round + Round)
  <2> HAVE Queued(c)
  <2>1. PICK i \in DOMAIN queue : queue[i] = c
    BY DEF Queued
  <2>2. i * Round + Rest <= Backlog * Round + Round
    <3>1. Backlog * Round \in Int
      BY <1>1
    <3> QED
      BY <1>1, <1>2, <1>4, <3>1
  <2> QED
    BY <2>1, <2>2 DEF Due
<1>8. ~Due(c, 0)
  BY <1>1, <1>2, <1>4 DEF Due
<1>9. ASSUME NEW m \in Int, Executes, Due(c, m + 1) PROVE Due(c, m)' \/ ~Queued(c)'
  <2>1. Queued(c)
    BY <1>5, <1>9
  <2>2. PICK i \in DOMAIN queue : queue[i] = c /\ i * Round + Rest <= m + 1
    BY <1>9 DEF Due
  <2>3. ASSUME queue' = queue, Rest' \in 0 .. Rest - 1 PROVE Due(c, m)'
    <3>1. i \in DOMAIN queue' /\ queue'[i] = c
      BY <2>2, <2>3
    <3>2. i * Round + Rest' <= m
      BY <1>2, <1>4, <2>2, <2>3
    <3> QED
      BY <3>1, <3>2 DEF Due, Round
  <2>4. CASE Serve
    BY <1>1, <2>3, <2>4, ServeNearer
  <2>5. CASE Accept
    BY <1>9, <2>5, AcceptNearer
  <2>6. CASE Start
    BY <1>6, <2>1, <2>6 DEF Start
  <2>7. CASE EndTick
    <3>1. at = "tick" /\ served = PerTick /\ at' = "radio" /\ queue' = queue
      BY <1>6, <2>1, <2>7 DEF EndTick
    <3>2. Rest = 2 /\ Rest' = 1
      BY <1>1, <3>1 DEF Rest
    <3> QED
      BY <2>3, <3>1, <3>2
  <2>8. CASE (Setup \/ Radio) /\ ~ProcessEnds
    <3>1. at \in {"setup", "radio"} /\ at' = "tick" /\ served' = served /\ served = 0 /\ queue' = queue
      BY <1>1, <2>8 DEF Setup, Radio, Counted
    <3>2. Rest = 1 /\ Rest' = 0
      BY <1>1, <3>1 DEF Rest
    <3> QED
      BY <2>3, <3>1, <3>2
  <2>9. CASE ProcessEnds
    BY <2>9 DEF ProcessEnds, Queued
  <2> QED
    BY <1>9, <2>4, <2>5, <2>6, <2>7, <2>8, <2>9 DEF Executes, Main
<1>10. ASSUME Due(c, n), Environment \/ UNCHANGED vars PROVE Due(c, n)'
  <2>1. at # "ended" /\ Rest' = Rest
    BY <1>5, <1>6, <1>10, OthersWait
  <2>2. PICK i \in DOMAIN queue : queue[i] = c /\ i * Round + Rest <= n
    BY <1>10 DEF Due
  <2>3. i \in DOMAIN queue' /\ queue'[i] = queue[i]
    <3>1. CASE queue' = queue
      BY <3>1
    <3>2. ASSUME NEW d \in Clients, queue' = Append(queue, d) PROVE i \in DOMAIN queue' /\ queue'[i] = queue[i]
      <4>1. /\ Len(queue') = Len(queue) + 1 /\ queue' \in Seq(Clients)
            /\ \A j \in 1 .. Len(queue) : queue'[j] = queue[j]
        BY <1>3, <3>2, AppendProperties
      <4>2. DOMAIN queue' = 1 .. Len(queue')
        BY <4>1, LenProperties
      <4> QED
        BY <1>3, <4>1, <4>2
    <3>3. queue' = queue \/ \E d \in Clients : queue' = Append(queue, d)
      BY <1>10 DEF Environment, Connect, Send, Leave, HandleSignal, Restart, server, vars
    <3> QED
      BY <3>1, <3>2, <3>3
  <2> QED
    BY <2>1, <2>2, <2>3 DEF Due, Round
<1>11. Due(c, n) => Due(c, n)' \/ ~Queued(c)'
  <2>1. CASE Executes
    <3>1. Due(c, n)' => Due(c, n)'
      OBVIOUS
    <3>2. Due(c, n) => Due(c, (n - 1) + 1)
      BY DEF Due
    <3>3. Due(c, n - 1)' => Due(c, n)'
      <4> HAVE Due(c, n - 1)'
      <4>1. PICK i \in DOMAIN queue' : queue'[i] = c /\ i * Round + Rest' <= n - 1
        BY DEF Due, Round
      <4>2. QueueOK' /\ ThreadOK'
        BY QueueStep, ThreadStep, Zenon DEF WInv
      <4>3. i \in Nat \ {0}
        BY <4>2, LenProperties DEF QueueOK
      <4>4. i * Round \in Int
        BY <4>3, PlaceTimesRound
      <4>5. Rest' \in Int
        BY <1>1, <4>2 DEF ThreadOK, Places, Rest
      <4> QED
        BY <4>1, <4>4, <4>5 DEF Due, Round
    <3> QED
      BY <1>9, <2>1, <3>2, <3>3
  <2> QED
    BY <1>10, <2>1 DEF Next, Executes
<1> QED
  BY <1>5, <1>6, <1>7, <1>8, <1>9, <1>11

LEMMA DueNow ==
  ASSUME NEW c \in Clients
  PROVE  Lives => Comes(c, 0)
<1>1. WInv /\ [Next]_vars => ~Due(c, 0)
  BY DueStep
<1> QED
  BY <1>1, AlwaysWInv, PTL DEF Lives, Comes, FairSpec, Spec

LEMMA DueLater ==
  ASSUME NEW c \in Clients, NEW n \in Nat
  PROVE  Lives => (Comes(c, n) => Comes(c, n + 1))
<1>1. WInv /\ Due(c, n + 1) /\ [Next]_vars => Due(c, n + 1)' \/ ~Queued(c)'
  BY DueStep
<1>2. WInv /\ Due(c, n + 1) /\ <<Main \/ Serve>>_vars => Due(c, n)' \/ ~Queued(c)'
  BY DueStep DEF Next, Executes
<1>3. WInv /\ [Next]_vars /\ Due(c, n + 1) => ~(at = "ended")
  BY DueStep
<1> QED
  BY <1>1, <1>2, <1>3, Steppable, AlwaysWInv, PTL DEF Lives, Comes, FairSpec, Spec

LEMMA EachIsServed ==
  ASSUME NEW c \in Clients
  PROVE  Lives /\ InductionOnDue(c) => IsServed(c)
<1>1. Lives => Comes(c, 0) /\ \A n \in Nat : Comes(c, n) => Comes(c, n + 1)
  BY DueNow, DueLater
<1>2. Lives /\ InductionOnDue(c) => \A n \in Nat : Comes(c, n)
  BY <1>1 DEF InductionOnDue
<1>3. Backlog * Round + Round \in Nat
  BY Constants DEF Round
<1>4. Lives /\ InductionOnDue(c) => Comes(c, Backlog * Round + Round)
  BY <1>2, <1>3
<1>5. WInv /\ [Next]_vars /\ Queued(c) => Due(c, Backlog * Round + Round)
  BY DueStep
<1> QED
  BY <1>4, <1>5, AlwaysWInv, PTL DEF Lives, Comes, IsServed, FairSpec, Spec

\* A client in the accept queue gets its turn, for any number of clients, any
\* backlog and any PerTick, whatever the others do.
THEOREM QueueCorrect ==
  FairSpec /\ []GuardsEnable /\ (\A c \in Clients : InductionOnDue(c)) => QueuedIsServed
<1>1. \A c \in Clients : Lives /\ InductionOnDue(c) => IsServed(c)
  BY EachIsServed
<1> QED
  BY <1>1, GuardsLive DEF QueuedIsServed
=============================================================================
