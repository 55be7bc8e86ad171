------------------------------ MODULE WebServer ------------------------------
(***************************************************************************)
(* web_server.cpp in the loop of main(): tick() between two looks at the   *)
(* radio, connections in the accept queue, headers that arrive in pieces,  *)
(* the answer in two writes, and clients that stall, send too much, leave  *)
(* at any point and come back.  The upload of an image is one step here    *)
(* and is module OtaUpdate.                                                *)
(*                                                                         *)
(* Time is not counted: a blocking call returns with what it waits for or  *)
(* with the end of its 15 seconds.                                         *)
(***************************************************************************)
EXTENDS Integers, Sequences

CONSTANTS
  Clients,    \* clients, each with one connection at a time
  Requests,   \* what a client may send, see RequestType
  Confs,      \* configurations: [web, enabled, token]
  Backlog,    \* connections that the kernel queues for accept()
  PerTick,    \* clients served in a tick(), 4 in the code
  Limit,      \* bytes of headers after which no more are read, 16384
  Buffer      \* bytes read at once, 512

\* A request: what the request line and Content-Length make it ("get" is a
\* page, "bad" cannot be parsed), the bytes of its headers, and the tokens in
\* its X-OTA-Token headers and in the token= of its query, in order.
Tokens == {"", "change-me", "secret", "other"}
RequestType ==
  [kind : {"get", "ota", "unknown", "bad"}, size : Nat \ {0},
   headers : Seq(Tokens), query : Seq(Tokens)]

ASSUME WebAssumption ==
  /\ Requests \subseteq RequestType
  /\ Confs \subseteq [web : BOOLEAN, enabled : BOOLEAN, token : Tokens]
  /\ {Backlog, PerTick, Limit, Buffer} \subseteq Nat \ {0}
  /\ "nobody" \notin Clients

VARIABLES
  conf,      \* the configuration
  running,   \* g_running
  at,        \* where main()'s thread is
  served,    \* i in tick()
  queue,     \* the accept queue
  cur,       \* the client being served, or "nobody"
  got,       \* data.size(): bytes of headers read from it
  status,    \* of the answer to it
  request,   \* what each client sends on its connection
  written,   \* bytes of it that the client has sent
  peer,      \* the client: "open", "shut" (sends no more), "gone"
  answer,    \* the answer whose head each client has got, or "none"
  reads,     \* history: calls of recv() for headers since the last look at the radio
  late       \* history: clients accepted since the signal that ends this process

history == <<reads, late>>
server == <<conf, running, at, served, queue, cur, got, status, history>>
client == <<request, written, peer>>
vars == <<server, client, answer>>

NoRequest == [kind |-> "none", size |-> 0, headers |-> <<>>, query |-> <<>>]

Init ==
  /\ conf \in Confs /\ running = TRUE /\ at = "start"
  /\ served = 0 /\ queue = <<>> /\ cur = "nobody" /\ got = 0 /\ status = "none"
  /\ reads = 0 /\ late = 0
  /\ request = [c \in Clients |-> NoRequest]
  /\ written = [c \in Clients |-> 0]
  /\ peer = [c \in Clients |-> "open"]
  /\ answer = [c \in Clients |-> "none"]

Queued(c) == \E i \in DOMAIN queue : queue[i] = c
Connected(c) == c = cur \/ Queued(c)
Listening == conf.web /\ at \notin {"start", "ended"}

-----------------------------------------------------------------------------
(* The clients.  None of their steps waits for the server's.               *)

Connect(c) ==
  /\ Listening /\ ~Connected(c) /\ Len(queue) < Backlog
  /\ queue' = Append(queue, c)
  /\ \E r \in Requests : request' = [request EXCEPT ![c] = r]
  /\ UNCHANGED <<conf, running, at, served, cur, got, status, written, peer, answer, history>>

Send(c) ==
  /\ Connected(c) /\ peer[c] = "open" /\ written[c] < request[c].size
  /\ written' = [written EXCEPT ![c] = @ + 1]
  /\ UNCHANGED <<server, request, peer, answer>>

Leave(c) ==
  /\ Connected(c)
  /\ \/ peer[c] = "open" /\ peer' = [peer EXCEPT ![c] = "shut"]
     \/ peer[c] # "gone" /\ peer' = [peer EXCEPT ![c] = "gone"]
  /\ UNCHANGED <<server, request, written, answer>>

-----------------------------------------------------------------------------
(* The loop of main() and tick().                                          *)

\* The kernel closes the sockets of a process that ends.
ProcessEnds ==
  /\ at' = "ended" /\ queue' = <<>> /\ late' = 0
  /\ request' = [c \in Clients |-> NoRequest]
  /\ written' = [c \in Clients |-> 0]
  /\ peer' = [c \in Clients |-> "open"]

\* An error in the configuration or in start(), or the socket is open.
Start ==
  /\ at = "start" /\ at' \in {"setup", "ended"}
  /\ UNCHANGED <<conf, running, served, queue, cur, got, status, client, answer, history>>

\* Pins, SPI and radio, which end in the loop, or the process: by an error of
\* theirs, by --probe, or as the loop is not entered after a signal.
Setup ==
  /\ at = "setup"
  /\ \/ running /\ at' = "tick" /\ UNCHANGED <<queue, client, late>>
     \/ ProcessEnds
  /\ UNCHANGED <<conf, running, served, cur, got, status, answer, reads>>

HandleSignal ==
  /\ running /\ at \notin {"start", "ended"} /\ running' = FALSE
  /\ UNCHANGED <<conf, at, served, queue, cur, got, status, client, answer, history>>

\* The history stops one above the bound that StopsWithinTick states.
CountLate ==
  late' = IF running \/ late > PerTick THEN late ELSE late + 1

\* Mutant: tick() serves whoever is there.
AcceptAll ==
  /\ at = "tick" /\ conf.web /\ queue # <<>>
  /\ cur' = Head(queue) /\ queue' = Tail(queue) /\ at' = "recv" /\ got' = 0
  /\ served' = 1 /\ CountLate
  /\ UNCHANGED <<conf, running, status, client, answer, reads>>

Accept ==
  /\ at = "tick" /\ conf.web /\ served < PerTick /\ queue # <<>>
  /\ cur' = Head(queue) /\ queue' = Tail(queue) /\ at' = "recv" /\ got' = 0
  /\ served' = served + 1 /\ CountLate
  /\ UNCHANGED <<conf, running, status, client, answer, reads>>

EndTick ==
  /\ at = "tick" /\ (conf.web => served = PerTick \/ queue = <<>>)
  /\ at' = "radio" /\ served' = 0
  /\ UNCHANGED <<conf, running, queue, cur, got, status, client, answer, history>>

\* Mutant: the loop does not see that g_running was lowered.
RadioGoesOn ==
  /\ at = "radio" /\ at' = "tick" /\ reads' = 0
  /\ UNCHANGED <<conf, running, served, queue, cur, got, status, client, answer, late>>

\* The rest of the turn: an error of DIO0, of the reading or of the repeating
\* of a packet ends the process; else the delay, and while (g_running).
Radio ==
  /\ at = "radio" /\ reads' = 0
  /\ \/ running /\ at' = "tick" /\ UNCHANGED <<queue, client, late>>
     \/ ProcessEnds
  /\ UNCHANGED <<conf, running, served, cur, got, status, answer>>

Restart ==
  /\ at = "ended" /\ at' = "start" /\ running' = TRUE /\ conf' \in Confs
  /\ UNCHANGED <<served, queue, cur, got, status, client, answer, history>>

-----------------------------------------------------------------------------
(* read_request_headers() and route_request().                             *)

\* The history stops one above the bound that TurnBounded states.
Count == UNCHANGED late /\ reads' = IF reads > PerTick * Limit THEN reads ELSE reads + 1

Reply(s) == status' = s /\ at' = "head"

\* Mutant: reading goes on whatever has come already.
RecvUnlimited ==
  /\ at = "recv"
  /\ \E n \in 1 .. Buffer :
       /\ got + n <= written[cur]
       /\ got' = got + n
       /\ at' = IF got + n = request[cur].size THEN "route" ELSE "recv"
  /\ Count
  /\ UNCHANGED <<conf, running, served, queue, cur, status, client, answer>>

\* Mutant: the size is looked at before the end is.
RecvChecksSizeFirst ==
  /\ at = "recv" /\ got < Limit
  /\ \E n \in 1 .. Buffer :
       /\ got + n <= written[cur]
       /\ got' = got + n
       /\ at' = IF got + n = request[cur].size /\ got + n < Limit THEN "route" ELSE "recv"
  /\ Count
  /\ UNCHANGED <<conf, running, served, queue, cur, status, client, answer>>

\* Headers are read up to the end of a recv() that holds their end.
Recv ==
  /\ at = "recv" /\ got < Limit
  /\ \E n \in 1 .. Buffer :
       /\ got + n <= written[cur]
       /\ got' = got + n
       /\ at' = IF got + n = request[cur].size THEN "route" ELSE "recv"
  /\ Count
  /\ UNCHANGED <<conf, running, served, queue, cur, status, client, answer>>

\* Mutant: no SO_RCVTIMEO.
RecvFailsOnlyAtEnd ==
  /\ at = "recv" /\ got < Limit /\ got = written[cur] /\ peer[cur] # "open"
  /\ Reply("400") /\ Count
  /\ UNCHANGED <<conf, running, served, queue, cur, got, client, answer>>

\* Nothing has come for 15 seconds, or the client has closed.
RecvFails ==
  /\ at = "recv" /\ got < Limit /\ got = written[cur]
  /\ Reply("400") /\ Count
  /\ UNCHANGED <<conf, running, served, queue, cur, got, client, answer>>

TooLarge ==
  /\ at = "recv" /\ got >= Limit
  /\ Reply("400")
  /\ UNCHANGED <<conf, running, served, queue, cur, got, client, answer, history>>

\* The map of the headers keeps the last of a name; query_value() returns the
\* first of a key, and "" without one.
LastHeader(r) == r.headers[Len(r.headers)]
FirstOfQuery(r) == IF r.query = <<>> THEN "" ELSE Head(r.query)

\* Mutant: an empty ota_token is compared like any other.
CheckOtaTokenEmpty(r) ==
  /\ conf.token # "change-me"
  /\ \/ r.headers # <<>> /\ LastHeader(r) = conf.token
     \/ FirstOfQuery(r) = conf.token

CheckOtaToken(r) ==
  /\ conf.token \notin {"", "change-me"}
  /\ \/ r.headers # <<>> /\ LastHeader(r) = conf.token
     \/ FirstOfQuery(r) = conf.token

Admitted(r) == conf.enabled /\ CheckOtaToken(r)

Route ==
  /\ at = "route"
  /\ LET r == request[cur]
     IN  \/ r.kind = "bad" /\ Reply("400")
         \/ r.kind = "get" /\ Reply("200")
         \/ r.kind = "unknown" /\ Reply("404")
         \/ r.kind = "ota" /\ IF Admitted(r)
                                THEN at' = "ota" /\ UNCHANGED status
                                ELSE Reply("403")
  /\ UNCHANGED <<conf, running, served, queue, cur, got, client, answer, history>>

\* The rest of handle_ota_upload(): module OtaUpdate.
Upload ==
  /\ at = "ota"
  /\ \E s \in {"200", "202", "400", "409", "413", "500"} : Reply(s)
  /\ UNCHANGED <<conf, running, served, queue, cur, got, client, answer, history>>

-----------------------------------------------------------------------------
(* send_response() and the end of accept_one().                            *)

\* The head fits into an empty send buffer, so that it fails to go only to a
\* client that is gone.  What write_all() returns is not looked at.
SendHead ==
  /\ at = "head" /\ at' = "body"
  /\ answer' = IF peer[cur] = "gone" THEN answer ELSE [answer EXCEPT ![cur] = status]
  /\ UNCHANGED <<conf, running, served, queue, cur, got, status, client, history>>

\* Mutant: no return after the 400 for headers that did not come to their end.
SendBodyGoesOn ==
  /\ at = "body" /\ at' = IF got < request[cur].size THEN "route" ELSE "close"
  /\ UNCHANGED <<conf, running, served, queue, cur, got, status, client, answer, history>>

\* The body goes out, or the client is gone, or reads nothing for 15 seconds.
SendBody ==
  /\ at = "body" /\ at' = "close"
  /\ UNCHANGED <<conf, running, served, queue, cur, got, status, client, answer, history>>

\* close(), and the client may come back.
Close ==
  /\ at = "close" /\ at' = "tick"
  /\ cur' = "nobody" /\ got' = 0 /\ status' = "none"
  /\ request' = [request EXCEPT ![cur] = NoRequest]
  /\ written' = [written EXCEPT ![cur] = 0]
  /\ peer' = [peer EXCEPT ![cur] = "open"]
  /\ answer' = [answer EXCEPT ![cur] = "none"]
  /\ UNCHANGED <<conf, running, served, queue, history>>

-----------------------------------------------------------------------------
Main == Start \/ Setup \/ Accept \/ EndTick \/ Radio
Serve == Recv \/ RecvFails \/ TooLarge \/ Route \/ Upload \/ SendHead \/ SendBody \/ Close
Environment ==
  \/ \E c \in Clients : Connect(c) \/ Send(c) \/ Leave(c)
  \/ HandleSignal \/ Restart

Next == Main \/ Serve \/ Environment

Spec == Init /\ [][Next]_vars

\* The daemon executes; its blocking calls end, since both timeouts are set;
\* an upload ends (RequestEnds of OtaUpdate).
FairSpec == Spec /\ WF_vars(Main \/ Serve)

-----------------------------------------------------------------------------
(* Properties.                                                             *)

Places ==
  {"start", "setup", "tick", "recv", "route", "ota", "head", "body", "close", "radio", "ended"}
Statuses == {"200", "202", "400", "403", "404", "409", "413", "500"}
Serving == at \in {"recv", "route", "ota", "head", "body", "close"}

\* Every variable keeps its type: no more connections than the kernel queues,
\* no more clients in a tick() and no more bytes of headers than the code says.
TypeOK ==
  /\ conf \in Confs /\ running \in BOOLEAN /\ at \in Places
  /\ served \in 0 .. PerTick
  /\ queue \in Seq(Clients) /\ Len(queue) <= Backlog
  /\ cur \in Clients \union {"nobody"} /\ (cur \in Clients <=> Serving)
  /\ got \in 0 .. Limit + Buffer - 1
  /\ status \in Statuses \union {"none"}
  /\ request \in [Clients -> Requests \union {NoRequest}]
  /\ written \in [Clients -> Nat]
  /\ peer \in [Clients -> {"open", "shut", "gone"}]
  /\ answer \in [Clients -> Statuses \union {"none"}]
  /\ reads \in 0 .. PerTick * Limit + 1 /\ late \in 0 .. PerTick + 1

\* A client that sent complete headers within the limit is answered for what
\* it asked: 400 means a request that cannot be parsed, headers whose end the
\* server has not read, or an upload that was admitted and whose image did not
\* pass (OtaUpdate); the other answers of an upload go to one that was admitted.
AnswersFit ==
  \A c \in Clients :
    LET r == request[c] IN
    /\ answer[c] \in {"200", "202", "404", "409", "413", "500"} => got = r.size /\ r.kind # "bad"
    /\ answer[c] = "400" => r.kind = "bad" \/ got < r.size \/ (r.kind = "ota" /\ Admitted(r))
    /\ answer[c] \in {"202", "409", "413", "500"} => r.kind = "ota" /\ Admitted(r)
    /\ answer[c] = "404" <=> answer[c] # "none" /\ got = r.size /\ r.kind = "unknown"
    /\ answer[c] = "403" => r.kind = "ota" /\ ~Admitted(r)

\* README: an upload is rejected unless ota_enabled=true and ota_token is
\* changed to a real secret, which the client then has to know.
GateHolds ==
  at = "ota" =>
    /\ conf.enabled /\ conf.token \notin {"", "change-me"}
    /\ \E tokens \in {request[cur].headers, request[cur].query} :
         \E i \in DOMAIN tokens : tokens[i] = conf.token

\* However clients behave, the radio waits for a bounded number of calls of
\* recv() for headers between two looks at it.
TurnBounded == reads <= PerTick * Limit

\* However many clients wait, and whenever the signal comes, between two of
\* them too: the process serves those of one tick() at most before it ends.
StopsWithinTick == late <= PerTick

Sessions == INSTANCE HttpSessions WITH
  waiting <- IF Serving THEN <<cur>> \o queue ELSE queue

\* Clients are served in order, one at a time, answered once at most.
ServesInOrder == Sessions!Spec

\* The thread waits for nothing that a client could withhold: in every state
\* some call of it returns, with data or with the end of its timeout.
CanStep == at # "ended" => ENABLED <<Main \/ Serve>>_vars

\* The loop gets back to the radio, however many clients come back however
\* often, stall, or send what they like.
RadioTurns == []<>(at \in {"radio", "ended"})

IsServed(c) == Queued(c) ~> ~Queued(c)

\* A client in the accept queue gets its turn.
QueuedIsServed == \A c \in Clients : IsServed(c)
=============================================================================
