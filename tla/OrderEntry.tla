----------------------------- MODULE OrderEntry -----------------------------
(***************************************************************************)
(* Order entry: the TCP connections between the order gateways of the      *)
(* market participants (src/client/order_gateway.cpp) and the order server *)
(* of the exchange (include/exchange/order_server.hpp, order_server.cpp,   *)
(* src/networking/tcp_server.cpp), which hands the requests of a round of  *)
(* reads to the FIFO sequencer (include/exchange/fifo_sequencer.hpp).      *)
(*                                                                         *)
(* TCP is a stream: a read returns some prefix of what was sent, whatever  *)
(* the boundaries of the messages.  A message is two units here, its first *)
(* and its second half, and a buffer or a stream is a sequence of units.   *)
(* A client that crashes comes back as a new process with a connection of  *)
(* its own; a socket is the pair of a client and the number of its run.    *)
(* A send may be refused as a whole, when the kernel's buffer is full.     *)
(***************************************************************************)
EXTENDS Integers, Sequences, FiniteSets, SequencesExt

CONSTANTS
  Clients,
  MAX_PENDING_REQUESTS,   \* of the FIFO sequencer
  SortThreshold,          \* up to this length std::sort is stable, beyond it is not
  RxTimes,                \* kernel timestamps of the reads of one round
  MaxRequests,            \* bound: the requests of all clients
  MaxFills,               \* bound: the responses that answer no request of their client
  MaxFaults,              \* bound: restarts of clients and refused sends together
  NULL

ASSUME OrderEntryAssumption ==
  /\ MAX_PENDING_REQUESTS \in Nat /\ SortThreshold \in Nat /\ RxTimes \subseteq Nat
  /\ MaxRequests \in Nat /\ MaxFills \in Nat /\ MaxFaults \in Nat

Runs    == 0 .. MaxFaults
Sockets == Clients \X Runs

(* The n-th request of RandomTrader::onTimer, the only algorithm that      *)
(* sends any: by turns a NEW with the next order id and a CANCEL of one of *)
(* the orders before.  A process starts with the same id as the one before *)
(* it; ids count from 0 here.                                              *)
RandomRequests(n) ==
  IF n % 2 = 1 THEN {[type_ |-> "NEW", order_id_ |-> n \div 2]}
  ELSE {[type_ |-> "CANCEL", order_id_ |-> i] : i \in 0 .. n \div 2 - 1}

(* The requests on the connections.                                        *)
ClientRequests ==
  {m \in [client_id_ : Clients, run : Runs, seq_num_ : Nat \ {0},
          request : [type_ : {"NEW", "CANCEL"}, order_id_ : Nat]] :
     m.request \in RandomRequests(m.seq_num_)}

ASSUME NullEntry == NULL \notin Sockets \cup ClientRequests

VARIABLES
  \* a client: its process, its gateway and what its trade engine has got
  run,                      \* how often the client was restarted
  asked,                    \* how many requests all the clients have made
  next_outgoing_seq_num_, next_incoming_seq_num_,
  og_send_buffer_, og_recv_buffer_,
  got,                      \* the responses handed to the trade engine
  \* the two directions of each connection
  up, down,
  refused,                  \* the sockets on which a send was refused
  \* the order server
  pc,                       \* where its thread is
  recv_sockets_,            \* the sockets it has accepted
  toRead,                   \* those it has still to read in this round
  recv_buffer_, send_buffer_,
  server,                   \* what recvCallbacks keeps: a record
  cid_next_outgoing_seq_num_,
  client_requests, client_responses,   \* its two queues to the matching engine
  \* the matching engine
  taken,                    \* the requests it has taken
  produced                  \* how many responses it has made for each client

gatewayVars == <<run, asked, next_outgoing_seq_num_, next_incoming_seq_num_,
                 og_send_buffer_, og_recv_buffer_, got>>
streamVars  == <<up, down, refused>>
socketVars  == <<recv_sockets_, recv_buffer_, send_buffer_>>
engineVars  == <<taken, produced>>
vars == <<gatewayVars, streamVars, pc, toRead, socketVars, server,
          cid_next_outgoing_seq_num_, client_requests, client_responses, engineVars>>

Init ==
  /\ run = [c \in Clients |-> 0]
  /\ asked = 0
  /\ next_outgoing_seq_num_ = [c \in Clients |-> 1]
  /\ next_incoming_seq_num_ = [c \in Clients |-> 1]
  /\ og_send_buffer_ = [c \in Clients |-> << >>]
  /\ og_recv_buffer_ = [c \in Clients |-> << >>]
  /\ got = [c \in Clients |-> << >>]
  /\ up = [s \in Sockets |-> << >>]
  /\ down = [s \in Sockets |-> << >>]
  /\ refused = {}
  /\ pc = "poll"
  /\ recv_sockets_ = {}
  /\ toRead = {}
  /\ recv_buffer_ = [s \in Sockets |-> << >>]
  /\ send_buffer_ = [s \in Sockets |-> << >>]
  /\ server = [cid_to_socket_ |-> [c \in Clients |-> NULL],
               cid_next_exp_seq_num_ |-> [c \in Clients |-> 1],
               pending_client_requests_ |-> << >>]
  /\ cid_next_outgoing_seq_num_ = [c \in Clients |-> 1]
  /\ client_requests = << >>
  /\ client_responses = << >>
  /\ taken = << >>
  /\ produced = [c \in Clients |-> 0]

----------------------------------------------------------------------------
SumOf(f) == FoldFunction(+, 0, f)

(* Messages in a stream.                                                   *)

Units(m) == <<[of |-> m, half |-> 1], [of |-> m, half |-> 2]>>

(* The message that two units, read as one, are; NULL when they are not    *)
(* the halves of one message, and the number read is nobody's next one.    *)
ReadAs(u, v) == IF u.of = v.of /\ u.half = 1 /\ v.half = 2 THEN u.of ELSE NULL

(* What the loops over a receive buffer see: each whole message in it.     *)
WholeMessages(buffer) ==
  [i \in 1 .. Len(buffer) \div 2 |-> ReadAs(buffer[2 * i - 1], buffer[2 * i])]

(* Mutant: the bytes behind the last whole message are dropped.            *)
Remainder_Dropped(buffer) == << >>

(* What the server keeps: the bytes behind the last whole message.         *)
Remainder(buffer) == SubSeq(buffer, Len(buffer) - (Len(buffer) % 2) + 1, Len(buffer))

(* What the gateway keeps: as many bytes, but from the second byte of the  *)
(* buffer on.  Without a whole message it keeps the buffer as it is.       *)
GatewayRemainder(buffer) ==
  IF Len(buffer) < 2 THEN buffer ELSE SubSeq(buffer, 2, 1 + (Len(buffer) % 2))

(* How much a read may return of a stream.                                 *)
ReadLengths(stream) == IF stream = << >> THEN {0} ELSE 1 .. Len(stream)

(* ::send of what is in a send buffer.  Its result is ignored and the      *)
(* buffer reset, so that nothing is delivered when the kernel refuses it.  *)
Send(s, buffer, delivered) ==
  IF delivered = buffer THEN UNCHANGED refused
  ELSE /\ delivered = << >>
       /\ s \notin refused
       /\ SumOf(run) + Cardinality(refused) < MaxFaults
       /\ refused' = refused \cup {s}

----------------------------------------------------------------------------
(* The clients.                                                            *)

Socket(c) == <<c, run[c]>>

(* The trade engine makes a request and the loop of OrderGateway::run      *)
(* takes it.                                                               *)
SendRequest(c) ==
  /\ asked < MaxRequests
  /\ asked' = asked + 1
  /\ \E request \in RandomRequests(next_outgoing_seq_num_[c]) :
       LET m == [client_id_ |-> c, run |-> run[c], seq_num_ |-> next_outgoing_seq_num_[c],
                 request |-> request]
       IN og_send_buffer_' = [og_send_buffer_ EXCEPT ![c] = @ \o Units(m)]
  /\ next_outgoing_seq_num_' = [next_outgoing_seq_num_ EXCEPT ![c] = @ + 1]
  /\ UNCHANGED <<run, next_incoming_seq_num_, og_recv_buffer_, got, streamVars, pc, toRead,
                 socketVars, server, cid_next_outgoing_seq_num_, client_requests,
                 client_responses, engineVars>>

(* Mutant: a response out of sequence is taken as well.                    *)
recvResponse_AnyNumber(g, m) ==
  IF m = NULL THEN g ELSE [next |-> m.seq_num_ + 1, got |-> Append(g.got, m.id)]

(* One iteration of the loop of OrderGateway::recvCallback.                *)
recvResponse(g, m) ==
  IF m # NULL /\ m.seq_num_ = g.next
  THEN [next |-> g.next + 1, got |-> Append(g.got, m.id)]
  ELSE g

(* TCPSocket::sendAndRecv of the gateway: receive, handle, then send what  *)
(* is in the send buffer.                                                  *)
GatewaySendAndRecv(c) ==
  LET s == Socket(c) IN
  \E k \in ReadLengths(down[s]) :
    LET buffer == og_recv_buffer_[c] \o SubSeq(down[s], 1, k)
        g      == FoldLeft(recvResponse, [next |-> next_incoming_seq_num_[c], got |-> got[c]],
                           WholeMessages(buffer))
    IN
    /\ og_recv_buffer_' = [og_recv_buffer_ EXCEPT
                             ![c] = IF k = 0 THEN @ ELSE GatewayRemainder(buffer)]
    /\ next_incoming_seq_num_' = [next_incoming_seq_num_ EXCEPT ![c] = g.next]
    /\ got' = [got EXCEPT ![c] = g.got]
    /\ down' = [down EXCEPT ![s] = SubSeq(@, k + 1, Len(@))]
    /\ \E delivered \in {og_send_buffer_[c], << >>} :
         /\ Send(s, og_send_buffer_[c], delivered)
         /\ up' = [up EXCEPT ![s] = @ \o delivered]
    /\ og_send_buffer_' = [og_send_buffer_ EXCEPT ![c] = << >>]
    /\ UNCHANGED <<run, asked, next_outgoing_seq_num_, pc, toRead, socketVars, server,
                   cid_next_outgoing_seq_num_, client_requests, client_responses, engineVars>>

(* The client's process dies and is started again: a gateway that counts   *)
(* from 1, on a connection of its own.  Of what the old one has sent, some *)
(* may never arrive.                                                       *)
Restart(c) ==
  /\ run[c] < MaxFaults /\ SumOf(run) + Cardinality(refused) < MaxFaults
  /\ run' = [run EXCEPT ![c] = @ + 1]
  /\ next_outgoing_seq_num_' = [next_outgoing_seq_num_ EXCEPT ![c] = 1]
  /\ next_incoming_seq_num_' = [next_incoming_seq_num_ EXCEPT ![c] = 1]
  /\ og_send_buffer_' = [og_send_buffer_ EXCEPT ![c] = << >>]
  /\ og_recv_buffer_' = [og_recv_buffer_ EXCEPT ![c] = << >>]
  /\ got' = [got EXCEPT ![c] = << >>]
  /\ \E k \in 0 .. Len(up[Socket(c)]) : up' = [up EXCEPT ![Socket(c)] = SubSeq(@, 1, k)]
  /\ down' = [down EXCEPT ![Socket(c)] = << >>]
  /\ UNCHANGED <<refused, asked, pc, toRead, socketVars, server, cid_next_outgoing_seq_num_,
                 client_requests, client_responses, engineVars>>

----------------------------------------------------------------------------
(* The order server, one thread.                                           *)

clientVars == <<gatewayVars, engineVars>>

(* TCPServer::poll accepts the new connections; then each socket is read.  *)
Poll ==
  /\ pc = "poll"
  /\ recv_sockets_' = {s \in Sockets : s[2] <= run[s[1]]}
  /\ toRead' = recv_sockets_'
  /\ pc' = "read"
  /\ UNCHANGED <<clientVars, streamVars, recv_buffer_, send_buffer_, server,
                 cid_next_outgoing_seq_num_, client_requests, client_responses>>

(* Mutant: the client's socket is not checked.                             *)
recvRequest_AnySocket(sv, r) ==
  LET m     == r.request_
      c     == m.client_id_
      bound == [sv EXCEPT !.cid_to_socket_[c] = r.socket]
  IN IF sv.cid_next_exp_seq_num_[c] # m.seq_num_ THEN bound
     ELSE [bound EXCEPT !.cid_next_exp_seq_num_[c] = @ + 1,
                        !.pending_client_requests_ =
                          Append(@, [recv_time_ |-> r.rx_time, request_ |-> m])]

(* Mutant: the expected number is not counted on.                          *)
recvRequest_NoCount(sv, r) ==
  LET m     == r.request_
      c     == m.client_id_
      first == sv.cid_to_socket_[c] = NULL
      bound == [sv EXCEPT !.cid_to_socket_[c] = r.socket]
  IN IF ~first /\ sv.cid_to_socket_[c] # r.socket THEN sv
     ELSE IF sv.cid_next_exp_seq_num_[c] # m.seq_num_ THEN bound
     ELSE [bound EXCEPT !.pending_client_requests_ =
                          Append(@, [recv_time_ |-> r.rx_time, request_ |-> m])]

(* One iteration of the loop of OrderServer::recvCallbacks: the client's   *)
(* first request fixes its socket for good; a request on another socket or *)
(* out of sequence is dropped; any other goes to the FIFO sequencer.       *)
recvRequest(sv, r) ==
  LET m     == r.request_
      c     == m.client_id_
      first == sv.cid_to_socket_[c] = NULL
      bound == [sv EXCEPT !.cid_to_socket_[c] = r.socket]
  IN IF ~first /\ sv.cid_to_socket_[c] # r.socket THEN sv
     ELSE IF sv.cid_next_exp_seq_num_[c] # m.seq_num_ THEN bound
     ELSE [bound EXCEPT !.cid_next_exp_seq_num_[c] = @ + 1,
                        !.pending_client_requests_ =
                          Append(@, [recv_time_ |-> r.rx_time, request_ |-> m])]

(* The whole requests of a read, each with its socket and the time.        *)
recvCallbacks(s, rx_time, messages) ==
  FoldLeft(recvRequest, server,
           [i \in 1 .. Len(messages) |->
              [socket |-> s, rx_time |-> rx_time, request_ |-> messages[i]]])

(* TCPSocket::sendAndRecv of one of the server's sockets.  All that a read *)
(* returns has the time of the read's last segment.  The 1025th pending    *)
(* request of a round ends the process.                                    *)
ReadSocket(s) ==
  /\ pc = "read"
  /\ s \in toRead
  /\ toRead' = toRead \ {s}
  /\ \E k \in ReadLengths(up[s]), rx_time \in RxTimes :
       LET buffer   == recv_buffer_[s] \o SubSeq(up[s], 1, k)
           messages == WholeMessages(buffer)
       IN
       /\ k = 0 => rx_time = CHOOSE t \in RxTimes : TRUE
       /\ up' = [up EXCEPT ![s] = SubSeq(@, k + 1, Len(@))]
       /\ recv_buffer_' = [recv_buffer_ EXCEPT ![s] = Remainder(buffer)]
       /\ IF NULL \in ToSet(messages)
          THEN pc' = "garbled" /\ UNCHANGED server
          ELSE /\ server' = recvCallbacks(s, rx_time, messages)
               /\ pc' = IF Len(server'.pending_client_requests_) > MAX_PENDING_REQUESTS
                        THEN "aborted" ELSE "read"
  /\ \E delivered \in {send_buffer_[s], << >>} :
       /\ Send(s, send_buffer_[s], delivered)
       /\ down' = [down EXCEPT ![s] = @ \o delivered]
  /\ send_buffer_' = [send_buffer_ EXCEPT ![s] = << >>]
  /\ UNCHANGED <<clientVars, recv_sockets_, cid_next_outgoing_seq_num_, client_requests,
                 client_responses>>

(* Mutant: equal times in any order, whatever the length.                  *)
Sorted_Unstable(pending) ==
  LET n == 1 .. Len(pending)
      time(i) == pending[i].recv_time_
  IN {f \in [n -> n] :
        /\ \A i, j \in n : i # j => f[i] # f[j]
        /\ \A i, j \in n : i < j => time(f[i]) <= time(f[j])}

(* The orders std::sort may leave `pending' in.                            *)
Sorted(pending) ==
  LET n == 1 .. Len(pending)
      time(i) == pending[i].recv_time_
  IN {f \in [n -> n] :
        /\ \A i, j \in n : i # j => f[i] # f[j]
        /\ \A i, j \in n : i < j => time(f[i]) <= time(f[j])
        /\ Len(pending) <= SortThreshold =>
             \A i, j \in n : i < j /\ time(f[i]) = time(f[j]) => f[i] < f[j]}

(* The sockets are read: FifoSequencer::sequenceAndPublish.                *)
SequenceAndPublish ==
  /\ pc = "read"
  /\ toRead = {}
  /\ LET pending == server.pending_client_requests_ IN
     \E f \in Sorted(pending) :
       client_requests' =
         client_requests \o [i \in 1 .. Len(pending) |-> pending[f[i]].request_]
  /\ server' = [server EXCEPT !.pending_client_requests_ = << >>]
  /\ pc' = "respond"
  /\ UNCHANGED <<clientVars, streamVars, toRead, socketVars, cid_next_outgoing_seq_num_,
                 client_responses>>

(* One iteration of the loop over outgoing_messages_: the response is      *)
(* numbered and put into the send buffer of its client's socket.           *)
SendResponse ==
  /\ pc = "respond"
  /\ client_responses # << >>
  /\ LET r == Head(client_responses)
         c == r.client_id_
         s == server.cid_to_socket_[c]
         m == [client_id_ |-> c, id |-> r.id, seq_num_ |-> cid_next_outgoing_seq_num_[c]]
     IN IF s = NULL
        THEN /\ pc' = "no socket"
             /\ UNCHANGED <<send_buffer_, cid_next_outgoing_seq_num_, client_responses>>
        ELSE /\ send_buffer_' = [send_buffer_ EXCEPT ![s] = @ \o Units(m)]
             /\ cid_next_outgoing_seq_num_' = [cid_next_outgoing_seq_num_ EXCEPT ![c] = @ + 1]
             /\ client_responses' = Tail(client_responses)
             /\ UNCHANGED pc
  /\ UNCHANGED <<clientVars, streamVars, toRead, recv_sockets_, recv_buffer_, server,
                 client_requests>>

NextRound ==
  /\ pc = "respond"
  /\ client_responses = << >>
  /\ pc' = "poll"
  /\ UNCHANGED <<clientVars, streamVars, toRead, socketVars, server,
                 cid_next_outgoing_seq_num_, client_requests, client_responses>>

OrderServer ==
  Poll \/ (\E s \in Sockets : ReadSocket(s)) \/ SequenceAndPublish \/ SendResponse \/ NextRound

----------------------------------------------------------------------------
(* The matching engine, as the order server sees it: it answers a request, *)
(* and possibly a client whose order, taken earlier, trades with it.       *)

Responses(c, n) == [i \in 1 .. n |-> [client_id_ |-> c, id |-> produced[c] + i]]

MatchingEngine ==
  /\ client_requests # << >>
  /\ LET c == Head(client_requests).client_id_ IN
     /\ taken' = Append(taken, Head(client_requests))
     /\ \/ /\ client_responses' = client_responses \o Responses(c, 1)
           /\ produced' = [produced EXCEPT ![c] = @ + 1]
        \/ \E d \in {taken[i].client_id_ : i \in 1 .. Len(taken)} \ {c} :
             /\ SumOf(produced) - Len(taken) < MaxFills
             /\ client_responses' = client_responses \o Responses(c, 1) \o Responses(d, 1)
             /\ produced' = [produced EXCEPT ![c] = @ + 1, ![d] = @ + 1]
  /\ client_requests' = Tail(client_requests)
  /\ UNCHANGED <<gatewayVars, streamVars, pc, toRead, socketVars, server,
                 cid_next_outgoing_seq_num_>>

----------------------------------------------------------------------------
Next ==
  \/ \E c \in Clients : SendRequest(c) \/ GatewaySendAndRecv(c) \/ Restart(c)
  \/ OrderServer
  \/ MatchingEngine

(* The gateways, the server and the engine go round their loops; nobody    *)
(* has to send a request or to crash.                                      *)
Spec ==
  /\ Init /\ [][Next]_vars
  /\ \A c \in Clients : WF_vars(GatewaySendAndRecv(c))
  /\ WF_vars(OrderServer)
  /\ WF_vars(MatchingEngine)

----------------------------------------------------------------------------
(* Properties.                                                             *)

SameClient(m, n) == m.client_id_ = n.client_id_

(* The engine gets the requests of a client in the order the client sent   *)
(* them, each once and without a gap, all from the same run of the client  *)
(* (recvCallbacks of the server, sequenceAndPublish).                      *)
ClientOrder ==
  \A i \in 1 .. Len(taken) :
    /\ \A j \in 1 .. i - 1 : SameClient(taken[j], taken[i]) =>
         taken[j].run = taken[i].run /\ taken[j].seq_num_ < taken[i].seq_num_
    /\ \A n \in 1 .. taken[i].seq_num_ - 1 :
         \E j \in 1 .. i - 1 : SameClient(taken[j], taken[i]) /\ taken[j].seq_num_ = n

(* What MEOrderBook takes for granted of its requests, since it does not   *)
(* look: no NEW has an order id that the client has used before, although  *)
(* a client that restarts begins with the same ids again, and a CANCEL     *)
(* names an order the engine has been given (RandomTrader::onTimer,        *)
(* recvCallbacks of the server).                                           *)
IdsAreFresh ==
  \A i \in 1 .. Len(taken) :
    LET r     == taken[i].request
        given == \E j \in 1 .. i - 1 : /\ SameClient(taken[j], taken[i])
                                       /\ taken[j].request.type_ = "NEW"
                                       /\ taken[j].request.order_id_ = r.order_id_
    IN r.type_ = "CANCEL" <=> given

(* The assertion of OrderServer::run never fires, and no read returns a    *)
(* request that is none: a client that the engine answers has a socket.    *)
ServerLives == pc \notin {"no socket", "garbled"}

(* What a trade engine gets are the engine's first responses to it, in     *)
(* order and without a gap, also when the gateway has garbled others.      *)
ResponsesInOrder == \A c \in Clients : \A i \in 1 .. Len(got[c]) : got[c][i] = i

(* A response that nothing holds any more has reached its trade engine:    *)
(* recvCallback of the gateway loses none.                                 *)
NoResponseLost ==
  \A c \in Clients :
    LET s == Socket(c) IN
    /\ run[c] = 0
    /\ down[s] = << >> /\ send_buffer_[s] = << >> /\ Len(og_recv_buffer_[c]) = 0
    /\ \A i \in 1 .. Len(client_responses) : client_responses[i].client_id_ # c
    => Len(got[c]) = produced[c]

TakenOf(c) == SelectSeq(taken, LAMBDA m : m.client_id_ = c)

(* The engine has taken all that the clients have sent that did not crash  *)
(* and whose sends were not refused.                                       *)
CaughtUp ==
  \A c \in Clients :
    run[c] = 0 /\ <<c, 0>> \notin refused => Len(TakenOf(c)) = next_outgoing_seq_num_[c] - 1

(* That is so again and again: no request stays behind for good in a       *)
(* gateway, a socket or the sequencer, unless the sequencer's assertion    *)
(* stops the exchange.                                                     *)
RequestsArrive == []<>(CaughtUp \/ pc = "aborted")

----------------------------------------------------------------------------
(* The invariants of order entry.                                          *)

(* What is on the connections: halves of requests on the way up, on the    *)
(* way down halves of responses, each numbered with its place among the    *)
(* responses to its client.                                                *)
RequestUnits  == [of : ClientRequests, half : {1, 2}]
ResponseUnits == [of : {m \in [client_id_ : Clients, id : Nat, seq_num_ : Nat] :
                          m.id = m.seq_num_},
                  half : {1, 2}]

(* A stream of requests of one socket, from the beginning of a message on. *)
Framed(w) ==
  \A i \in 1 .. Len(w) :
    /\ 2 * i - 1 <= Len(w) => w[2 * i - 1].half = 1
    /\ 2 * i <= Len(w) => w[2 * i].half = 2 /\ w[2 * i].of = w[2 * i - 1].of

RequestStream(w, s) ==
  /\ w \in Seq(RequestUnits)
  /\ Framed(w)
  /\ \A i \in 1 .. Len(w) : w[i].of.client_id_ = s[1] /\ w[i].of.run = s[2]

WholeStream(w, s) == RequestStream(w, s) /\ Len(w) % 2 = 0

(* On the way up, what the server holds of a socket and what is still in   *)
(* the connection make one stream, broken off at most where a client died. *)
UpInv ==
  /\ run \in [Clients -> Runs]
  /\ next_outgoing_seq_num_ \in [Clients -> Nat \ {0}]
  /\ og_send_buffer_ \in [Clients -> Seq(RequestUnits)]
  /\ up \in [Sockets -> Seq(RequestUnits)] /\ recv_buffer_ \in [Sockets -> Seq(RequestUnits)]
  /\ \A c \in Clients : WholeStream(og_send_buffer_[c], Socket(c))
  /\ \A s \in Sockets :
       /\ RequestStream(recv_buffer_[s] \o up[s], s)
       /\ s[2] >= run[s[1]] => WholeStream(recv_buffer_[s] \o up[s], s)
       /\ s[2] > run[s[1]] => recv_buffer_[s] \o up[s] = << >>

(* What recvCallbacks keeps; a request it has accepted is one of the run   *)
(* of the client that has the client's socket.                             *)
Servers ==
  [cid_to_socket_ : [Clients -> Sockets \cup {NULL}],
   cid_next_exp_seq_num_ : [Clients -> Nat \ {0}],
   pending_client_requests_ : Seq([recv_time_ : RxTimes, request_ : ClientRequests])]

Waiting(sv) == [i \in 1 .. Len(sv.pending_client_requests_) |->
                  sv.pending_client_requests_[i].request_]

AllAccepted(sv, requests) ==
  \A i \in 1 .. Len(requests) : LET m == requests[i] IN
    /\ sv.cid_to_socket_[m.client_id_] = <<m.client_id_, m.run>>
    /\ m.seq_num_ < sv.cid_next_exp_seq_num_[m.client_id_]

ServerInv ==
  /\ pc \in {"poll", "read", "respond", "aborted"}
  /\ toRead \in SUBSET Sockets
  /\ server \in Servers
  /\ taken \in Seq(ClientRequests) /\ client_requests \in Seq(ClientRequests)
  /\ AllAccepted(server, taken)
  /\ AllAccepted(server, client_requests)
  /\ AllAccepted(server, Waiting(server))

(* The responses that wait for the server are, of each client, those from  *)
(* its next number on, in order.                                           *)
AnswersInv ==
  /\ produced \in [Clients -> Nat] /\ cid_next_outgoing_seq_num_ \in [Clients -> Nat \ {0}]
  /\ client_responses \in Seq([client_id_ : Clients, id : Nat])
  /\ \A c \in Clients : cid_next_outgoing_seq_num_[c] <= produced[c] + 1
  /\ \A i \in 1 .. Len(client_responses) : LET r == client_responses[i] IN
       /\ server.cid_to_socket_[r.client_id_] # NULL
       /\ r.id \in cid_next_outgoing_seq_num_[r.client_id_] .. produced[r.client_id_]
       /\ \A j \in 1 .. i - 1 : SameClient(client_responses[j], r) => client_responses[j].id < r.id
  /\ \A c \in Clients : \A n \in cid_next_outgoing_seq_num_[c] .. produced[c] :
       \E i \in 1 .. Len(client_responses) :
         client_responses[i].client_id_ = c /\ client_responses[i].id = n

DownInv ==
  /\ send_buffer_ \in [Sockets -> Seq(ResponseUnits)] /\ down \in [Sockets -> Seq(ResponseUnits)]
  /\ og_recv_buffer_ \in [Clients -> Seq(ResponseUnits)]
  /\ next_incoming_seq_num_ \in [Clients -> Nat] /\ got \in [Clients -> Seq(Nat)]
  /\ \A c \in Clients : next_incoming_seq_num_[c] = Len(got[c]) + 1
  /\ ResponsesInOrder

(* The inductive invariant, whatever std::sort does with equal times.      *)
EntryInv == UpInv /\ ServerInv /\ AnswersInv /\ DownInv

(* A round brings no more requests than std::sort keeps in order.          *)
SortIsStable == pc = "read" => Len(server.pending_client_requests_) <= SortThreshold

(* Each client's requests rise in number; those of one sequence come       *)
(* before those of another.                                                *)
Rising(ms) ==
  \A i, j \in 1 .. Len(ms) : i < j /\ SameClient(ms[i], ms[j]) => ms[i].seq_num_ < ms[j].seq_num_

Before(ms, ns) ==
  \A i \in 1 .. Len(ms), j \in 1 .. Len(ns) :
    SameClient(ms[i], ns[j]) => ms[i].seq_num_ < ns[j].seq_num_

Has(ms, c, n) == \E i \in 1 .. Len(ms) : ms[i].client_id_ = c /\ ms[i].seq_num_ = n

(* What the sequencer holds comes last, and has nothing of a socket that   *)
(* is still to be read; a client's requests in it are all of one read.     *)
SequencerInv(sv, sockets) ==
  /\ Rising(Waiting(sv)) /\ Before(taken, Waiting(sv)) /\ Before(client_requests, Waiting(sv))
  /\ \A c \in Clients : \A n \in 1 .. sv.cid_next_exp_seq_num_[c] - 1 :
       Has(taken, c, n) \/ Has(client_requests, c, n) \/ Has(Waiting(sv), c, n)
  /\ LET pending == sv.pending_client_requests_ IN
     \A i \in 1 .. Len(pending) :
       /\ sv.cid_to_socket_[pending[i].request_.client_id_] \notin sockets
       /\ \A j \in 1 .. Len(pending) : SameClient(pending[i].request_, pending[j].request_) =>
            pending[i].recv_time_ = pending[j].recv_time_

(* The inductive invariant of the rounds in which std::sort is stable.     *)
OrderInv ==
  /\ Rising(client_requests) /\ Before(taken, client_requests) /\ ClientOrder
  /\ pc \in {"poll", "respond"} => server.pending_client_requests_ = << >>
  /\ SequencerInv(server, IF pc = "read" THEN toRead ELSE {})
============================================================================
