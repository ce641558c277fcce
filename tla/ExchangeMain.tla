---------------------------- MODULE ExchangeMain ----------------------------
(***************************************************************************)
(* The life of the exchange's program (src/exchange/exchange_main.cpp):    *)
(* main creates the components and their threads one after the other; at   *)
(* any moment SIGINT makes the main thread leave what it is doing for      *)
(* signal_handler, which deletes the components and exits.                 *)
(*                                                                         *)
(* What main does is a script, a sequence of operations <<name, on>> that  *)
(* the actions take from the front; the signal replaces what is left of    *)
(* it.  Of the data only the amounts in the queues and buffers are kept;   *)
(* a request gives a response and an update.                               *)
(*                                                                         *)
(* Start-up and shut-down are synchronised by sleeping.  The model takes   *)
(* from a sleep of a second or more that in it every thread that exists    *)
(* gets through SleepRounds rounds of its loop, or ends.                   *)
(*                                                                         *)
(* Every thread logs, and the threads log under way: Logger::pushVal waits *)
(* for ever when the logger's queue is exactly full (module SPSCQueue), so *)
(* each of them, and main itself, may at any time stall for good.          *)
(***************************************************************************)
EXTENDS Integers, Sequences

CONSTANTS
  MaxRequests,   \* bound: the requests that clients send
  SleepRounds    \* the rounds a thread gets through while main sleeps

ASSUME ExchangeMainAssumption == MaxRequests \in Nat /\ SleepRounds \in Nat

Threads == {"engine", "server", "publisher", "synthetizer"}
Objects == {"engine", "server", "publisher"}

(* The object whose member a thread's loop is.                             *)
ObjectOf(t) == IF t = "synthetizer" THEN "publisher" ELSE t

VARIABLES
  script,      \* what the main thread has still to do
  signalled,   \* has SIGINT come?
  alive,       \* the objects that exist
  run_,        \* thread -> the flag of its loop
  thread,      \* thread -> "none", "created", "running" or "ended"
  joinable,    \* the threads whose handle has been assigned to thread_
  frames,      \* the threads whose createAndStartThread has not returned
  at,          \* thread -> where in its loop it is
  rounds,      \* thread -> the rounds since main last fell asleep
  stalled,     \* the threads, main among them, that wait for a logger for ever
  asked,       \* how many requests the clients have sent
  client_requests, client_responses, market_updates, snapshot_updates,   \* queues
  send_buffers,      \* responses in the buffers of the server's sockets
  incremental_buffer \* updates in the buffer of incremental_socket_

mainVars == <<script, signalled, alive, run_, joinable, frames>>
loopVars == <<thread, at, rounds, stalled>>
dataVars == <<asked, client_requests, client_responses, market_updates, snapshot_updates,
              send_buffers, incremental_buffer>>
vars == <<mainVars, loopVars, dataVars>>

----------------------------------------------------------------------------
(* The scripts.                                                            *)

(* sleep_for: what the other threads do meanwhile is between its two ends. *)
Sleep == << <<"sleep", "main">>, <<"wake", "main">> >>

(* Mutant: createAndStartThread does not sleep.                            *)
Start_NoSleep(t) == << <<"run", t>>, <<"create", t>>, <<"return", t>> >>

(* start() of a component, with createAndStartThread.                      *)
Start(t) == << <<"run", t>>, <<"create", t>> >> \o Sleep \o << <<"return", t>> >>

Startup ==
  << <<"new", "engine">> >> \o Start("engine") \o
  << <<"new", "publisher">> >> \o Start("publisher") \o Start("synthetizer") \o
  << <<"new", "server">> >> \o Start("server")

(* Mutant: stop() joins before it clears the flag.                         *)
Stop_JoinFirst(t) == << <<"join", t>>, <<"clear", t>> >>

(* stop() of a component.                                                  *)
Stop(t) == << <<"clear", t>>, <<"join", t>> >>

(* Mutant: the destructors do not sleep.                                   *)
Destructor_NoSleep(o) ==
  Stop(o) \o (IF o = "publisher" THEN Stop("synthetizer") ELSE << >>) \o << <<"free", o>> >>

(* The destructor of a component.                                          *)
Destructor(o) ==
  Stop(o) \o (IF o = "publisher" THEN Stop("synthetizer") ELSE << >>)
    \o Sleep \o << <<"free", o>> >>

(* Mutant: the server goes before the engine.                              *)
SignalHandler_ServerFirst ==
  Sleep \o << <<"close", "logger">>, <<"delete", "server">>, <<"delete", "engine">>,
              <<"delete", "publisher">> >>
    \o Sleep \o << <<"exit", "main">> >>

(* signal_handler; close is the deletion of main's logger.                 *)
SignalHandler ==
  Sleep \o << <<"close", "logger">>, <<"delete", "engine">>, <<"delete", "server">>,
              <<"delete", "publisher">> >>
    \o Sleep \o << <<"exit", "main">> >>

Init ==
  /\ script = Startup
  /\ signalled = FALSE
  /\ alive = {}
  /\ run_ = [t \in Threads |-> FALSE]
  /\ thread = [t \in Threads |-> "none"]
  /\ joinable = {}
  /\ frames = {}
  /\ at = [t \in Threads |-> "test"]
  /\ rounds = [t \in Threads |-> 0]
  /\ stalled = {}
  /\ asked = 0
  /\ client_requests = 0 /\ client_responses = 0
  /\ market_updates = 0 /\ snapshot_updates = 0
  /\ send_buffers = 0 /\ incremental_buffer = 0

----------------------------------------------------------------------------
(* The main thread.                                                        *)

Exited == script = << <<"exit", "main">> >>

Does(name, on) == "main" \notin stalled /\ script # << >> /\ Head(script) = <<name, on>>

(* SIGINT, once; the program's frames below the handler stay as they are.  *)
(* It comes through to a main thread that stalls, too.                     *)
Signal ==
  /\ ~signalled
  /\ signalled' = TRUE
  /\ script' = SignalHandler
  /\ stalled' = stalled \ {"main"}
  /\ UNCHANGED <<alive, run_, joinable, frames, thread, at, rounds, dataVars>>

NewObject(o) ==
  /\ Does("new", o)
  /\ alive' = alive \cup {o}
  /\ script' = Tail(script)
  /\ UNCHANGED <<signalled, run_, joinable, frames, loopVars, dataVars>>

SetRun(t) ==
  /\ Does("run", t)
  /\ run_' = [run_ EXCEPT ![t] = TRUE]
  /\ script' = Tail(script)
  /\ UNCHANGED <<signalled, alive, joinable, frames, loopVars, dataVars>>

(* std::thread t(threadBody): the body's arguments are references to the   *)
(* frames of createAndStartThread and its caller.                          *)
CreateThread(t) ==
  /\ Does("create", t)
  /\ thread' = [thread EXCEPT ![t] = "created"]
  /\ frames' = frames \cup {t}
  /\ script' = Tail(script)
  /\ UNCHANGED <<signalled, alive, run_, joinable, at, rounds, stalled, dataVars>>

(* createAndStartThread returns and its value is assigned to thread_.      *)
Return(t) ==
  /\ Does("return", t)
  /\ joinable' = joinable \cup {t}
  /\ frames' = frames \ {t}
  /\ script' = Tail(script)
  /\ UNCHANGED <<signalled, alive, run_, loopVars, dataVars>>

FallAsleep ==
  /\ Does("sleep", "main")
  /\ rounds' = [t \in Threads |-> 0]
  /\ script' = Tail(script)
  /\ UNCHANGED <<signalled, alive, run_, joinable, frames, thread, at, stalled, dataVars>>

WakeUp ==
  /\ Does("wake", "main")
  /\ \A t \in Threads :
       /\ thread[t] # "created"
       /\ thread[t] = "running" /\ t \notin stalled => rounds[t] >= SleepRounds
  /\ script' = Tail(script)
  /\ UNCHANGED <<signalled, alive, run_, joinable, frames, loopVars, dataVars>>

(* delete of a pointer, which is null when there is no object.             *)
Delete(o) ==
  /\ Does("delete", o)
  /\ script' = (IF o \in alive THEN Destructor(o) ELSE << >>) \o Tail(script)
  /\ UNCHANGED <<signalled, alive, run_, joinable, frames, loopVars, dataVars>>

ClearRun(t) ==
  /\ Does("clear", t)
  /\ run_' = [run_ EXCEPT ![t] = FALSE]
  /\ script' = Tail(script)
  /\ UNCHANGED <<signalled, alive, joinable, frames, loopVars, dataVars>>

(* Mutant: detach() for join().                                            *)
Join_Detach(t) ==
  /\ Does("join", t)
  /\ joinable' = joinable \ {t}
  /\ script' = Tail(script)
  /\ UNCHANGED <<signalled, alive, run_, frames, loopVars, dataVars>>

(* if(thread_.joinable()) thread_.join()                                   *)
Join(t) ==
  /\ Does("join", t)
  /\ t \in joinable => thread[t] = "ended"
  /\ joinable' = joinable \ {t}
  /\ script' = Tail(script)
  /\ UNCHANGED <<signalled, alive, run_, frames, loopVars, dataVars>>

(* What is left of the destructor: the members, and with them its logger,  *)
(* are destroyed.                                                          *)
Free(o) ==
  /\ Does("free", o)
  /\ alive' = alive \ {o}
  /\ script' = Tail(script)
  /\ UNCHANGED <<signalled, run_, joinable, frames, loopVars, dataVars>>

(* delete logger: ~Logger waits for the queue to be empty and joins the    *)
(* logger's thread (CloseLogger of module SPSCQueue), and returns or       *)
(* stalls.                                                                 *)
CloseLogger ==
  /\ Does("close", "logger")
  /\ script' = Tail(script)
  /\ UNCHANGED <<signalled, alive, run_, joinable, frames, loopVars, dataVars>>

MainThread ==
  \/ \E o \in Objects : NewObject(o) \/ Delete(o) \/ Free(o)
  \/ CloseLogger
  \/ \E t \in Threads : SetRun(t) \/ CreateThread(t) \/ Return(t) \/ ClearRun(t) \/ Join(t)
  \/ FallAsleep
  \/ WakeUp

----------------------------------------------------------------------------
(* The components' threads.  Each begins a round by looking at its flag.   *)

Enter(t) ==
  /\ ~Exited
  /\ thread[t] = "created"
  /\ thread' = [thread EXCEPT ![t] = "running"]
  /\ UNCHANGED <<mainVars, at, rounds, stalled, dataVars>>

End(t) ==
  /\ ~Exited
  /\ thread[t] = "running" /\ t \notin stalled /\ at[t] = "test" /\ ~run_[t]
  /\ thread' = [thread EXCEPT ![t] = "ended"]
  /\ UNCHANGED <<mainVars, at, rounds, stalled, dataVars>>

Begins(t) ==
  ~Exited /\ thread[t] = "running" /\ t \notin stalled /\ at[t] = "test" /\ run_[t]

Round(t) ==
  rounds' = [rounds EXCEPT ![t] = IF @ < SleepRounds THEN @ + 1 ELSE @]

(* MatchingEngine::run.                                                    *)
EngineRound ==
  /\ Begins("engine")
  /\ LET n == IF client_requests > 0 THEN 1 ELSE 0 IN
     /\ client_requests' = client_requests - n
     /\ client_responses' = client_responses + n
     /\ market_updates' = market_updates + n
  /\ Round("engine")
  /\ UNCHANGED <<mainVars, thread, at, stalled, asked, snapshot_updates, send_buffers,
                 incremental_buffer>>

(* OrderServer::run: sendAndRecv, and with it the sequencer, ...           *)
ServerSendAndRecv ==
  /\ Begins("server")
  /\ at' = [at EXCEPT !["server"] = "respond"]
  /\ send_buffers' = 0
  /\ \E n \in 0 .. MaxRequests - asked :
       asked' = asked + n /\ client_requests' = client_requests + n
  /\ UNCHANGED <<mainVars, thread, rounds, stalled, client_responses, market_updates,
                 snapshot_updates, incremental_buffer>>

(* ... and the loop over the responses, to be sent in the next round.      *)
ServerRespond ==
  /\ ~Exited
  /\ at["server"] = "respond" /\ "server" \notin stalled
  /\ at' = [at EXCEPT !["server"] = "test"]
  /\ send_buffers' = send_buffers + client_responses
  /\ client_responses' = 0
  /\ Round("server")
  /\ UNCHANGED <<mainVars, thread, stalled, asked, client_requests, market_updates,
                 snapshot_updates, incremental_buffer>>

(* MarketDataPublisher::run: the loop over the updates, ...                *)
PublisherNumber ==
  /\ Begins("publisher")
  /\ at' = [at EXCEPT !["publisher"] = "flush"]
  /\ incremental_buffer' = incremental_buffer + market_updates
  /\ snapshot_updates' = snapshot_updates + market_updates
  /\ market_updates' = 0
  /\ UNCHANGED <<mainVars, thread, rounds, stalled, asked, client_requests, client_responses,
                 send_buffers>>

(* ... and sendAndRecv of the incremental socket.                          *)
PublisherFlush ==
  /\ ~Exited
  /\ at["publisher"] = "flush" /\ "publisher" \notin stalled
  /\ at' = [at EXCEPT !["publisher"] = "test"]
  /\ incremental_buffer' = 0
  /\ Round("publisher")
  /\ UNCHANGED <<mainVars, thread, stalled, asked, client_requests, client_responses, market_updates,
                 snapshot_updates, send_buffers>>

(* SnapshotSynthetizer::run.                                               *)
SynthetizerRound ==
  /\ Begins("synthetizer")
  /\ snapshot_updates' = 0
  /\ Round("synthetizer")
  /\ UNCHANGED <<mainVars, thread, at, stalled, asked, client_requests, client_responses,
                 market_updates, send_buffers, incremental_buffer>>

(* Logger::pushVal, or ~Logger, begins to wait for ever: in a component's  *)
(* thread anywhere in its loop, in main where it logs or closes a logger.  *)
Stall(t) ==
  /\ ~Exited
  /\ thread[t] = "running"
  /\ stalled' = stalled \cup {t}
  /\ UNCHANGED <<mainVars, thread, at, rounds, dataVars>>

StallMain ==
  /\ \/ Does("close", "logger")
     \/ \E o \in Objects : Does("new", o) \/ Does("run", o) \/ Does("free", o)
  /\ stalled' = stalled \cup {"main"}
  /\ UNCHANGED <<mainVars, thread, at, rounds, dataVars>>

Starts(t) == Enter(t) \/ End(t)

Server    == Starts("server") \/ ServerSendAndRecv \/ ServerRespond
Publisher == Starts("publisher") \/ PublisherNumber \/ PublisherFlush

Next ==
  \/ MainThread
  \/ Signal
  \/ Starts("engine") \/ EngineRound
  \/ Server
  \/ Publisher
  \/ Starts("synthetizer") \/ SynthetizerRound
  \/ \E t \in Threads : Stall(t)
  \/ StallMain

(* The operating system runs every thread; nobody has to send SIGINT.      *)
Spec ==
  /\ Init /\ [][Next]_vars
  /\ WF_vars(MainThread)
  /\ WF_vars(Starts("engine") \/ EngineRound)
  /\ WF_vars(Server)
  /\ WF_vars(Publisher)
  /\ WF_vars(Starts("synthetizer") \/ SynthetizerRound)

----------------------------------------------------------------------------
(* Properties.                                                             *)

(* No thread runs on in an object that is gone, although one created in    *)
(* the moment of the signal is never joined (~MatchingEngine and the       *)
(* other destructors); only one that stalls may be left behind.            *)
ObjectsOutliveThreads ==
  \A t \in Threads :
    thread[t] \in {"created", "running"} /\ t \notin stalled => ObjectOf(t) \in alive

(* A thread that has not entered its function has its arguments, which are *)
(* references to frames of the thread that creates it                      *)
(* (createAndStartThread).                                                 *)
ArgumentsOutliveStart == \A t \in Threads : thread[t] = "created" => t \in frames

(* Whenever the signal comes, the responses and the updates of every       *)
(* request that the engine has processed are out when the program exits,   *)
(* unless a thread stalls (signal_handler, whose order of deletion and     *)
(* sleeps this depends on).                                                *)
NothingProcessedIsLost ==
  Exited /\ stalled = {} =>
    client_responses = 0 /\ send_buffers = 0 /\ market_updates = 0 /\ incremental_buffer = 0

(* After SIGINT the program exits unless a thread, or main, waits for a    *)
(* logger whose queue is exactly full: the joins of stop and the sleeps    *)
(* wait for nothing else for ever.                                         *)
Exits == signalled ~> Exited \/ stalled # {}

----------------------------------------------------------------------------
(* The inductive invariant: what is so at each point of main's script.     *)

From(ops, k) == SubSeq(ops, k, Len(ops))

(* The places in Startup where an object, and a thread, comes into being.  *)
NewAt    == [engine |-> 1, publisher |-> 7, server |-> 18]
CreateAt == [engine |-> 3, publisher |-> 9, synthetizer |-> 14, server |-> 20]

(* The handler's operations counted through from 0, those of the           *)
(* destructors behind the delete that calls them; what is left of the      *)
(* script at the h-th; the places of the destructors' operations.          *)
Handling(h) ==
  CASE h \in 0 .. 3   -> From(SignalHandler, h + 1)
    [] h \in 4 .. 8   -> From(Destructor("engine"), h - 3) \o From(SignalHandler, 5)
    [] h = 9          -> From(SignalHandler, 5)
    [] h \in 10 .. 14 -> From(Destructor("server"), h - 9) \o From(SignalHandler, 6)
    [] h = 15         -> From(SignalHandler, 6)
    [] h \in 16 .. 22 -> From(Destructor("publisher"), h - 15) \o From(SignalHandler, 7)
    [] h \in 23 .. 25 -> From(SignalHandler, h - 16)

ClearAt == [engine |-> 4, server |-> 10, publisher |-> 16, synthetizer |-> 18]
JoinAt  == [engine |-> 5, server |-> 11, publisher |-> 17, synthetizer |-> 19]
WakeAt  == [engine |-> 7, server |-> 13, publisher |-> 21]
FreeAt  == [engine |-> 8, server |-> 14, publisher |-> 22]

MainTypeOK ==
  /\ signalled \in BOOLEAN
  /\ alive \subseteq Objects
  /\ run_ \in [Threads -> BOOLEAN]
  /\ thread \in [Threads -> {"none", "created", "running", "ended"}]
  /\ joinable \subseteq Threads /\ frames \subseteq Threads
  /\ at \in [Threads -> {"test", "respond", "flush"}]
  /\ rounds \in [Threads -> 0 .. SleepRounds]
  /\ stalled \subseteq Threads \cup {"main"}
  /\ asked \in Nat /\ client_requests \in Nat /\ client_responses \in Nat
  /\ market_updates \in Nat /\ snapshot_updates \in Nat
  /\ send_buffers \in Nat /\ incremental_buffer \in Nat

Drained ==
  client_responses = 0 /\ send_buffers = 0 /\ market_updates = 0 /\ incremental_buffer = 0

ThreadInv(t) ==
  /\ thread[t] = "created" => t \in frames
  /\ thread[t] = "none" => t \notin joinable \cup frames
  /\ thread[t] = "ended" => ~run_[t]
  /\ at[t] = "respond" => t = "server"
  /\ at[t] = "flush" => t = "publisher"
  /\ at[t] # "test" => thread[t] = "running"
  /\ t \in stalled => thread[t] = "running"

(* Threads come into being one at a time, the server's last; nothing comes *)
(* in before.                                                              *)
ThreadsInv ==
  /\ \A t \in Threads : ThreadInv(t)
  /\ \A t, u \in frames : t = u
  /\ frames \cap joinable = {}
  /\ IF thread["server"] = "none"
     THEN Drained /\ client_requests = 0
     ELSE frames \subseteq {"server"} /\ \A t \in Threads : thread[t] # "none"

(* Before the signal.                                                      *)
StartedAt(k, t) ==
  /\ run_[t] <=> CreateAt[t] <= k
  /\ thread[t] = "none" <=> k <= CreateAt[t]
  /\ thread[t] = "created" => k <= CreateAt[t] + 2
  /\ t \in frames <=> k \in CreateAt[t] + 1 .. CreateAt[t] + 3
  /\ t \in joinable <=> CreateAt[t] + 3 < k

StartingAt(k) ==
  /\ script = From(Startup, k)
  /\ \A o \in Objects : o \in alive <=> NewAt[o] < k
  /\ \A t \in Threads : StartedAt(k, t)

(* After it: the thread in whose creation it fell, if any, is never joined *)
(* and ends while its object's destructor sleeps, unless it stalls.        *)
ThreadAt(h, t) ==
  /\ h > 1 => thread[t] # "created"
  /\ IF h <= ClearAt[t] THEN thread[t] # "none" => run_[t] ELSE ~run_[t]
  /\ thread[t] # "none" /\ t \notin frames =>
       IF h <= JoinAt[t] THEN t \in joinable ELSE thread[t] = "ended"
  /\ h > JoinAt[t] => t \notin joinable
  /\ h = WakeAt[ObjectOf(t)] /\ thread[t] = "running" =>
       rounds[t] = 0 \/ (rounds[t] = 1 /\ at[t] = "test")
  /\ h > WakeAt[ObjectOf(t)] /\ t \notin stalled => thread[t] \in {"none", "ended"}
  /\ h <= FreeAt[ObjectOf(t)] /\ (run_[t] \/ thread[t] # "none") => ObjectOf(t) \in alive

(* The engine has ended; two rounds of the others, if they do not stall,   *)
(* take out what it left.                                                  *)
DrainAt(h) ==
  /\ h > WakeAt["engine"] /\ stalled = {} => Drained
  /\ h = WakeAt["engine"] /\ thread["server"] # "none" =>
       /\ rounds["server"] >= 1 => client_responses = 0
       /\ rounds["server"] >= 1 /\ at["server"] = "respond" => send_buffers = 0
       /\ rounds["server"] >= 2 => send_buffers = 0
       /\ rounds["publisher"] >= 1 /\ at["publisher"] = "flush" => market_updates = 0
       /\ rounds["publisher"] >= 1 /\ at["publisher"] = "test" => incremental_buffer = 0
       /\ rounds["publisher"] >= 2 => market_updates = 0 /\ incremental_buffer = 0

HandlingAt(h) ==
  /\ script = Handling(h)
  /\ \A t \in Threads : ThreadAt(h, t)
  /\ DrainAt(h)

(* At each point of start-up and shut-down which objects and threads there *)
(* are, and what the sleeps are good for: a thread whose flag is cleared   *)
(* has ended, and what the engine has processed is out (createAndStart-    *)
(* Thread, signal_handler, the destructors).                               *)
MainInv ==
  /\ MainTypeOK
  /\ ThreadsInv
  /\ IF signalled THEN \E h \in 0 .. 25 : HandlingAt(h) ELSE \E k \in 1 .. 24 : StartingAt(k)
============================================================================
