------------------------- MODULE ExchangeMainProofs -------------------------
(***************************************************************************)
(* The invariant of the exchange's start and end is inductive, for every   *)
(* number of requests and whatever the threads do between two operations   *)
(* of the main thread, as long as a sleep leaves time for two rounds of a  *)
(* loop: one round does not do.                                            *)
(***************************************************************************)
EXTENDS ExchangeMain, SequenceTheorems, TLAPS

----------------------------------------------------------------------------
(* Walking through a script.                                               *)

OpNames == {"new", "run", "create", "return", "sleep", "wake", "delete", "clear", "join",
            "free", "close", "exit"}

Ops == OpNames \X (Threads \cup {"main", "logger"})

(* What is left of a script from its k-th operation begins with that one.  *)
LEMMA FromStep ==
  ASSUME NEW S, NEW s \in Seq(S), NEW k \in 1 .. Len(s)
  PROVE  /\ From(s, k) \in Seq(S) /\ From(s, k) # << >>
         /\ Head(From(s, k)) = s[k] /\ Tail(From(s, k)) = From(s, k + 1)
<1>1. \A i \in k .. Len(s) : s[i] \in S
  OBVIOUS
<1>2. From(s, k) \in Seq(S) /\ Len(From(s, k)) = Len(s) - k + 1
  BY <1>1, SubSeqProperties DEF From
<1>3. From(s, k)[1] = s[k]
  BY <1>1, SubSeqProperties DEF From
<1>4. Tail(From(s, k)) = From(s, k + 1)
  BY DEF From
<1>. QED
  BY <1>2, <1>3, <1>4

LEMMA FromEnds ==
  ASSUME NEW S, NEW s \in Seq(S)
  PROVE  From(s, 1) = s /\ From(s, Len(s) + 1) = << >> /\ << >> \o s = s
BY DEF From

LEMMA ConcatStep ==
  ASSUME NEW S, NEW s \in Seq(S), NEW t \in Seq(S), s # << >>
  PROVE  s \o t # << >> /\ Head(s \o t) = Head(s) /\ Tail(s \o t) = Tail(s) \o t
OBVIOUS

(* The pieces of the scripts.                                              *)
LEMMA OpsOf ==
  /\ \A name \in OpNames, on \in Threads \cup {"main", "logger"} : <<name, on>> \in Ops
  /\ "main" \in Threads \cup {"main"} /\ Objects \subseteq Threads
  /\ \A t \in Threads : ObjectOf(t) \in Objects
BY DEF Ops, Objects, Threads, ObjectOf

LEMMA OneOp ==
  ASSUME NEW S, NEW a \in S
  PROVE  <<a>> \in Seq(S)
OBVIOUS

LEMMA TwoOps ==
  ASSUME NEW S, NEW a \in S, NEW b \in S
  PROVE  <<a, b>> \in Seq(S)
OBVIOUS

LEMMA SleepOps == Sleep \in Seq(Ops)
<1>1. <<"sleep", "main">> \in Ops /\ <<"wake", "main">> \in Ops
  BY OpsOf DEF OpNames
<1>. QED
  BY <1>1, TwoOps DEF Sleep

LEMMA StartOps ==
  ASSUME NEW t \in Threads
  PROVE  Start(t) \in Seq(Ops)
<1>1. <<"run", t>> \in Ops /\ <<"create", t>> \in Ops /\ <<"return", t>> \in Ops
  BY OpsOf DEF OpNames
<1>2. << <<"run", t>>, <<"create", t>> >> \in Seq(Ops) /\ << <<"return", t>> >> \in Seq(Ops)
  BY <1>1, OneOp, TwoOps
<1>. QED
  BY <1>2, SleepOps DEF Start

LEMMA StopOps ==
  ASSUME NEW t \in Threads
  PROVE  Stop(t) \in Seq(Ops)
<1>1. <<"clear", t>> \in Ops /\ <<"join", t>> \in Ops
  BY OpsOf DEF OpNames
<1>. QED
  BY <1>1, TwoOps DEF Stop

(* main, operation by operation.                                           *)
LEMMA StartupIsOps == Startup \in Seq(Ops)
<1>1. /\ Start("engine") \in Seq(Ops) /\ Start("publisher") \in Seq(Ops)
      /\ Start("synthetizer") \in Seq(Ops) /\ Start("server") \in Seq(Ops)
  BY StartOps DEF Threads
<1>2. <<"new", "engine">> \in Ops /\ <<"new", "publisher">> \in Ops /\ <<"new", "server">> \in Ops
  BY OpsOf DEF OpNames, Threads
<1>3. /\ << <<"new", "engine">> >> \in Seq(Ops) /\ << <<"new", "publisher">> >> \in Seq(Ops)
      /\ << <<"new", "server">> >> \in Seq(Ops)
  BY <1>2, OneOp
<1>. QED
  BY <1>1, <1>3 DEF Startup

LEMMA StartupLen == Len(Startup) = 23
BY DEF Startup, Start, Sleep

LEMMA StartupEngine ==
  /\ Startup[1] = <<"new", "engine">> /\ Startup[2] = <<"run", "engine">>
  /\ Startup[3] = <<"create", "engine">> /\ Startup[4] = <<"sleep", "main">>
  /\ Startup[5] = <<"wake", "main">> /\ Startup[6] = <<"return", "engine">>
BY DEF Startup, Start, Sleep

LEMMA StartupPublisher ==
  /\ Startup[7] = <<"new", "publisher">> /\ Startup[8] = <<"run", "publisher">>
  /\ Startup[9] = <<"create", "publisher">> /\ Startup[10] = <<"sleep", "main">>
  /\ Startup[11] = <<"wake", "main">> /\ Startup[12] = <<"return", "publisher">>
BY DEF Startup, Start, Sleep

LEMMA StartupSynthetizer ==
  /\ Startup[13] = <<"run", "synthetizer">> /\ Startup[14] = <<"create", "synthetizer">>
  /\ Startup[15] = <<"sleep", "main">> /\ Startup[16] = <<"wake", "main">>
  /\ Startup[17] = <<"return", "synthetizer">>
BY DEF Startup, Start, Sleep

LEMMA StartupServer ==
  /\ Startup[18] = <<"new", "server">> /\ Startup[19] = <<"run", "server">>
  /\ Startup[20] = <<"create", "server">> /\ Startup[21] = <<"sleep", "main">>
  /\ Startup[22] = <<"wake", "main">> /\ Startup[23] = <<"return", "server">>
BY DEF Startup, Start, Sleep

(* Where in main an operation can stand.                                   *)
StartingPlace(k, name, on) ==
  /\ name = "new" /\ on \in Objects => k = NewAt[on]
  /\ name = "run" /\ on \in Threads => k = CreateAt[on] - 1
  /\ name = "create" /\ on \in Threads => k = CreateAt[on]
  /\ name = "return" /\ on \in Threads => k = CreateAt[on] + 3
  /\ name = "sleep" => \E t \in Threads : k = CreateAt[t] + 1
  /\ name = "wake" => \E t \in Threads : k = CreateAt[t] + 2
  /\ name \notin {"delete", "clear", "join", "free", "close", "exit"}

LEMMA StartingDoes ==
  ASSUME NEW k \in 1 .. 24, script = From(Startup, k),
         NEW name, NEW on, Does(name, on)
  PROVE  /\ k < 24 /\ Tail(script) = From(Startup, k + 1)
         /\ StartingPlace(k, name, on)
<1>1. k \in 1 .. 23
  <2>. SUFFICES ASSUME k = 24 PROVE FALSE
    OBVIOUS
  <2>1. From(Startup, Len(Startup) + 1) = << >>
    BY FromEnds, StartupIsOps
  <2>2. Len(Startup) + 1 = 24
    BY StartupLen
  <2>. QED
    BY <2>1, <2>2 DEF Does
<1>2. Startup[k] = <<name, on>> /\ Tail(script) = From(Startup, k + 1)
  <2>1. k \in 1 .. Len(Startup)
    BY <1>1, StartupLen
  <2>2. Head(From(Startup, k)) = Startup[k] /\ Tail(From(Startup, k)) = From(Startup, k + 1)
    BY <2>1, FromStep, StartupIsOps
  <2>. QED
    BY <2>2 DEF Does
<1>3. CASE k \in 1 .. 6
  BY <1>2, <1>3, StartupEngine DEF StartingPlace, NewAt, CreateAt, Threads, Objects
<1>4. CASE k \in 7 .. 12
  BY <1>2, <1>4, StartupPublisher DEF StartingPlace, NewAt, CreateAt, Threads, Objects
<1>5. CASE k \in 13 .. 17
  BY <1>2, <1>5, StartupSynthetizer DEF StartingPlace, NewAt, CreateAt, Threads, Objects
<1>6. CASE k \in 18 .. 23
  BY <1>2, <1>6, StartupServer DEF StartingPlace, NewAt, CreateAt, Threads, Objects
<1>. QED
  BY SMTT(30), <1>1, <1>2, <1>3, <1>4, <1>5, <1>6

(* signal_handler and the destructors, operation by operation.             *)
LEMMA HandlerIsOps ==
  /\ SignalHandler \in Seq(Ops) /\ Len(SignalHandler) = 9
  /\ \A o \in Objects : Destructor(o) \in Seq(Ops)
<1>1. \A n \in OpNames, o \in Threads \cup {"main", "logger"} : << <<n, o>> >> \in Seq(Ops)
  BY OpsOf, OneOp
<1>2. << <<"close", "logger">>, <<"delete", "engine">>, <<"delete", "server">>,
         <<"delete", "publisher">> >> \in Seq(Ops)
  <2>1. /\ <<"close", "logger">> \in Ops /\ <<"delete", "engine">> \in Ops
        /\ <<"delete", "server">> \in Ops /\ <<"delete", "publisher">> \in Ops
    BY OpsOf DEF OpNames, Threads
  <2>2. ASSUME NEW S, NEW a \in S, NEW b \in S, NEW c \in S, NEW d \in S
        PROVE  <<a, b, c, d>> \in Seq(S)
    OBVIOUS
  <2>. QED
    BY <2>1, <2>2
<1>3. << <<"exit", "main">> >> \in Seq(Ops)
  BY <1>1 DEF OpNames
<1>4. SignalHandler \in Seq(Ops)
  BY <1>2, <1>3, SleepOps DEF SignalHandler
<1>5. Len(SignalHandler) = 9
  BY DEF SignalHandler, Sleep
<1>6. ASSUME NEW o \in Objects PROVE Destructor(o) \in Seq(Ops)
  <2>1. << <<"free", o>> >> \in Seq(Ops)
    BY <1>1 DEF OpNames, Objects, Threads
  <2>2. Stop(o) \in Seq(Ops) /\ Stop("synthetizer") \in Seq(Ops) /\ << >> \in Seq(Ops)
    BY StopOps DEF Objects, Threads
  <2>. QED
    BY <2>1, <2>2, SleepOps DEF Destructor
<1>. QED
  BY <1>4, <1>5, <1>6

LEMMA HandlerOps ==
  /\ SignalHandler[1] = <<"sleep", "main">> /\ SignalHandler[2] = <<"wake", "main">>
  /\ SignalHandler[3] = <<"close", "logger">> /\ SignalHandler[4] = <<"delete", "engine">>
  /\ SignalHandler[5] = <<"delete", "server">> /\ SignalHandler[6] = <<"delete", "publisher">>
  /\ SignalHandler[7] = <<"sleep", "main">> /\ SignalHandler[8] = <<"wake", "main">>
  /\ SignalHandler[9] = <<"exit", "main">>
BY DEF SignalHandler, Sleep

LEMMA DestructorOps ==
  ASSUME NEW o \in {"engine", "server"}
  PROVE  /\ Len(Destructor(o)) = 5
         /\ Destructor(o)[1] = <<"clear", o>> /\ Destructor(o)[2] = <<"join", o>>
         /\ Destructor(o)[3] = <<"sleep", "main">> /\ Destructor(o)[4] = <<"wake", "main">>
         /\ Destructor(o)[5] = <<"free", o>>
<1>1. Destructor(o) = Stop(o) \o << >> \o Sleep \o << <<"free", o>> >>
  BY DEF Destructor
<1>. QED
  BY <1>1 DEF Stop, Sleep

LEMMA PublisherOps ==
  LET d == Destructor("publisher") IN
  /\ Len(d) = 7 /\ d[1] = <<"clear", "publisher">> /\ d[2] = <<"join", "publisher">>
  /\ d[3] = <<"clear", "synthetizer">> /\ d[4] = <<"join", "synthetizer">>
  /\ d[5] = <<"sleep", "main">> /\ d[6] = <<"wake", "main">> /\ d[7] = <<"free", "publisher">>
<1>1. Destructor("publisher") = Stop("publisher") \o Stop("synthetizer") \o Sleep
                                  \o << <<"free", "publisher">> >>
  BY DEF Destructor
<1>. QED
  BY <1>1 DEF Stop, Sleep

(* From the start of a script, to its end and on with another.             *)
LEMMA Through ==
  ASSUME NEW S, NEW s \in Seq(S), NEW t \in Seq(S), NEW k \in 1 .. Len(s)
  PROVE  LET r == From(s, k) \o t IN
         /\ r # << >> /\ Head(r) = s[k] /\ Tail(r) = From(s, k + 1) \o t
<1>1. From(s, k) \in Seq(S) /\ From(s, k) # << >>
  BY FromStep
<1>2. /\ From(s, k) \o t # << >> /\ Head(From(s, k) \o t) = Head(From(s, k))
      /\ Tail(From(s, k) \o t) = Tail(From(s, k)) \o t
  BY <1>1, ConcatStep
<1>. QED
  BY <1>2, FromStep

(* The handler's operations, those of the destructors among them, counted  *)
(* from 0.                                                                 *)
ShutdownOps ==
  << <<"sleep", "main">>, <<"wake", "main">>, <<"close", "logger">>,
     <<"delete", "engine">>, <<"clear", "engine">>, <<"join", "engine">>,
     <<"sleep", "main">>, <<"wake", "main">>, <<"free", "engine">>,
     <<"delete", "server">>, <<"clear", "server">>, <<"join", "server">>,
     <<"sleep", "main">>, <<"wake", "main">>, <<"free", "server">>,
     <<"delete", "publisher">>, <<"clear", "publisher">>, <<"join", "publisher">>,
     <<"clear", "synthetizer">>, <<"join", "synthetizer">>,
     <<"sleep", "main">>, <<"wake", "main">>, <<"free", "publisher">>,
     <<"sleep", "main">>, <<"wake", "main">>, <<"exit", "main">> >>

ShutdownOp(h) == ShutdownOps[h + 1]

LEMMA ShutdownOpsAre ==
  /\ ShutdownOp(0) = <<"sleep", "main">> /\ ShutdownOp(1) = <<"wake", "main">>
  /\ ShutdownOp(2) = <<"close", "logger">>
  /\ ShutdownOp(3) = <<"delete", "engine">> /\ ShutdownOp(4) = <<"clear", "engine">>
  /\ ShutdownOp(5) = <<"join", "engine">> /\ ShutdownOp(6) = <<"sleep", "main">>
  /\ ShutdownOp(7) = <<"wake", "main">> /\ ShutdownOp(8) = <<"free", "engine">>
  /\ ShutdownOp(9) = <<"delete", "server">> /\ ShutdownOp(10) = <<"clear", "server">>
  /\ ShutdownOp(11) = <<"join", "server">> /\ ShutdownOp(12) = <<"sleep", "main">>
  /\ ShutdownOp(13) = <<"wake", "main">> /\ ShutdownOp(14) = <<"free", "server">>
  /\ ShutdownOp(15) = <<"delete", "publisher">> /\ ShutdownOp(16) = <<"clear", "publisher">>
  /\ ShutdownOp(17) = <<"join", "publisher">> /\ ShutdownOp(18) = <<"clear", "synthetizer">>
  /\ ShutdownOp(19) = <<"join", "synthetizer">> /\ ShutdownOp(20) = <<"sleep", "main">>
  /\ ShutdownOp(21) = <<"wake", "main">> /\ ShutdownOp(22) = <<"free", "publisher">>
  /\ ShutdownOp(23) = <<"sleep", "main">> /\ ShutdownOp(24) = <<"wake", "main">>
  /\ ShutdownOp(25) = <<"exit", "main">>
BY DEF ShutdownOp, ShutdownOps

(* Where the handler goes on when there is nothing to delete.              *)
Past(h) == IF h = 3 THEN 9 ELSE IF h = 9 THEN 15 ELSE IF h = 15 THEN 23 ELSE h + 1

(* A script, its first operation and what comes after it.                  *)
Continues(r, op, rest) == r # << >> /\ Head(r) = op /\ Tail(r) = rest /\ r \in Seq(Ops)

Handler(k) == From(SignalHandler, k)

Destroying(o, k, n) == From(Destructor(o), k) \o From(SignalHandler, n)

LEMMA HandlerStep ==
  ASSUME NEW k \in 1 .. 9
  PROVE  Continues(Handler(k), SignalHandler[k], Handler(k + 1))
<1>1. k \in 1 .. Len(SignalHandler) /\ SignalHandler \in Seq(Ops)
  BY HandlerIsOps
<1>. QED
  BY <1>1, FromStep DEF Continues, Handler

LEMMA DestroyingStep ==
  ASSUME NEW o \in Objects, NEW n \in 1 .. 9
  PROVE  LET d == Destructor(o) IN
         /\ \A k \in 1 .. Len(d) : Continues(Destroying(o, k, n), d[k], Destroying(o, k + 1, n))
         /\ Destroying(o, Len(d) + 1, n) = Handler(n)
         /\ d \o Handler(n) = Destroying(o, 1, n)
<1>. DEFINE d == Destructor(o)
<1>1. d \in Seq(Ops) /\ Handler(n) \in Seq(Ops)
  BY HandlerIsOps, HandlerStep DEF Continues
<1>2. ASSUME NEW k \in 1 .. Len(d)
      PROVE  Continues(Destroying(o, k, n), d[k], Destroying(o, k + 1, n))
  <2>1. From(d, k) \in Seq(Ops)
    BY <1>1, FromStep
  <2>2. From(d, k) \o Handler(n) \in Seq(Ops)
    BY <1>1, <2>1
  <2>3. LET r == From(d, k) \o Handler(n) IN
        r # << >> /\ Head(r) = d[k] /\ Tail(r) = From(d, k + 1) \o Handler(n)
    BY <1>1, Through
  <2>. QED
    BY <2>2, <2>3 DEF Continues, Destroying, Handler
<1>3. From(d, Len(d) + 1) = << >> /\ From(d, 1) = d /\ << >> \o Handler(n) = Handler(n)
  BY <1>1, FromEnds
<1>. QED
  BY <1>2, <1>3 DEF Destroying, Handler

LEMMA HandlingIs ==
  /\ \A h \in 0 .. 3 : Handling(h) = Handler(h + 1)
  /\ \A h \in 4 .. 8 : Handling(h) = Destroying("engine", h - 3, 5)
  /\ Handling(9) = Handler(5)
  /\ \A h \in 10 .. 14 : Handling(h) = Destroying("server", h - 9, 6)
  /\ Handling(15) = Handler(6)
  /\ \A h \in 16 .. 22 : Handling(h) = Destroying("publisher", h - 15, 7)
  /\ \A h \in 23 .. 25 : Handling(h) = Handler(h - 16)
<1>1. ASSUME NEW h \in 0 .. 3 PROVE Handling(h) = Handler(h + 1)
  <2>1. /\ h \notin 4 .. 8 /\ h # 9 /\ h \notin 10 .. 14
        /\ h # 15 /\ h \notin 16 .. 22 /\ h \notin 23 .. 25
    OBVIOUS
  <2>. QED
    BY <1>1, <2>1, Zenon DEF Handling, Handler, Destroying
<1>2. ASSUME NEW h \in 4 .. 8 PROVE Handling(h) = Destroying("engine", h - 3, 5)
  <2>1. /\ h \notin 0 .. 3 /\ h # 9 /\ h \notin 10 .. 14
        /\ h # 15 /\ h \notin 16 .. 22 /\ h \notin 23 .. 25
    OBVIOUS
  <2>. QED
    BY <1>2, <2>1, Zenon DEF Handling, Handler, Destroying
<1>3. Handling(9) = Handler(5)
  BY DEF Handling, Handler
<1>4. ASSUME NEW h \in 10 .. 14 PROVE Handling(h) = Destroying("server", h - 9, 6)
  <2>1. /\ h \notin 0 .. 3 /\ h \notin 4 .. 8 /\ h # 9
        /\ h # 15 /\ h \notin 16 .. 22 /\ h \notin 23 .. 25
    OBVIOUS
  <2>. QED
    BY <1>4, <2>1, Zenon DEF Handling, Handler, Destroying
<1>5. Handling(15) = Handler(6)
  BY DEF Handling, Handler
<1>6. ASSUME NEW h \in 16 .. 22 PROVE Handling(h) = Destroying("publisher", h - 15, 7)
  <2>1. /\ h \notin 0 .. 3 /\ h \notin 4 .. 8 /\ h # 9
        /\ h \notin 10 .. 14 /\ h # 15 /\ h \notin 23 .. 25
    OBVIOUS
  <2>. QED
    BY <1>6, <2>1, Zenon DEF Handling, Handler, Destroying
<1>7. ASSUME NEW h \in 23 .. 25 PROVE Handling(h) = Handler(h - 16)
  <2>1. /\ h \notin 0 .. 3 /\ h \notin 4 .. 8 /\ h # 9
        /\ h \notin 10 .. 14 /\ h # 15 /\ h \notin 16 .. 22
    OBVIOUS
  <2>. QED
    BY <1>7, <2>1, Zenon DEF Handling, Handler, Destroying
<1>. QED
  BY <1>1, <1>2, <1>3, <1>4, <1>5, <1>6, <1>7

(* The destructors' operations among the handler's.                        *)
LEMMA DestructorsAre ==
  /\ \A g \in 4 .. 8 : Destructor("engine")[g - 3] = ShutdownOp(g)
  /\ \A g \in 10 .. 14 : Destructor("server")[g - 9] = ShutdownOp(g)
  /\ \A g \in 16 .. 22 : Destructor("publisher")[g - 15] = ShutdownOp(g)
  /\ Len(Destructor("engine")) = 5 /\ Len(Destructor("server")) = 5
  /\ Len(Destructor("publisher")) = 7
<1>. DEFINE e == Destructor("engine")
            s == Destructor("server")
            p == Destructor("publisher")
<1>1. /\ e[1] = ShutdownOp(4) /\ e[2] = ShutdownOp(5) /\ e[3] = ShutdownOp(6)
      /\ e[4] = ShutdownOp(7) /\ e[5] = ShutdownOp(8)
  BY DestructorOps, ShutdownOpsAre
<1>2. /\ s[1] = ShutdownOp(10) /\ s[2] = ShutdownOp(11) /\ s[3] = ShutdownOp(12)
      /\ s[4] = ShutdownOp(13) /\ s[5] = ShutdownOp(14)
  BY DestructorOps, ShutdownOpsAre
<1>3. /\ p[1] = ShutdownOp(16) /\ p[2] = ShutdownOp(17) /\ p[3] = ShutdownOp(18)
      /\ p[4] = ShutdownOp(19) /\ p[5] = ShutdownOp(20) /\ p[6] = ShutdownOp(21)
      /\ p[7] = ShutdownOp(22)
  BY PublisherOps, ShutdownOpsAre
<1>4. Len(e) = 5 /\ Len(s) = 5 /\ Len(p) = 7
  BY DestructorOps, PublisherOps
<1>. HIDE DEF e, s, p
<1>5. /\ \A g \in 4 .. 8 : e[g - 3] = ShutdownOp(g)
      /\ \A g \in 10 .. 14 : s[g - 9] = ShutdownOp(g)
  BY <1>1, <1>2
<1>6. \A g \in 16 .. 22 : p[g - 15] = ShutdownOp(g)
  BY <1>3
<1>. QED
  BY <1>4, <1>5, <1>6 DEF e, s, p

LEMMA DestroyingEach ==
  ASSUME NEW o \in Objects, NEW n \in 1 .. 9, NEW l \in Nat, Len(Destructor(o)) = l
  PROVE  /\ \A k \in 1 .. l :
              Continues(Destroying(o, k, n), Destructor(o)[k], Destroying(o, k + 1, n))
         /\ Destroying(o, l + 1, n) = Handler(n)
         /\ Destructor(o) \o Handler(n) = Destroying(o, 1, n)
BY DestroyingStep

LEMMA DestroyingThree ==
  /\ Destroying("engine", 6, 5) = Handler(5)
  /\ Destructor("engine") \o Handler(5) = Destroying("engine", 1, 5)
  /\ Destroying("server", 6, 6) = Handler(6)
  /\ Destructor("server") \o Handler(6) = Destroying("server", 1, 6)
  /\ Destroying("publisher", 8, 7) = Handler(7)
  /\ Destructor("publisher") \o Handler(7) = Destroying("publisher", 1, 7)
  /\ \A k \in 1 .. 5 : /\ Continues(Destroying("engine", k, 5), Destructor("engine")[k],
                                    Destroying("engine", k + 1, 5))
                       /\ Continues(Destroying("server", k, 6), Destructor("server")[k],
                                    Destroying("server", k + 1, 6))
  /\ \A k \in 1 .. 7 : Continues(Destroying("publisher", k, 7), Destructor("publisher")[k],
                                 Destroying("publisher", k + 1, 7))
<1>1. /\ "engine" \in Objects /\ "server" \in Objects /\ "publisher" \in Objects
      /\ 5 \in 1 .. 9 /\ 6 \in 1 .. 9 /\ 7 \in 1 .. 9 /\ 5 \in Nat /\ 7 \in Nat
  BY DEF Objects
<1>2. /\ Destroying("engine", 5 + 1, 5) = Handler(5)
      /\ Destructor("engine") \o Handler(5) = Destroying("engine", 1, 5)
      /\ \A k \in 1 .. 5 : Continues(Destroying("engine", k, 5), Destructor("engine")[k],
                                     Destroying("engine", k + 1, 5))
  BY <1>1, DestructorsAre, DestroyingEach, Zenon
<1>3. /\ Destroying("server", 5 + 1, 6) = Handler(6)
      /\ Destructor("server") \o Handler(6) = Destroying("server", 1, 6)
      /\ \A k \in 1 .. 5 : Continues(Destroying("server", k, 6), Destructor("server")[k],
                                     Destroying("server", k + 1, 6))
  BY <1>1, DestructorsAre, DestroyingEach, Zenon
<1>4. /\ Destroying("publisher", 7 + 1, 7) = Handler(7)
      /\ Destructor("publisher") \o Handler(7) = Destroying("publisher", 1, 7)
      /\ \A k \in 1 .. 7 : Continues(Destroying("publisher", k, 7), Destructor("publisher")[k],
                                     Destroying("publisher", k + 1, 7))
  BY <1>1, DestructorsAre, DestroyingEach, Zenon
<1>5. 5 + 1 = 6 /\ 7 + 1 = 8
  OBVIOUS
<1>. QED
  BY <1>2, <1>3, <1>4, <1>5

LEMMA HandlersAre ==
  /\ \A g \in 0 .. 3 : SignalHandler[g + 1] = ShutdownOp(g)
  /\ \A g \in 23 .. 25 : SignalHandler[g - 16] = ShutdownOp(g)
<1>1. /\ SignalHandler[1] = ShutdownOp(0) /\ SignalHandler[2] = ShutdownOp(1)
      /\ SignalHandler[3] = ShutdownOp(2) /\ SignalHandler[4] = ShutdownOp(3)
      /\ SignalHandler[7] = ShutdownOp(23) /\ SignalHandler[8] = ShutdownOp(24)
      /\ SignalHandler[9] = ShutdownOp(25)
  BY HandlerOps, ShutdownOpsAre
<1>. QED
  BY <1>1

LEMMA HandlingStep ==
  ASSUME NEW h \in 0 .. 25
  PROVE  /\ Handling(h) # << >> /\ Head(Handling(h)) = ShutdownOp(h)
         /\ h < 25 => Tail(Handling(h)) = Handling(Past(h))
         /\ Handling(h) \in Seq(Ops)
<1>. DEFINE Good(g, p) == \E x : Continues(Handling(g), ShutdownOp(g), x) /\ (g < 25 => x = Handling(p))
<1>1. ASSUME NEW g \in 0 .. 3 PROVE Good(g, Past(g))
  <2>1. Continues(Handler(g + 1), SignalHandler[g + 1], Handler(g + 2))
    <3>1. g + 1 \in 1 .. 9 /\ g + 1 + 1 = g + 2
      OBVIOUS
    <3>. QED
      BY <3>1, HandlerStep
  <2>2. SignalHandler[g + 1] = ShutdownOp(g)
    BY HandlersAre
  <2>3. Handler(g + 2) = Handling(Past(g))
    <3>1. CASE g = 3
      BY <3>1, HandlingIs DEF Past
    <3>2. CASE g \in 0 .. 2
      <4>1. Past(g) \in 0 .. 3 /\ Past(g) + 1 = g + 2
        BY <3>2 DEF Past
      <4>. QED
        BY <4>1, HandlingIs
    <3>. QED
      BY <3>1, <3>2
  <2>. QED
    BY <2>1, <2>2, <2>3, HandlingIs
<1>2. ASSUME NEW g \in {9, 15} PROVE Good(g, Past(g))
  <2>1. /\ Continues(Handler(5), SignalHandler[5], Handler(6))
        /\ Continues(Handler(6), SignalHandler[6], Handler(7))
    BY HandlerStep
  <2>2. SignalHandler[5] = ShutdownOp(9) /\ SignalHandler[6] = ShutdownOp(15)
    BY HandlerOps, ShutdownOpsAre
  <2>3. Handler(6) = Handling(Past(9)) /\ Handler(7) = Handling(Past(15))
    BY HandlingIs DEF Past
  <2>. QED
    BY <2>1, <2>2, <2>3, HandlingIs
<1>3. ASSUME NEW g \in 23 .. 25 PROVE Good(g, Past(g))
  <2>1. Continues(Handler(g - 16), SignalHandler[g - 16], Handler(g - 16 + 1))
    BY HandlerStep
  <2>2. SignalHandler[g - 16] = ShutdownOp(g)
    BY HandlersAre
  <2>3. g < 25 => Handler(g - 16 + 1) = Handling(Past(g))
    <3>1. g < 25 => Past(g) \in 23 .. 25 /\ Past(g) - 16 = g - 16 + 1
      BY DEF Past
    <3>. QED
      BY <3>1, HandlingIs
  <2>. QED
    BY <2>1, <2>2, <2>3, HandlingIs
<1>4. ASSUME NEW g \in 4 .. 8 PROVE Good(g, Past(g))
  <2>1. LET d == Destructor("engine") IN Len(d) = 5 /\ d[g - 3] = ShutdownOp(g)
    BY DestructorsAre
  <2>2. Continues(Destroying("engine", g - 3, 5), Destructor("engine")[g - 3],
                  Destroying("engine", g - 3 + 1, 5))
    <3>1. g - 3 \in 1 .. 5
      OBVIOUS
    <3>. QED
      BY <3>1, DestroyingThree
  <2>3. Destroying("engine", g - 3 + 1, 5) = Handling(Past(g))
    <3>1. CASE g = 8
      <4>1. Destroying("engine", 6, 5) = Handler(5)
        BY DestroyingThree
      <4>. QED
        BY <3>1, <4>1, HandlingIs DEF Past
    <3>2. CASE g \in 4 .. 7
      <4>1. Past(g) \in 4 .. 8 /\ Past(g) - 3 = g - 3 + 1
        BY <3>2 DEF Past
      <4>. QED
        BY <4>1, HandlingIs
    <3>. QED
      BY <3>1, <3>2
  <2>. QED
    BY <2>1, <2>2, <2>3, HandlingIs
<1>5. ASSUME NEW g \in 10 .. 14 PROVE Good(g, Past(g))
  <2>1. LET d == Destructor("server") IN Len(d) = 5 /\ d[g - 9] = ShutdownOp(g)
    BY DestructorsAre
  <2>2. Continues(Destroying("server", g - 9, 6), Destructor("server")[g - 9],
                  Destroying("server", g - 9 + 1, 6))
    <3>1. g - 9 \in 1 .. 5
      OBVIOUS
    <3>. QED
      BY <3>1, DestroyingThree
  <2>3. Destroying("server", g - 9 + 1, 6) = Handling(Past(g))
    <3>1. CASE g = 14
      <4>1. Destroying("server", 6, 6) = Handler(6)
        BY DestroyingThree
      <4>. QED
        BY <3>1, <4>1, HandlingIs DEF Past
    <3>2. CASE g \in 10 .. 13
      <4>1. Past(g) \in 10 .. 14 /\ Past(g) - 9 = g - 9 + 1
        BY <3>2 DEF Past
      <4>. QED
        BY <4>1, HandlingIs
    <3>. QED
      BY <3>1, <3>2
  <2>. QED
    BY <2>1, <2>2, <2>3, HandlingIs
<1>6. ASSUME NEW g \in 16 .. 22 PROVE Good(g, Past(g))
  <2>1. LET d == Destructor("publisher") IN Len(d) = 7 /\ d[g - 15] = ShutdownOp(g)
    BY DestructorsAre
  <2>2. Continues(Destroying("publisher", g - 15, 7), Destructor("publisher")[g - 15],
                  Destroying("publisher", g - 15 + 1, 7))
    <3>1. g - 15 \in 1 .. 7
      OBVIOUS
    <3>. QED
      BY <3>1, DestroyingThree
  <2>3. Destroying("publisher", g - 15 + 1, 7) = Handling(Past(g))
    <3>1. CASE g = 22
      <4>1. Destroying("publisher", 8, 7) = Handler(7)
        BY DestroyingThree
      <4>. QED
        BY <3>1, <4>1, HandlingIs DEF Past
    <3>2. CASE g \in 16 .. 21
      <4>1. Past(g) \in 16 .. 22 /\ Past(g) - 15 = g - 15 + 1
        BY <3>2 DEF Past
      <4>. QED
        BY <4>1, HandlingIs
    <3>. QED
      BY <3>1, <3>2
  <2>. QED
    BY <2>1, <2>2, <2>3, HandlingIs
<1>7. Good(h, Past(h))
  <2>. HIDE DEF Good
  <2>. QED
    BY ShutdownOpsAre, <1>1, <1>2, <1>3, <1>4, <1>5, <1>6
<1>. QED
  BY <1>7 DEF Continues

(* The destructor of an object that there is.                              *)
LEMMA EnterDestructor ==
  /\ Destructor("engine") \o Handling(9) = Handling(4)
  /\ Destructor("server") \o Handling(15) = Handling(10)
  /\ Destructor("publisher") \o Handling(23) = Handling(16)
<1>1. /\ Destructor("engine") \o Handler(5) = Destroying("engine", 1, 5)
      /\ Destructor("server") \o Handler(6) = Destroying("server", 1, 6)
      /\ Destructor("publisher") \o Handler(7) = Destroying("publisher", 1, 7)
  BY DestroyingThree
<1>2. Handling(9) = Handler(5) /\ Handling(15) = Handler(6) /\ Handling(23) = Handler(7)
  <2>1. 23 \in 23 .. 25 /\ 23 - 16 = 7
    OBVIOUS
  <2>. QED
    BY <2>1, HandlingIs
<1>3. /\ Handling(4) = Destroying("engine", 1, 5) /\ Handling(10) = Destroying("server", 1, 6)
      /\ Handling(16) = Destroying("publisher", 1, 7)
  <2>1. /\ 4 \in 4 .. 8 /\ 4 - 3 = 1 /\ 10 \in 10 .. 14 /\ 10 - 9 = 1
        /\ 16 \in 16 .. 22 /\ 16 - 15 = 1
    OBVIOUS
  <2>. QED
    BY <2>1, HandlingIs
<1>. QED
  BY <1>1, <1>2, <1>3

(* Where in the handler an operation can stand.                            *)
HandlingPlace(h, name, on) ==
  /\ name = "exit" <=> h = 25
  /\ name = "delete" => /\ on = "engine" => h = 3
                        /\ on = "server" => h = 9
                        /\ on = "publisher" => h = 15
  /\ name = "clear" /\ on \in Threads => h = ClearAt[on]
  /\ name = "join" /\ on \in Threads => h = JoinAt[on]
  /\ name = "free" /\ on \in Objects => h = FreeAt[on]
  /\ name = "close" => h = 2
  /\ name = "sleep" => h \in {0, 23} \/ \E o \in Objects : h = WakeAt[o] - 1
  /\ name = "wake" => h \in {1, 24} \/ \E o \in Objects : h = WakeAt[o]
  /\ name \notin {"new", "run", "create", "return"}

LEMMA PlacesAre ==
  /\ ClearAt["engine"] = 4 /\ ClearAt["server"] = 10
  /\ ClearAt["publisher"] = 16 /\ ClearAt["synthetizer"] = 18
  /\ JoinAt["engine"] = 5 /\ JoinAt["server"] = 11
  /\ JoinAt["publisher"] = 17 /\ JoinAt["synthetizer"] = 19
  /\ WakeAt["engine"] = 7 /\ WakeAt["server"] = 13 /\ WakeAt["publisher"] = 21
  /\ FreeAt["engine"] = 8 /\ FreeAt["server"] = 14 /\ FreeAt["publisher"] = 22
BY DEF ClearAt, JoinAt, WakeAt, FreeAt

LEMMA PlacesOfOps ==
  /\ HandlingPlace(0, "sleep", "main")
  /\ HandlingPlace(1, "wake", "main")
  /\ HandlingPlace(2, "close", "logger")
  /\ HandlingPlace(3, "delete", "engine")
  /\ HandlingPlace(4, "clear", "engine")
  /\ HandlingPlace(5, "join", "engine")
  /\ HandlingPlace(6, "sleep", "main")
  /\ HandlingPlace(7, "wake", "main")
  /\ HandlingPlace(8, "free", "engine")
  /\ HandlingPlace(9, "delete", "server")
  /\ HandlingPlace(10, "clear", "server")
  /\ HandlingPlace(11, "join", "server")
  /\ HandlingPlace(12, "sleep", "main")
  /\ HandlingPlace(13, "wake", "main")
  /\ HandlingPlace(14, "free", "server")
  /\ HandlingPlace(15, "delete", "publisher")
  /\ HandlingPlace(16, "clear", "publisher")
  /\ HandlingPlace(17, "join", "publisher")
  /\ HandlingPlace(18, "clear", "synthetizer")
  /\ HandlingPlace(19, "join", "synthetizer")
  /\ HandlingPlace(20, "sleep", "main")
  /\ HandlingPlace(21, "wake", "main")
  /\ HandlingPlace(22, "free", "publisher")
  /\ HandlingPlace(23, "sleep", "main")
  /\ HandlingPlace(24, "wake", "main")
  /\ HandlingPlace(25, "exit", "main")
BY PlacesAre DEF HandlingPlace, Objects, Threads

LEMMA HandlingDoes ==
  ASSUME NEW h \in 0 .. 25, script = Handling(h),
         NEW name, NEW on, Does(name, on)
  PROVE  /\ h < 25 => Tail(script) = Handling(Past(h))
         /\ HandlingPlace(h, name, on)
<1>1. ShutdownOp(h) = <<name, on>> /\ (h < 25 => Tail(script) = Handling(Past(h)))
  BY HandlingStep DEF Does
<1>2. \A n, o : ShutdownOp(h) = <<n, o>> => HandlingPlace(h, n, o)
  <2>. SUFFICES ASSUME NEW n, NEW o, ShutdownOp(h) = <<n, o>>
                PROVE  HandlingPlace(h, n, o)
    OBVIOUS
  <2>0. CASE h = 0
    <3>1. n = "sleep" /\ o = "main"
      BY <2>0, ShutdownOpsAre
    <3>. QED
      BY <2>0, <3>1, PlacesOfOps
  <2>1. CASE h = 1
    <3>1. n = "wake" /\ o = "main"
      BY <2>1, ShutdownOpsAre
    <3>. QED
      BY <2>1, <3>1, PlacesOfOps
  <2>2. CASE h = 2
    <3>1. n = "close" /\ o = "logger"
      BY <2>2, ShutdownOpsAre
    <3>. QED
      BY <2>2, <3>1, PlacesOfOps
  <2>3. CASE h = 3
    <3>1. n = "delete" /\ o = "engine"
      BY <2>3, ShutdownOpsAre
    <3>. QED
      BY <2>3, <3>1, PlacesOfOps
  <2>4. CASE h = 4
    <3>1. n = "clear" /\ o = "engine"
      BY <2>4, ShutdownOpsAre
    <3>. QED
      BY <2>4, <3>1, PlacesOfOps
  <2>5. CASE h = 5
    <3>1. n = "join" /\ o = "engine"
      BY <2>5, ShutdownOpsAre
    <3>. QED
      BY <2>5, <3>1, PlacesOfOps
  <2>6. CASE h = 6
    <3>1. n = "sleep" /\ o = "main"
      BY <2>6, ShutdownOpsAre
    <3>. QED
      BY <2>6, <3>1, PlacesOfOps
  <2>7. CASE h = 7
    <3>1. n = "wake" /\ o = "main"
      BY <2>7, ShutdownOpsAre
    <3>. QED
      BY <2>7, <3>1, PlacesOfOps
  <2>8. CASE h = 8
    <3>1. n = "free" /\ o = "engine"
      BY <2>8, ShutdownOpsAre
    <3>. QED
      BY <2>8, <3>1, PlacesOfOps
  <2>9. CASE h = 9
    <3>1. n = "delete" /\ o = "server"
      BY <2>9, ShutdownOpsAre
    <3>. QED
      BY <2>9, <3>1, PlacesOfOps
  <2>10. CASE h = 10
    <3>1. n = "clear" /\ o = "server"
      BY <2>10, ShutdownOpsAre
    <3>. QED
      BY <2>10, <3>1, PlacesOfOps
  <2>11. CASE h = 11
    <3>1. n = "join" /\ o = "server"
      BY <2>11, ShutdownOpsAre
    <3>. QED
      BY <2>11, <3>1, PlacesOfOps
  <2>12. CASE h = 12
    <3>1. n = "sleep" /\ o = "main"
      BY <2>12, ShutdownOpsAre
    <3>. QED
      BY <2>12, <3>1, PlacesOfOps
  <2>13. CASE h = 13
    <3>1. n = "wake" /\ o = "main"
      BY <2>13, ShutdownOpsAre
    <3>. QED
      BY <2>13, <3>1, PlacesOfOps
  <2>14. CASE h = 14
    <3>1. n = "free" /\ o = "server"
      BY <2>14, ShutdownOpsAre
    <3>. QED
      BY <2>14, <3>1, PlacesOfOps
  <2>15. CASE h = 15
    <3>1. n = "delete" /\ o = "publisher"
      BY <2>15, ShutdownOpsAre
    <3>. QED
      BY <2>15, <3>1, PlacesOfOps
  <2>16. CASE h = 16
    <3>1. n = "clear" /\ o = "publisher"
      BY <2>16, ShutdownOpsAre
    <3>. QED
      BY <2>16, <3>1, PlacesOfOps
  <2>17. CASE h = 17
    <3>1. n = "join" /\ o = "publisher"
      BY <2>17, ShutdownOpsAre
    <3>. QED
      BY <2>17, <3>1, PlacesOfOps
  <2>18. CASE h = 18
    <3>1. n = "clear" /\ o = "synthetizer"
      BY <2>18, ShutdownOpsAre
    <3>. QED
      BY <2>18, <3>1, PlacesOfOps
  <2>19. CASE h = 19
    <3>1. n = "join" /\ o = "synthetizer"
      BY <2>19, ShutdownOpsAre
    <3>. QED
      BY <2>19, <3>1, PlacesOfOps
  <2>20. CASE h = 20
    <3>1. n = "sleep" /\ o = "main"
      BY <2>20, ShutdownOpsAre
    <3>. QED
      BY <2>20, <3>1, PlacesOfOps
  <2>21. CASE h = 21
    <3>1. n = "wake" /\ o = "main"
      BY <2>21, ShutdownOpsAre
    <3>. QED
      BY <2>21, <3>1, PlacesOfOps
  <2>22. CASE h = 22
    <3>1. n = "free" /\ o = "publisher"
      BY <2>22, ShutdownOpsAre
    <3>. QED
      BY <2>22, <3>1, PlacesOfOps
  <2>23. CASE h = 23
    <3>1. n = "sleep" /\ o = "main"
      BY <2>23, ShutdownOpsAre
    <3>. QED
      BY <2>23, <3>1, PlacesOfOps
  <2>24. CASE h = 24
    <3>1. n = "wake" /\ o = "main"
      BY <2>24, ShutdownOpsAre
    <3>. QED
      BY <2>24, <3>1, PlacesOfOps
  <2>25. CASE h = 25
    <3>1. n = "exit" /\ o = "main"
      BY <2>25, ShutdownOpsAre
    <3>. QED
      BY <2>25, <3>1, PlacesOfOps
  <2>. QED
    BY <2>0, <2>1, <2>2, <2>3, <2>4, <2>5, <2>6, <2>7, <2>8, <2>9, <2>10, <2>11, <2>12, <2>13, <2>14, <2>15, <2>16, <2>17, <2>18, <2>19, <2>20, <2>21, <2>22, <2>23, <2>24, <2>25
<1>. QED
  BY <1>1, <1>2
----------------------------------------------------------------------------
(* Start-up.                                                               *)

LEMMA CreatedWhere ==
  /\ CreateAt["engine"] = 3 /\ CreateAt["publisher"] = 9
  /\ CreateAt["synthetizer"] = 14 /\ CreateAt["server"] = 20
  /\ NewAt["engine"] = 1 /\ NewAt["publisher"] = 7 /\ NewAt["server"] = 18
BY DEF CreateAt, NewAt

LEMMA CreatedApart ==
  /\ \A t \in Threads : CreateAt[t] \in {3, 9, 14, 20} /\ (CreateAt[t] = 20 => t = "server")
  /\ \A t, u \in Threads : CreateAt[t] = CreateAt[u] => t = u
  /\ \A o \in Objects : NewAt[o] \in {1, 7, 18}
  /\ \A o, p \in Objects : NewAt[o] = NewAt[p] => o = p
  /\ \A t \in Threads : NewAt[ObjectOf(t)] + 1 < CreateAt[t]
BY CreatedWhere DEF Threads, Objects, ObjectOf

(* An operation that is none of a thread's leaves it as it is.             *)
LEMMA StartedNext ==
  ASSUME NEW k \in Nat, NEW t \in Threads, StartedAt(k, t),
         k \notin {CreateAt[t] - 1, CreateAt[t], CreateAt[t] + 2, CreateAt[t] + 3},
         run_'[t] = run_[t], thread'[t] = thread[t],
         t \in frames' <=> t \in frames, t \in joinable' <=> t \in joinable
  PROVE  StartedAt(k + 1, t)'
<1>1. CreateAt[t] \in Nat
  BY CreatedApart
<1>2. PICK c \in Nat : c = CreateAt[t]
  BY <1>1
<1>. QED
  BY <1>2 DEF StartedAt

LEMMA StartNewObject ==
  ASSUME MainTypeOK, ThreadsInv, NEW k \in 1 .. 24, StartingAt(k), NEW o \in Objects, NewObject(o)
  PROVE  ThreadsInv' /\ k < 24 /\ StartingAt(k + 1)'
<1>1. k < 24 /\ script' = From(Startup, k + 1) /\ k = NewAt[o]
  <2>1. script = From(Startup, k) /\ Does("new", o) /\ script' = Tail(script)
    BY DEF NewObject, StartingAt
  <2>2. k < 24 /\ Tail(script) = From(Startup, k + 1) /\ StartingPlace(k, "new", o)
    BY <2>1, StartingDoes
  <2>. QED
    BY <2>1, <2>2 DEF StartingPlace
<1>2. UNCHANGED <<run_, joinable, frames, thread, at, rounds, stalled>> /\ alive' = alive \cup {o}
  BY DEF NewObject, loopVars
<1>3. \A p \in Objects : p \in alive' <=> NewAt[p] < k + 1
  <2>. SUFFICES ASSUME NEW p \in Objects PROVE p \in alive' <=> NewAt[p] < k + 1
    OBVIOUS
  <2>1. NewAt[p] \in Nat /\ (NewAt[p] = k => p = o)
    BY <1>1, CreatedApart
  <2>. QED
    BY <1>1, <1>2, <2>1 DEF StartingAt
<1>4. ASSUME NEW t \in Threads PROVE StartedAt(k + 1, t)'
  <2>1. k \notin {CreateAt[t] - 1, CreateAt[t], CreateAt[t] + 2, CreateAt[t] + 3}
    BY <1>1, CreatedApart
  <2>. QED
    BY <1>2, <2>1, StartedNext DEF StartingAt
<1>5. ThreadsInv'
  BY <1>2 DEF ThreadsInv, ThreadInv, NewObject, dataVars, Drained
<1>. QED
  BY <1>1, <1>3, <1>4, <1>5 DEF StartingAt

LEMMA StartSetRun ==
  ASSUME MainTypeOK, ThreadsInv, NEW k \in 1 .. 24, StartingAt(k), NEW t \in Threads, SetRun(t)
  PROVE  ThreadsInv' /\ k < 24 /\ StartingAt(k + 1)'
<1>1. k < 24 /\ script' = From(Startup, k + 1) /\ k = CreateAt[t] - 1
  <2>1. script = From(Startup, k) /\ Does("run", t) /\ script' = Tail(script)
    BY DEF SetRun, StartingAt
  <2>2. k < 24 /\ Tail(script) = From(Startup, k + 1) /\ StartingPlace(k, "run", t)
    BY <2>1, StartingDoes
  <2>. QED
    BY <2>1, <2>2 DEF StartingPlace
<1>2. /\ UNCHANGED <<joinable, frames, thread, at, rounds, stalled, alive>>
      /\ run_' = [run_ EXCEPT ![t] = TRUE]
  BY DEF SetRun, loopVars
<1>3. \A p \in Objects : p \in alive' <=> NewAt[p] < k + 1
  <2>. SUFFICES ASSUME NEW p \in Objects PROVE p \in alive' <=> NewAt[p] < k + 1
    OBVIOUS
  <2>1. NewAt[p] \in Nat /\ NewAt[p] # k
    BY <1>1, CreatedApart
  <2>. QED
    BY <1>2, <2>1 DEF StartingAt
<1>4. ASSUME NEW u \in Threads PROVE StartedAt(k + 1, u)'
  <2>1. CASE u = t
    <3>1. run_'[t]
      BY <1>2 DEF MainTypeOK
    <3>. QED
      BY <1>1, <1>2, <2>1, <3>1, CreatedApart DEF StartingAt, StartedAt
  <2>2. CASE u # t
    <3>1. CreateAt[u] # CreateAt[t]
      BY <2>2, CreatedApart
    <3>2. k \notin {CreateAt[u] - 1, CreateAt[u], CreateAt[u] + 2, CreateAt[u] + 3}
      BY <1>1, <3>1, CreatedApart
    <3>3. run_'[u] = run_[u]
      BY <1>2, <2>2 DEF MainTypeOK
    <3>4. StartedAt(k, u) /\ k \in Nat
      BY DEF StartingAt
    <3>5. /\ thread'[u] = thread[u]
          /\ u \in frames' <=> u \in frames
          /\ u \in joinable' <=> u \in joinable
      BY <1>2
    <3>. QED
      BY <3>2, <3>3, <3>4, <3>5, StartedNext
  <2>. QED
    BY <2>1, <2>2
<1>5. ThreadsInv'
  <2>1. thread[t] = "none"
    BY <1>1, CreatedApart DEF StartingAt, StartedAt
  <2>2. ASSUME NEW u \in Threads PROVE ThreadInv(u)'
    BY <1>2, <2>1 DEF ThreadsInv, ThreadInv, MainTypeOK
  <2>. QED
    BY <1>2, <2>2 DEF ThreadsInv, SetRun, dataVars, Drained
<1>. QED
  BY <1>1, <1>3, <1>4, <1>5 DEF StartingAt

LEMMA StartCreateThread ==
  ASSUME MainTypeOK, ThreadsInv, NEW k \in 1 .. 24, StartingAt(k), NEW t \in Threads, CreateThread(t)
  PROVE  ThreadsInv' /\ k < 24 /\ StartingAt(k + 1)'
<1>1. k < 24 /\ script' = From(Startup, k + 1) /\ k = CreateAt[t]
  <2>1. script = From(Startup, k) /\ Does("create", t) /\ script' = Tail(script)
    BY DEF CreateThread, StartingAt
  <2>2. k < 24 /\ Tail(script) = From(Startup, k + 1) /\ StartingPlace(k, "create", t)
    BY <2>1, StartingDoes
  <2>. QED
    BY <2>1, <2>2 DEF StartingPlace
<1>2. /\ UNCHANGED <<joinable, run_, at, rounds, stalled, alive>> /\ frames' = frames \cup {t}
      /\ thread' = [thread EXCEPT ![t] = "created"]
  BY DEF CreateThread
<1>3. \A p \in Objects : p \in alive' <=> NewAt[p] < k + 1
  <2>. SUFFICES ASSUME NEW p \in Objects PROVE p \in alive' <=> NewAt[p] < k + 1
    OBVIOUS
  <2>1. NewAt[p] \in Nat /\ NewAt[p] # k
    BY <1>1, CreatedApart
  <2>. QED
    BY <1>2, <2>1 DEF StartingAt
<1>4. ASSUME NEW u \in Threads PROVE StartedAt(k + 1, u)' /\ u \notin frames
  <2>1. k \notin CreateAt[u] + 1 .. CreateAt[u] + 3
    BY <1>1, CreatedApart
  <2>2. CASE u = t
    <3>1. thread'[t] = "created"
      BY <1>2 DEF MainTypeOK
    <3>. QED
      BY <1>1, <1>2, <2>1, <2>2, <3>1, CreatedApart DEF StartingAt, StartedAt
  <2>3. CASE u # t
    <3>1. CreateAt[u] # CreateAt[t]
      BY <2>3, CreatedApart
    <3>2. k \notin {CreateAt[u] - 1, CreateAt[u], CreateAt[u] + 2, CreateAt[u] + 3}
      BY <1>1, <3>1, CreatedApart
    <3>3. thread'[u] = thread[u]
      BY <1>2, <2>3 DEF MainTypeOK
    <3>. QED
      BY <1>2, <2>1, <2>3, <3>2, <3>3, StartedNext DEF StartingAt, StartedAt
  <2>. QED
    BY <2>2, <2>3
<1>5. frames' = {t} /\ thread[t] = "none" /\ thread'[t] = "created" /\ at'[t] = "test"
  BY <1>1, <1>2, <1>4, CreatedApart DEF StartingAt, StartedAt, MainTypeOK, ThreadsInv, ThreadInv
<1>6. ASSUME NEW u \in Threads PROVE ThreadInv(u)'
  BY <1>2, <1>5 DEF ThreadsInv, ThreadInv, MainTypeOK
<1>7. thread'["server"] = "none" => Drained' /\ client_requests' = 0
  BY <1>2, <1>5 DEF ThreadsInv, CreateThread, dataVars, Drained, MainTypeOK
<1>8. ASSUME thread'["server"] # "none"
      PROVE  t = "server" /\ \A u \in Threads : thread'[u] # "none"
  <2>1. thread["server"] = "none"
    BY <1>5 DEF ThreadsInv
  <2>2. t = "server"
    BY <1>2, <1>8, <2>1 DEF MainTypeOK, Threads
  <2>3. \A u \in Threads : u # t => thread[u] # "none"
    <3>. SUFFICES ASSUME NEW u \in Threads, u # t PROVE ~(k <= CreateAt[u])
      BY DEF StartingAt, StartedAt
    <3>1. CreateAt[u] # 20 /\ k = 20
      BY <1>1, <2>2, CreatedApart, CreatedWhere
    <3>. QED
      BY <3>1, CreatedApart
  <2>. QED
    BY <1>2, <1>5, <2>2, <2>3 DEF MainTypeOK
<1>9. ThreadsInv'
  BY <1>2, <1>5, <1>6, <1>7, <1>8 DEF ThreadsInv, ThreadInv
<1>. QED
  BY <1>1, <1>3, <1>4, <1>9 DEF StartingAt

LEMMA StartReturn ==
  ASSUME MainTypeOK, ThreadsInv, NEW k \in 1 .. 24, StartingAt(k), NEW t \in Threads, Return(t)
  PROVE  ThreadsInv' /\ k < 24 /\ StartingAt(k + 1)'
<1>1. k < 24 /\ script' = From(Startup, k + 1) /\ k = CreateAt[t] + 3
  <2>1. script = From(Startup, k) /\ Does("return", t) /\ script' = Tail(script)
    BY DEF Return, StartingAt
  <2>2. k < 24 /\ Tail(script) = From(Startup, k + 1) /\ StartingPlace(k, "return", t)
    BY <2>1, StartingDoes
  <2>. QED
    BY <2>1, <2>2 DEF StartingPlace
<1>2. /\ UNCHANGED <<run_, thread, at, rounds, stalled, alive>> /\ frames' = frames \ {t}
      /\ joinable' = joinable \cup {t}
  BY DEF Return, loopVars
<1>3. \A p \in Objects : p \in alive' <=> NewAt[p] < k + 1
  <2>. SUFFICES ASSUME NEW p \in Objects PROVE p \in alive' <=> NewAt[p] < k + 1
    OBVIOUS
  <2>1. NewAt[p] \in Nat /\ NewAt[p] # k
    BY <1>1, CreatedApart
  <2>. QED
    BY <1>2, <2>1 DEF StartingAt
<1>4. ASSUME NEW u \in Threads PROVE StartedAt(k + 1, u)'
  <2>1. CASE u = t
    BY <1>1, <1>2, <2>1, CreatedApart DEF StartingAt, StartedAt
  <2>2. CASE u # t
    <3>1. CreateAt[u] # CreateAt[t]
      BY <2>2, CreatedApart
    <3>2. k \notin {CreateAt[u] - 1, CreateAt[u], CreateAt[u] + 2, CreateAt[u] + 3}
      BY <1>1, <3>1, CreatedApart
    <3>3. run_'[u] = run_[u] /\ thread'[u] = thread[u]
      BY <1>2
    <3>4. StartedAt(k, u) /\ k \in Nat
      BY DEF StartingAt
    <3>5. /\ u \in frames' <=> u \in frames
          /\ u \in joinable' <=> u \in joinable
      BY <1>2, <2>2
    <3>. QED
      BY <3>2, <3>3, <3>4, <3>5, StartedNext
  <2>. QED
    BY <2>1, <2>2
<1>5. ThreadsInv'
  <2>1. thread[t] \notin {"none", "created"}
    BY <1>1, CreatedApart DEF StartingAt, StartedAt
  <2>2. ASSUME NEW u \in Threads PROVE ThreadInv(u)'
    BY <1>2, <2>1 DEF ThreadsInv, ThreadInv, MainTypeOK
  <2>. QED
    BY <1>2, <2>2 DEF ThreadsInv, Return, dataVars, Drained
<1>. QED
  BY <1>1, <1>3, <1>4, <1>5 DEF StartingAt

LEMMA StartSleep ==
  ASSUME MainTypeOK, ThreadsInv, NEW k \in 1 .. 24, StartingAt(k), FallAsleep \/ WakeUp
  PROVE  ThreadsInv' /\ k < 24 /\ StartingAt(k + 1)'
<1>1. /\ k < 24 /\ script' = From(Startup, k + 1)
      /\ \E t \in Threads : k = CreateAt[t] + 1 \/ (k = CreateAt[t] + 2 /\ WakeUp)
  <2>1. CASE FallAsleep
    <3>1. script = From(Startup, k) /\ Does("sleep", "main") /\ script' = Tail(script)
      BY <2>1 DEF FallAsleep, StartingAt
    <3>2. k < 24 /\ Tail(script) = From(Startup, k + 1) /\ StartingPlace(k, "sleep", "main")
      BY <3>1, StartingDoes
    <3>. QED
      BY <3>1, <3>2 DEF StartingPlace
  <2>2. CASE WakeUp
    <3>1. script = From(Startup, k) /\ Does("wake", "main") /\ script' = Tail(script)
      BY <2>2 DEF WakeUp, StartingAt
    <3>2. k < 24 /\ Tail(script) = From(Startup, k + 1) /\ StartingPlace(k, "wake", "main")
      BY <3>1, StartingDoes
    <3>. QED
      BY <2>2, <3>1, <3>2 DEF StartingPlace
  <2>. QED
    BY <2>1, <2>2
<1>2. UNCHANGED <<run_, thread, at, stalled, joinable, frames, alive>>
  BY DEF FallAsleep, WakeUp, loopVars
<1>3. PICK t \in Threads : k = CreateAt[t] + 1 \/ (k = CreateAt[t] + 2 /\ WakeUp)
  BY <1>1
<1>4. \A p \in Objects : p \in alive' <=> NewAt[p] < k + 1
  <2>. SUFFICES ASSUME NEW p \in Objects PROVE p \in alive' <=> NewAt[p] < k + 1
    OBVIOUS
  <2>1. NewAt[p] \in Nat /\ NewAt[p] # k
    BY <1>3, CreatedApart
  <2>. QED
    BY <1>2, <2>1 DEF StartingAt
<1>5. ASSUME NEW u \in Threads PROVE StartedAt(k + 1, u)'
  <2>1. StartedAt(k, u) /\ k \in Nat
    BY DEF StartingAt
  <2>2. CASE k = CreateAt[u] + 2
    <3>1. WakeUp
      BY <1>3, <2>2, CreatedApart
    <3>2. thread[u] # "created"
      BY <3>1 DEF WakeUp
    <3>. QED
      BY <1>2, <2>1, <2>2, <3>2, CreatedApart DEF StartedAt
  <2>3. CASE k # CreateAt[u] + 2
    <3>1. k \notin {CreateAt[u] - 1, CreateAt[u], CreateAt[u] + 2, CreateAt[u] + 3}
      BY <1>3, <2>3, CreatedApart
    <3>2. /\ run_'[u] = run_[u] /\ thread'[u] = thread[u]
          /\ u \in frames' <=> u \in frames
          /\ u \in joinable' <=> u \in joinable
      BY <1>2
    <3>. QED
      BY <2>1, <3>1, <3>2, StartedNext
  <2>. QED
    BY <2>2, <2>3
<1>6. ThreadsInv'
  BY <1>2 DEF ThreadsInv, ThreadInv, FallAsleep, WakeUp, dataVars, Drained
<1>. QED
  BY <1>1, <1>4, <1>5, <1>6 DEF StartingAt

(* The main thread before the signal.                                      *)
LEMMA StartMain ==
  ASSUME MainTypeOK, ThreadsInv, NEW k \in 1 .. 24, StartingAt(k), MainThread
  PROVE  ThreadsInv' /\ k < 24 /\ StartingAt(k + 1)'
<1>1. \A name, on : Does(name, on) => name \notin {"delete", "clear", "join", "free", "close"}
  BY StartingDoes DEF StartingPlace, StartingAt
<1>2. ~CloseLogger /\ \A o \in Objects : ~Delete(o) /\ ~Free(o)
  BY <1>1 DEF Delete, Free, CloseLogger
<1>3. \A t \in Threads : ~ClearRun(t) /\ ~Join(t)
  BY <1>1 DEF ClearRun, Join
<1>. QED
  BY <1>2, <1>3, StartNewObject, StartSetRun, StartCreateThread, StartReturn, StartSleep
     DEF MainThread

----------------------------------------------------------------------------
(* Shut-down.                                                              *)

LEMMA PlacesApart ==
  /\ \A t \in Threads : /\ ClearAt[t] \in {4, 10, 16, 18} /\ JoinAt[t] = ClearAt[t] + 1
                        /\ WakeAt[ObjectOf(t)] \in {7, 13, 21}
                        /\ FreeAt[ObjectOf(t)] = WakeAt[ObjectOf(t)] + 1
                        /\ JoinAt[t] + 1 < WakeAt[ObjectOf(t)]
  /\ \A t, u \in Threads : ClearAt[t] = ClearAt[u] => t = u
  /\ \A o \in Objects : WakeAt[o] \in {7, 13, 21} /\ FreeAt[o] = WakeAt[o] + 1
  /\ \A o, p \in Objects : WakeAt[o] = WakeAt[p] => o = p
BY PlacesAre DEF Threads, Objects, ObjectOf

(* An operation that is none of a thread's leaves it as it is.             *)
LEMMA ThreadNext ==
  ASSUME NEW h \in Nat, NEW t \in Threads, ThreadAt(h, t),
         h # 1, h \notin {ClearAt[t], JoinAt[t], WakeAt[ObjectOf(t)] - 1, WakeAt[ObjectOf(t)],
                          FreeAt[ObjectOf(t)]},
         run_'[t] = run_[t], thread'[t] = thread[t],
         t \in frames' <=> t \in frames, t \in joinable' <=> t \in joinable,
         t \in stalled' <=> t \in stalled,
         ObjectOf(t) \in alive => ObjectOf(t) \in alive'
  PROVE  ThreadAt(h + 1, t)'
<1>1. PICK c \in Nat, j \in Nat, w \in Nat, f \in Nat :
        c = ClearAt[t] /\ j = JoinAt[t] /\ w = WakeAt[ObjectOf(t)] /\ f = FreeAt[ObjectOf(t)]
  <2>1. /\ ClearAt[t] \in Nat /\ JoinAt[t] \in Nat /\ WakeAt[ObjectOf(t)] \in Nat
        /\ FreeAt[ObjectOf(t)] \in Nat
    BY PlacesApart
  <2>. QED
    BY <2>1
<1>. QED
  BY <1>1 DEF ThreadAt

(* What ThreadsInv owes to the handler's operations.                       *)
LEMMA HandlerThreads ==
  ASSUME ThreadsInv, UNCHANGED <<thread, at, frames>>,
         joinable' \subseteq joinable, \A t \in Threads : thread[t] = "ended" => ~run_'[t],
         stalled' \subseteq stalled, UNCHANGED dataVars
  PROVE  ThreadsInv'
<1>1. ASSUME NEW t \in Threads PROVE ThreadInv(t)'
  BY DEF ThreadsInv, ThreadInv
<1>. QED
  BY <1>1 DEF ThreadsInv, Drained, dataVars

(* Threads between the operations that concern what drains.                *)
LEMMA DrainNext ==
  ASSUME NEW h \in Nat, NEW g \in Nat, DrainAt(h), h \notin {6, 7}, h < g, g # 7,
         h < 7 => g < 7,
         UNCHANGED <<stalled, dataVars>>
  PROVE  DrainAt(g)'
BY PlacesAre DEF DrainAt, Drained, dataVars

LEMMA HandleClear ==
  ASSUME MainTypeOK, ThreadsInv, NEW h \in 0 .. 25, HandlingAt(h), NEW t \in Threads, ClearRun(t)
  PROVE  ThreadsInv' /\ h < 25 /\ HandlingAt(h + 1)'
<1>1. h < 25 /\ script' = Handling(h + 1) /\ h = ClearAt[t]
  <2>1. script = Handling(h) /\ Does("clear", t) /\ script' = Tail(script)
    BY DEF ClearRun, HandlingAt
  <2>2. (h < 25 => Tail(script) = Handling(Past(h))) /\ HandlingPlace(h, "clear", t)
    BY <2>1, HandlingDoes
  <2>3. h = ClearAt[t]
    BY <2>2 DEF HandlingPlace
  <2>4. h < 25 /\ Past(h) = h + 1
    BY <2>3, PlacesApart DEF Past
  <2>. QED
    BY <2>1, <2>2, <2>3, <2>4
<1>2. /\ UNCHANGED <<thread, at, rounds, alive, frames, joinable, stalled, dataVars>>
      /\ run_' = [run_ EXCEPT ![t] = FALSE]
  BY DEF ClearRun, loopVars
<1>3. h \in {4, 10, 16, 18}
  BY <1>1, PlacesApart
<1>4. ASSUME NEW u \in Threads PROVE ThreadAt(h + 1, u)'
  <2>1. ThreadAt(h, u) /\ h \in Nat
    BY DEF HandlingAt
  <2>2. CASE u = t
    <3>1. ~run_'[t]
      BY <1>2 DEF MainTypeOK
    <3>2. PICK c \in Nat, w \in Nat :
            /\ c = ClearAt[t] /\ JoinAt[t] = c + 1 /\ w = WakeAt[ObjectOf(t)]
            /\ FreeAt[ObjectOf(t)] = w + 1 /\ c + 2 < w /\ h = c
      BY <1>1, PlacesApart
    <3>. QED
      BY <1>2, <1>3, <2>1, <2>2, <3>1, <3>2 DEF ThreadAt
  <2>3. CASE u # t
    <3>1. h \notin {ClearAt[u], JoinAt[u], WakeAt[ObjectOf(u)] - 1, WakeAt[ObjectOf(u)],
                    FreeAt[ObjectOf(u)]}
      BY <1>1, <1>3, <2>3, PlacesApart
    <3>2. /\ run_'[u] = run_[u] /\ thread'[u] = thread[u]
          /\ u \in frames' <=> u \in frames
          /\ u \in joinable' <=> u \in joinable
          /\ u \in stalled' <=> u \in stalled
          /\ ObjectOf(u) \in alive => ObjectOf(u) \in alive'
      BY <1>2, <2>3 DEF MainTypeOK
    <3>. QED
      BY <1>3, <2>1, <3>1, <3>2, ThreadNext
  <2>. QED
    BY <2>2, <2>3
<1>5. DrainAt(h + 1)'
  BY <1>2, <1>3, DrainNext DEF HandlingAt
<1>6. ThreadsInv'
  <2>1. \A u \in Threads : thread[u] = "ended" => ~run_'[u]
    BY <1>2 DEF ThreadsInv, ThreadInv, MainTypeOK
  <2>. QED
    BY <1>2, <2>1, HandlerThreads
<1>. QED
  BY <1>1, <1>4, <1>5, <1>6 DEF HandlingAt

LEMMA HandleJoin ==
  ASSUME MainTypeOK, ThreadsInv, NEW h \in 0 .. 25, HandlingAt(h), NEW t \in Threads, Join(t)
  PROVE  ThreadsInv' /\ h < 25 /\ HandlingAt(h + 1)'
<1>1. h < 25 /\ script' = Handling(h + 1) /\ h = JoinAt[t]
  <2>1. script = Handling(h) /\ Does("join", t) /\ script' = Tail(script)
    BY DEF Join, HandlingAt
  <2>2. (h < 25 => Tail(script) = Handling(Past(h))) /\ HandlingPlace(h, "join", t)
    BY <2>1, HandlingDoes
  <2>3. h = JoinAt[t]
    BY <2>2 DEF HandlingPlace
  <2>4. h < 25 /\ Past(h) = h + 1
    BY <2>3, PlacesApart DEF Past
  <2>. QED
    BY <2>1, <2>2, <2>3, <2>4
<1>2. /\ UNCHANGED <<thread, at, rounds, alive, frames, run_, stalled, dataVars>>
      /\ joinable' = joinable \ {t} /\ (t \in joinable => thread[t] = "ended")
  BY DEF Join, loopVars
<1>3. h \in {5, 11, 17, 19}
  BY <1>1, PlacesApart
<1>4. ASSUME NEW u \in Threads PROVE ThreadAt(h + 1, u)'
  <2>1. ThreadAt(h, u) /\ h \in Nat
    BY DEF HandlingAt
  <2>2. CASE u = t
    <3>1. PICK c \in Nat, w \in Nat :
            /\ c = ClearAt[t] /\ JoinAt[t] = c + 1 /\ w = WakeAt[ObjectOf(t)]
            /\ FreeAt[ObjectOf(t)] = w + 1 /\ c + 2 < w /\ h = c + 1
      BY <1>1, PlacesApart
    <3>2. h + 1 = w => FALSE
      BY <1>3, <3>1, PlacesApart
    <3>. QED
      BY <1>2, <1>3, <2>1, <2>2, <3>1, <3>2 DEF ThreadAt
  <2>3. CASE u # t
    <3>1. h \notin {ClearAt[u], JoinAt[u], WakeAt[ObjectOf(u)] - 1, WakeAt[ObjectOf(u)],
                    FreeAt[ObjectOf(u)]}
      BY <1>1, <1>3, <2>3, PlacesApart
    <3>2. /\ run_'[u] = run_[u] /\ thread'[u] = thread[u]
          /\ u \in frames' <=> u \in frames
          /\ u \in joinable' <=> u \in joinable
          /\ u \in stalled' <=> u \in stalled
          /\ ObjectOf(u) \in alive => ObjectOf(u) \in alive'
      BY <1>2, <2>3
    <3>. QED
      BY <1>3, <2>1, <3>1, <3>2, ThreadNext
  <2>. QED
    BY <2>2, <2>3
<1>5. DrainAt(h + 1)'
  BY <1>2, <1>3, DrainNext DEF HandlingAt
<1>6. ThreadsInv'
  <2>1. \A u \in Threads : thread[u] = "ended" => ~run_'[u]
    BY <1>2 DEF ThreadsInv, ThreadInv
  <2>. QED
    BY <1>2, <2>1, HandlerThreads
<1>. QED
  BY <1>1, <1>4, <1>5, <1>6 DEF HandlingAt

LEMMA HandleFree ==
  ASSUME MainTypeOK, ThreadsInv, NEW h \in 0 .. 25, HandlingAt(h), NEW o \in Objects, Free(o)
  PROVE  ThreadsInv' /\ h < 25 /\ HandlingAt(h + 1)'
<1>1. h < 25 /\ script' = Handling(h + 1) /\ h = FreeAt[o]
  <2>1. script = Handling(h) /\ Does("free", o) /\ script' = Tail(script)
    BY DEF Free, HandlingAt
  <2>2. (h < 25 => Tail(script) = Handling(Past(h))) /\ HandlingPlace(h, "free", o)
    BY <2>1, HandlingDoes
  <2>3. h = FreeAt[o]
    BY <2>2 DEF HandlingPlace
  <2>4. h < 25 /\ Past(h) = h + 1
    BY <2>3, PlacesApart DEF Past
  <2>. QED
    BY <2>1, <2>2, <2>3, <2>4
<1>2. /\ UNCHANGED <<thread, at, rounds, joinable, frames, run_, stalled, dataVars>>
      /\ alive' = alive \ {o}
  BY DEF Free, loopVars
<1>3. h \in {8, 14, 22}
  BY <1>1, PlacesApart
<1>4. ASSUME NEW u \in Threads PROVE ThreadAt(h + 1, u)'
  <2>1. ThreadAt(h, u) /\ h \in Nat
    BY DEF HandlingAt
  <2>2. CASE ObjectOf(u) = o
    <3>1. PICK c \in Nat, w \in Nat :
            /\ c = ClearAt[u] /\ JoinAt[u] = c + 1 /\ w = WakeAt[ObjectOf(u)]
            /\ FreeAt[ObjectOf(u)] = w + 1 /\ c + 2 < w /\ h = w + 1
      BY <1>1, <2>2, PlacesApart
    <3>. QED
      BY <1>2, <1>3, <2>1, <3>1 DEF ThreadAt
  <2>3. CASE ObjectOf(u) # o
    <3>1. h \notin {ClearAt[u], JoinAt[u], WakeAt[ObjectOf(u)] - 1, WakeAt[ObjectOf(u)],
                    FreeAt[ObjectOf(u)]}
      <4>1. WakeAt[ObjectOf(u)] # WakeAt[o]
        BY <2>3, PlacesApart, OpsOf
      <4>. QED
        BY <1>1, <1>3, <4>1, PlacesApart
    <3>2. /\ run_'[u] = run_[u] /\ thread'[u] = thread[u]
          /\ u \in frames' <=> u \in frames
          /\ u \in joinable' <=> u \in joinable
          /\ u \in stalled' <=> u \in stalled
          /\ ObjectOf(u) \in alive => ObjectOf(u) \in alive'
      BY <1>2, <2>3
    <3>. QED
      BY <1>3, <2>1, <3>1, <3>2, ThreadNext
  <2>. QED
    BY <2>2, <2>3
<1>5. DrainAt(h + 1)'
  BY <1>2, <1>3, DrainNext DEF HandlingAt
<1>6. ThreadsInv'
  <2>1. \A u \in Threads : thread[u] = "ended" => ~run_'[u]
    BY <1>2 DEF ThreadsInv, ThreadInv
  <2>. QED
    BY <1>2, <2>1, HandlerThreads
<1>. QED
  BY <1>1, <1>4, <1>5, <1>6 DEF HandlingAt

(* delete of a null pointer goes past the destructor; the object's threads *)
(* have never been.                                                        *)
LEMMA HandleDelete ==
  ASSUME MainTypeOK, ThreadsInv, NEW h \in 0 .. 25, HandlingAt(h), NEW o \in Objects, Delete(o)
  PROVE  ThreadsInv' /\ \E g \in 0 .. 25 : HandlingAt(g)'
<1>1. /\ script = Handling(h) /\ Does("delete", o)
      /\ script' = (IF o \in alive THEN Destructor(o) ELSE << >>) \o Tail(script)
      /\ UNCHANGED <<run_, thread, at, rounds, joinable, frames, alive, stalled, dataVars>>
  BY DEF Delete, HandlingAt, loopVars
<1>2. (h < 25 => Tail(script) = Handling(Past(h))) /\ HandlingPlace(h, "delete", o)
  BY <1>1, HandlingDoes
<1>3. \/ o = "engine" /\ h = 3 /\ Past(h) = 9
      \/ o = "server" /\ h = 9 /\ Past(h) = 15
      \/ o = "publisher" /\ h = 15 /\ Past(h) = 23
  BY <1>2 DEF HandlingPlace, Past, Objects
<1>4. Tail(script) = Handling(Past(h)) /\ Past(h) \in 0 .. 25
  BY SMTT(30), <1>2, <1>3
<1>5. ThreadsInv'
  <2>1. \A u \in Threads : thread[u] = "ended" => ~run_'[u]
    BY <1>1 DEF ThreadsInv, ThreadInv
  <2>. QED
    BY <1>1, <2>1, HandlerThreads
<1>6. CASE o \in alive
  <2>1. script' = Handling(h + 1)
    <3>1. script' = Destructor(o) \o Handling(Past(h))
      BY <1>1, <1>4, <1>6
    <3>2. \/ o = "engine" /\ Past(h) = 9 /\ h + 1 = 4
          \/ o = "server" /\ Past(h) = 15 /\ h + 1 = 10
          \/ o = "publisher" /\ Past(h) = 23 /\ h + 1 = 16
      BY <1>3
    <3>. QED
      BY <3>1, <3>2, EnterDestructor, Zenon
  <2>2. ASSUME NEW u \in Threads PROVE ThreadAt(h + 1, u)'
    <3>1. ThreadAt(h, u) /\ h \in Nat /\ h \in {3, 9, 15} /\ h # 1
      BY <1>3 DEF HandlingAt
    <3>2. h \notin {ClearAt[u], JoinAt[u], WakeAt[ObjectOf(u)] - 1, WakeAt[ObjectOf(u)],
                    FreeAt[ObjectOf(u)]}
      BY <3>1, PlacesApart
    <3>3. /\ run_'[u] = run_[u] /\ thread'[u] = thread[u]
          /\ u \in frames' <=> u \in frames
          /\ u \in joinable' <=> u \in joinable
          /\ u \in stalled' <=> u \in stalled
          /\ ObjectOf(u) \in alive => ObjectOf(u) \in alive'
      BY <1>1
    <3>. QED
      BY <3>1, <3>2, <3>3, ThreadNext
  <2>3. DrainAt(h + 1)'
    BY <1>1, <1>3, DrainNext DEF HandlingAt
  <2>4. h + 1 \in 0 .. 25
    BY <1>3
  <2>. QED
    BY <1>5, <2>1, <2>2, <2>3, <2>4 DEF HandlingAt
<1>7. CASE o \notin alive
  <2>. DEFINE g == Past(h)
  <2>1. script' = Handling(g)
    <3>1. Handling(g) \in Seq(Ops)
      BY <1>4, HandlingStep
    <3>. QED
      BY <1>1, <1>4, <1>7, <3>1, FromEnds
  <2>2. ASSUME NEW u \in Threads PROVE ThreadAt(g, u)'
    <3>1. ThreadAt(h, u)
      BY DEF HandlingAt
    <3>2. CASE ObjectOf(u) = o
      <4>1. h <= FreeAt[ObjectOf(u)]
        BY <1>3, <3>2, PlacesAre
      <4>2. ~run_[u] /\ thread[u] = "none"
        BY <1>7, <3>1, <3>2, <4>1 DEF ThreadAt
      <4>3. u \notin joinable
        BY <4>2 DEF ThreadsInv, ThreadInv
      <4>4. g > FreeAt[ObjectOf(u)] /\ g > ClearAt[u]
        BY <1>3, <3>2, PlacesAre DEF ObjectOf, Threads
      <4>5. FreeAt[ObjectOf(u)] \in Nat /\ ClearAt[u] \in Nat
        BY PlacesApart
      <4>. QED
        BY <1>1, <1>4, <4>2, <4>3, <4>4, <4>5 DEF ThreadAt
    <3>3. CASE ObjectOf(u) # o
      <4>1. /\ h <= ClearAt[u] <=> g <= ClearAt[u]
            /\ h <= JoinAt[u] <=> g <= JoinAt[u] 
            /\ h > JoinAt[u] <=> g > JoinAt[u] 
            /\ g # WakeAt[ObjectOf(u)]
            /\ h > WakeAt[ObjectOf(u)] <=> g > WakeAt[ObjectOf(u)]
            /\ h <= FreeAt[ObjectOf(u)] <=> g <= FreeAt[ObjectOf(u)]
            /\ h > 1 /\ g > 1
        BY <1>3, <3>3, PlacesAre DEF ObjectOf, Threads
      <4>. QED
        BY <1>1, <3>1, <4>1 DEF ThreadAt
    <3>. QED
      BY <3>2, <3>3
  <2>3. DrainAt(g)'
    <3>1. CASE o = "engine"
      <4>1. thread["engine"] = "none"
        <5>1. ThreadAt(h, "engine") /\ ObjectOf("engine") = "engine"
          BY DEF HandlingAt, Threads, ObjectOf
        <5>. QED
          BY <1>3, <1>7, <3>1, <5>1, PlacesAre DEF ThreadAt
      <4>2. Drained
        BY <4>1 DEF ThreadsInv, Threads
      <4>. QED
        BY <1>1, <1>3, <3>1, <4>2, PlacesAre DEF DrainAt, Drained, dataVars
    <3>2. CASE o # "engine"
      BY <1>1, <1>3, <3>2, DrainNext DEF HandlingAt
    <3>. QED
      BY <3>1, <3>2
  <2>. QED
    BY <1>4, <1>5, <2>1, <2>2, <2>3 DEF HandlingAt
<1>. QED
  BY <1>6, <1>7

LEMMA HandleSleep ==
  ASSUME MainTypeOK, ThreadsInv, NEW h \in 0 .. 25, HandlingAt(h), FallAsleep
  PROVE  ThreadsInv' /\ h < 25 /\ HandlingAt(h + 1)'
<1>1. h < 25 /\ script' = Handling(h + 1) /\ h \in {0, 6, 12, 20, 23}
  <2>1. script = Handling(h) /\ Does("sleep", "main") /\ script' = Tail(script)
    BY DEF FallAsleep, HandlingAt
  <2>2. (h < 25 => Tail(script) = Handling(Past(h))) /\ HandlingPlace(h, "sleep", "main")
    BY <2>1, HandlingDoes
  <2>3. h \in {0, 6, 12, 20, 23}
    BY <2>2, PlacesApart DEF HandlingPlace
  <2>4. h < 25 /\ Past(h) = h + 1
    BY <2>3 DEF Past
  <2>. QED
    BY <2>1, <2>2, <2>3, <2>4
<1>2. /\ UNCHANGED <<thread, at, joinable, frames, alive, run_, stalled, dataVars>>
      /\ \A t \in Threads : rounds'[t] = 0
  BY DEF FallAsleep
<1>3. ASSUME NEW u \in Threads PROVE ThreadAt(h + 1, u)'
  <2>1. ThreadAt(h, u) /\ rounds'[u] = 0
    BY <1>2 DEF HandlingAt
  <2>2. PICK c \in Nat, w \in Nat :
          /\ c = ClearAt[u] /\ JoinAt[u] = c + 1 /\ w = WakeAt[ObjectOf(u)]
          /\ FreeAt[ObjectOf(u)] = w + 1 /\ c \in {4, 10, 16, 18} /\ w \in {7, 13, 21}
    BY PlacesApart
  <2>3. /\ h <= c <=> h + 1 <= c
        /\ h <= c + 1 <=> h + 1 <= c + 1
        /\ h > c + 1 <=> h + 1 > c + 1
        /\ h > w <=> h + 1 > w
        /\ h <= w + 1 <=> h + 1 <= w + 1
        /\ h + 1 > 1 => h > 1
    BY <1>1, <2>2
  <2>. QED
    BY <1>2, <2>1, <2>2, <2>3 DEF ThreadAt
<1>4. DrainAt(h + 1)'
  <2>1. CASE h = 6
    <3>1. rounds'["server"] = 0 /\ rounds'["publisher"] = 0 /\ h + 1 = WakeAt["engine"]
      BY <1>2, <2>1, PlacesAre DEF Threads
    <3>. QED
      BY <2>1, <3>1, PlacesAre DEF DrainAt
  <2>2. CASE h # 6
    BY <1>1, <1>2, <2>2, DrainNext DEF HandlingAt
  <2>. QED
    BY <2>1, <2>2
<1>5. ThreadsInv'
  <2>1. \A u \in Threads : thread[u] = "ended" => ~run_'[u]
    BY <1>2 DEF ThreadsInv, ThreadInv
  <2>. QED
    BY <1>2, <2>1, HandlerThreads
<1>. QED
  BY <1>1, <1>3, <1>4, <1>5 DEF HandlingAt

(* A thread whose flag is cleared does not go twice round its loop.        *)
LEMMA HandleWake ==
  ASSUME SleepRounds >= 2,
         MainTypeOK, ThreadsInv, NEW h \in 0 .. 25, HandlingAt(h), WakeUp
  PROVE  ThreadsInv' /\ h < 25 /\ HandlingAt(h + 1)'
<1>1. h < 25 /\ script' = Handling(h + 1) /\ h \in {1, 7, 13, 21, 24}
  <2>1. script = Handling(h) /\ Does("wake", "main") /\ script' = Tail(script)
    BY DEF WakeUp, HandlingAt
  <2>2. (h < 25 => Tail(script) = Handling(Past(h))) /\ HandlingPlace(h, "wake", "main")
    BY <2>1, HandlingDoes
  <2>3. h \in {1, 7, 13, 21, 24}
    BY <2>2, PlacesApart DEF HandlingPlace
  <2>4. h < 25 /\ Past(h) = h + 1
    BY <2>3 DEF Past
  <2>. QED
    BY <2>1, <2>2, <2>3, <2>4
<1>2. UNCHANGED <<thread, at, rounds, joinable, frames, alive, run_, stalled, dataVars>>
  BY DEF WakeUp, loopVars
<1>3. ASSUME NEW u \in Threads
      PROVE  /\ thread[u] # "created"
             /\ thread[u] = "running" /\ u \notin stalled => rounds[u] >= 2
  <2>1. rounds[u] \in Int /\ SleepRounds \in Int
    BY ExchangeMainAssumption DEF MainTypeOK
  <2>. QED
    BY <2>1 DEF WakeUp
<1>4. ASSUME NEW u \in Threads PROVE ThreadAt(h + 1, u)'
  <2>1. ThreadAt(h, u) /\ rounds[u] \in Int /\ thread[u] \in {"none", "created", "running", "ended"}
    BY DEF HandlingAt, MainTypeOK
  <2>2. PICK c \in Nat, w \in Nat :
          /\ c = ClearAt[u] /\ JoinAt[u] = c + 1 /\ w = WakeAt[ObjectOf(u)]
          /\ FreeAt[ObjectOf(u)] = w + 1 /\ c \in {4, 10, 16, 18} /\ w \in {7, 13, 21}
    BY PlacesApart
  <2>3. /\ h <= c <=> h + 1 <= c
        /\ h <= c + 1 <=> h + 1 <= c + 1
        /\ h > c + 1 <=> h + 1 > c + 1
        /\ h + 1 > w <=> h > w \/ h = w
        /\ h <= w + 1 <=> h + 1 <= w + 1
        /\ h + 1 # w
    BY <1>1, <2>2
  <2>4. h = w /\ u \notin stalled => thread[u] \in {"none", "ended"}
    <3>. SUFFICES ASSUME h = w, u \notin stalled, thread[u] = "running" PROVE FALSE
      BY <1>3, <2>1
    <3>1. rounds[u] = 0 \/ rounds[u] = 1
      BY <2>1, <2>2 DEF ThreadAt
    <3>. QED
      BY <1>3, <3>1
  <2>. QED
    BY <1>2, <1>3, <2>1, <2>2, <2>3, <2>4 DEF ThreadAt
<1>5. DrainAt(h + 1)'
  <2>1. CASE h = 7
    <3>1. CASE thread["server"] = "none"
      BY <1>2, <2>1, <3>1, PlacesAre DEF ThreadsInv, DrainAt, Drained, dataVars
    <3>2. CASE stalled # {}
      BY <1>2, <2>1, <3>2, PlacesAre DEF DrainAt
    <3>3. CASE thread["server"] # "none" /\ stalled = {}
      <4>1. \A u \in {"server", "publisher"} : thread[u] = "running"
        <5>. SUFFICES ASSUME NEW u \in {"server", "publisher"} PROVE thread[u] = "running"
          OBVIOUS
        <5>1. u \in Threads /\ 7 <= ClearAt[u]
          BY PlacesAre DEF Threads
        <5>2. thread[u] # "none" /\ thread[u] # "created"
          BY <1>3, <3>3, <5>1 DEF ThreadsInv
        <5>3. run_[u]
          BY <2>1, <5>1, <5>2 DEF HandlingAt, ThreadAt
        <5>. QED
          BY <5>1, <5>2, <5>3 DEF ThreadsInv, ThreadInv, MainTypeOK
      <4>2. /\ rounds["server"] >= 2 /\ rounds["publisher"] >= 2
            /\ rounds["server"] \in Int /\ rounds["publisher"] \in Int
        BY <1>3, <3>3, <4>1 DEF Threads, MainTypeOK
      <4>3. Drained
        BY <2>1, <3>3, <4>2, PlacesAre DEF HandlingAt, DrainAt, Drained
      <4>. QED
        BY <1>2, <2>1, <4>3, PlacesAre DEF DrainAt, Drained, dataVars
    <3>. QED
      BY <3>1, <3>2, <3>3
  <2>2. CASE h # 7
    BY <1>1, <1>2, <2>2, DrainNext DEF HandlingAt
  <2>. QED
    BY <2>1, <2>2
<1>6. ThreadsInv'
  <2>1. \A u \in Threads : thread[u] = "ended" => ~run_'[u]
    BY <1>2 DEF ThreadsInv, ThreadInv
  <2>. QED
    BY <1>2, <2>1, HandlerThreads
<1>. QED
  BY <1>1, <1>4, <1>5, <1>6 DEF HandlingAt

LEMMA HandleClose ==
  ASSUME MainTypeOK, ThreadsInv, NEW h \in 0 .. 25, HandlingAt(h), CloseLogger
  PROVE  ThreadsInv' /\ h < 25 /\ HandlingAt(h + 1)'
<1>1. h = 2 /\ script' = Handling(h + 1)
  <2>1. script = Handling(h) /\ Does("close", "logger") /\ script' = Tail(script)
    BY DEF CloseLogger, HandlingAt
  <2>2. (h < 25 => Tail(script) = Handling(Past(h))) /\ HandlingPlace(h, "close", "logger")
    BY <2>1, HandlingDoes
  <2>3. h = 2 /\ Past(h) = h + 1
    BY <2>2 DEF HandlingPlace, Past
  <2>. QED
    BY <2>1, <2>2, <2>3
<1>2. UNCHANGED <<thread, at, rounds, joinable, frames, alive, run_, stalled, dataVars>>
  BY DEF CloseLogger, loopVars
<1>3. ASSUME NEW u \in Threads PROVE ThreadAt(h + 1, u)'
  <2>1. ThreadAt(h, u) /\ h \in Nat /\ h # 1
    BY <1>1 DEF HandlingAt
  <2>2. h \notin {ClearAt[u], JoinAt[u], WakeAt[ObjectOf(u)] - 1, WakeAt[ObjectOf(u)],
                  FreeAt[ObjectOf(u)]}
    BY <1>1, PlacesApart
  <2>3. /\ run_'[u] = run_[u] /\ thread'[u] = thread[u]
        /\ u \in frames' <=> u \in frames
        /\ u \in joinable' <=> u \in joinable
        /\ u \in stalled' <=> u \in stalled
        /\ ObjectOf(u) \in alive => ObjectOf(u) \in alive'
    BY <1>2
  <2>. QED
    BY <1>1, <2>1, <2>2, <2>3, ThreadNext
<1>4. DrainAt(h + 1)'
  BY <1>1, <1>2, DrainNext DEF HandlingAt
<1>5. ThreadsInv'
  <2>1. \A u \in Threads : thread[u] = "ended" => ~run_'[u]
    BY <1>2 DEF ThreadsInv, ThreadInv
  <2>. QED
    BY <1>2, <2>1, HandlerThreads
<1>. QED
  BY <1>1, <1>3, <1>4, <1>5 DEF HandlingAt

(* The main thread in the handler.                                         *)
LEMMA HandleMain ==
  ASSUME SleepRounds >= 2,
         MainTypeOK, ThreadsInv, NEW h \in 0 .. 25, HandlingAt(h), MainThread
  PROVE  ThreadsInv' /\ \E g \in 0 .. 25 : HandlingAt(g)'
<1>1. \A name, on : Does(name, on) => name \notin {"new", "run", "create", "return"}
  BY HandlingDoes DEF HandlingPlace, HandlingAt
<1>2. /\ \A o \in Objects : ~NewObject(o)
      /\ \A t \in Threads : ~SetRun(t) /\ ~CreateThread(t) /\ ~Return(t)
  BY <1>1 DEF NewObject, SetRun, CreateThread, Return
<1>3. h < 25 => h + 1 \in 0 .. 25
  OBVIOUS
<1>. QED
  BY <1>2, <1>3, HandleDelete, HandleFree, HandleClear, HandleJoin, HandleSleep, HandleWake,
     HandleClose
     DEF MainThread

----------------------------------------------------------------------------
(* The components' threads and the signal.                                 *)

(* Before the signal a thread goes on as long as it neither comes nor      *)
(* goes.                                                                   *)
LEMMA ThreadsStart ==
  ASSUME NEW k, StartingAt(k), UNCHANGED mainVars,
         \A t \in Threads : /\ thread'[t] = "none" <=> thread[t] = "none"
                            /\ thread'[t] = "created" => thread[t] = "created"
  PROVE  StartingAt(k)'
<1>1. ASSUME NEW t \in Threads PROVE StartedAt(k, t)'
  BY DEF StartingAt, StartedAt, mainVars
<1>. QED
  BY <1>1 DEF StartingAt, mainVars

(* Whoever begins a round has its flag still set.                          *)
LEMMA EnterStep ==
  ASSUME MainTypeOK, ThreadsInv, NEW t \in Threads, Enter(t)
  PROVE  /\ ThreadsInv'
         /\ \A k : StartingAt(k) => StartingAt(k)'
         /\ \A h \in 0 .. 25 : HandlingAt(h) => HandlingAt(h)'
<1>1. /\ UNCHANGED <<run_, joinable, frames, at, rounds, stalled>>
      /\ UNCHANGED mainVars /\ UNCHANGED dataVars
      /\ thread[t] = "created" /\ thread' = [thread EXCEPT ![t] = "running"]
  BY DEF Enter, mainVars
<1>2. thread'[t] = "running" /\ \A u \in Threads : u # t => thread'[u] = thread[u]
  BY <1>1 DEF MainTypeOK
<1>3. ThreadsInv'
  <2>1. ASSUME NEW u \in Threads PROVE ThreadInv(u)'
    BY <1>1, <1>2 DEF ThreadsInv, ThreadInv
  <2>2. \A u \in Threads : thread'[u] = "none" <=> thread[u] = "none"
    BY <1>1, <1>2
  <2>. QED
    BY <1>1, <2>1, <2>2 DEF ThreadsInv, Drained, dataVars, Threads
<1>4. ASSUME NEW h \in 0 .. 25, HandlingAt(h) PROVE HandlingAt(h)'
  <2>1. h <= 1 /\ t \in frames
    BY <1>1, <1>4 DEF HandlingAt, ThreadAt, ThreadsInv, ThreadInv
  <2>2. ASSUME NEW u \in Threads PROVE ThreadAt(h, u)'
    <3>1. ThreadAt(h, u)
      BY <1>4 DEF HandlingAt
    <3>2. PICK c \in Nat, w \in Nat :
            /\ c = ClearAt[u] /\ JoinAt[u] = c + 1 /\ w = WakeAt[ObjectOf(u)]
            /\ FreeAt[ObjectOf(u)] = w + 1 /\ c \in {4, 10, 16, 18} /\ w \in {7, 13, 21}
      BY PlacesApart
    <3>3. h <= c /\ h <= c + 1 /\ ~(h > c + 1) /\ h # w /\ ~(h > w)
      BY <2>1, <3>2
    <3>4. thread'[u] # "none" => thread[u] # "none"
      BY <1>1, <1>2
    <3>. QED
      BY <1>1, <1>2, <2>1, <3>1, <3>2, <3>3, <3>4, OpsOf DEF ThreadAt, mainVars
  <2>3. DrainAt(h)'
    BY <2>1, PlacesAre DEF DrainAt
  <2>. QED
    BY <1>1, <1>4, <2>2, <2>3 DEF HandlingAt, mainVars
<1>5. ASSUME NEW k, StartingAt(k) PROVE StartingAt(k)'
  BY <1>1, <1>2, <1>5, ThreadsStart
<1>. QED
  BY <1>3, <1>4, <1>5

LEMMA EndStep ==
  ASSUME MainTypeOK, ThreadsInv, NEW t \in Threads, End(t)
  PROVE  /\ ThreadsInv'
         /\ \A k : StartingAt(k) => StartingAt(k)'
         /\ \A h \in 0 .. 25 : HandlingAt(h) => HandlingAt(h)'
<1>1. /\ UNCHANGED <<run_, joinable, frames, at, rounds, stalled>>
      /\ UNCHANGED mainVars /\ UNCHANGED dataVars
      /\ thread[t] = "running" /\ t \notin stalled /\ ~run_[t] /\ at[t] = "test"
      /\ thread' = [thread EXCEPT ![t] = "ended"]
  BY DEF End, mainVars
<1>2. thread'[t] = "ended" /\ \A u \in Threads : u # t => thread'[u] = thread[u]
  BY <1>1 DEF MainTypeOK
<1>3. ThreadsInv'
  <2>1. ASSUME NEW u \in Threads PROVE ThreadInv(u)'
    BY <1>1, <1>2 DEF ThreadsInv, ThreadInv
  <2>2. \A u \in Threads : thread'[u] = "none" <=> thread[u] = "none"
    BY <1>1, <1>2
  <2>. QED
    BY <1>1, <2>1, <2>2 DEF ThreadsInv, Drained, dataVars, Threads
<1>4. ASSUME NEW h \in 0 .. 25, HandlingAt(h) PROVE HandlingAt(h)'
  <2>1. ASSUME NEW u \in Threads PROVE ThreadAt(h, u)'
    <3>1. ThreadAt(h, u)
      BY <1>4 DEF HandlingAt
    <3>2. thread'[u] # "none" <=> thread[u] # "none"
      BY <1>1, <1>2
    <3>3. thread'[u] = "running" => thread[u] = "running"
      BY <1>1, <1>2
    <3>4. thread'[u] = thread[u] \/ thread'[u] = "ended"
      BY <1>1, <1>2
    <3>. QED
      BY <1>1, <3>1, <3>2, <3>3, <3>4 DEF ThreadAt, mainVars
  <2>2. DrainAt(h)'
    <3>1. thread'["server"] # "none" <=> thread["server"] # "none"
      BY <1>1, <1>2 DEF Threads
    <3>. QED
      BY <1>1, <1>4, <3>1 DEF HandlingAt, DrainAt, Drained, dataVars
  <2>. QED
    BY <1>1, <1>4, <2>1, <2>2 DEF HandlingAt, mainVars
<1>5. ASSUME NEW k, StartingAt(k) PROVE StartingAt(k)'
  BY <1>1, <1>2, <1>5, ThreadsStart
<1>. QED
  BY <1>3, <1>4, <1>5

(* A round or a part of one: where the handler can be, and what the data   *)
(* may do.                                                                 *)
LEMMA RoundStep ==
  ASSUME MainTypeOK, ThreadsInv, NEW t \in Threads, thread[t] = "running",
         UNCHANGED mainVars, UNCHANGED <<thread, stalled>>,
         \A u \in Threads : u # t => at'[u] = at[u] /\ rounds'[u] = rounds[u],
         at'[t] = "respond" => t = "server", at'[t] = "flush" => t = "publisher",
         \/ at[t] = "test" /\ run_[t]
         \/ at[t] # "test" /\ at'[t] = "test" /\ rounds'[t] \in {rounds[t], rounds[t] + 1},
         Drained /\ client_requests = 0 /\ thread["server"] = "none"
           => Drained' /\ client_requests' = 0,
         \A h \in 0 .. 25 : HandlingAt(h) => DrainAt(h)'
  PROVE  /\ ThreadsInv'
         /\ \A k : StartingAt(k) => StartingAt(k)'
         /\ \A h \in 0 .. 25 : HandlingAt(h) => HandlingAt(h)'
<1>1. UNCHANGED <<run_, joinable, frames, alive, script, signalled, thread, stalled>>
  BY DEF mainVars
<1>2. ThreadsInv'
  <2>1. ASSUME NEW u \in Threads PROVE ThreadInv(u)'
    BY <1>1 DEF ThreadsInv, ThreadInv
  <2>. QED
    BY <1>1, <2>1 DEF ThreadsInv
<1>3. ASSUME NEW h \in 0 .. 25, HandlingAt(h) PROVE HandlingAt(h)'
  <2>1. ASSUME NEW u \in Threads PROVE ThreadAt(h, u)'
    <3>1. ThreadAt(h, u)
      BY <1>3 DEF HandlingAt
    <3>2. CASE u # t
      BY <1>1, <3>1, <3>2 DEF ThreadAt
    <3>3. CASE u = t /\ at[t] = "test" /\ run_[t]
      <4>1. h <= ClearAt[t]
        <5>1. ClearAt[t] \in Int
          BY PlacesApart
        <5>. QED
          BY <3>1, <3>3, <5>1 DEF ThreadAt
      <4>2. h # WakeAt[ObjectOf(t)]
        BY <4>1, PlacesApart
      <4>. QED
        BY <1>1, <3>1, <3>3, <4>2 DEF ThreadAt
    <3>4. CASE u = t /\ at[t] # "test"
      <4>1. rounds[t] \in Int
        BY DEF MainTypeOK
      <4>2. h = WakeAt[ObjectOf(t)] => rounds'[t] = 0 \/ (rounds'[t] = 1 /\ at'[t] = "test")
        BY <3>1, <3>4, <4>1 DEF ThreadAt
      <4>. QED
        BY <1>1, <3>1, <3>4, <4>2 DEF ThreadAt
    <3>. QED
      BY <3>2, <3>3, <3>4
  <2>. QED
    BY <1>1, <1>3, <2>1 DEF HandlingAt
<1>4. ASSUME NEW k, StartingAt(k) PROVE StartingAt(k)'
  BY <1>4, ThreadsStart
<1>. QED
  BY <1>2, <1>3, <1>4

(* Nobody begins a round after the flag is cleared.                        *)
LEMMA BeginsBefore ==
  ASSUME NEW t \in Threads, run_[t], NEW h \in 0 .. 25, HandlingAt(h)
  PROVE  h <= ClearAt[t]
<1>1. ClearAt[t] \in Int
  BY PlacesApart
<1>. QED
  BY <1>1 DEF HandlingAt, ThreadAt

LEMMA RoundCounts ==
  ASSUME MainTypeOK, NEW t \in Threads, Round(t)
  PROVE  /\ rounds' \in [Threads -> 0 .. SleepRounds]
         /\ rounds'[t] \in {rounds[t], rounds[t] + 1}
         /\ \A u \in Threads : u # t => rounds'[u] = rounds[u]
         /\ SleepRounds >= 2 /\ rounds'[t] >= 2 => rounds[t] >= 1
<1>1. SleepRounds \in Nat /\ rounds[t] \in 0 .. SleepRounds
  BY ExchangeMainAssumption DEF MainTypeOK
<1>. QED
  BY <1>1 DEF Round, MainTypeOK

LEMMA EngineStep ==
  ASSUME MainTypeOK, ThreadsInv, EngineRound
  PROVE  /\ MainTypeOK' /\ ThreadsInv'
         /\ \A k : StartingAt(k) => StartingAt(k)'
         /\ \A h \in 0 .. 25 : HandlingAt(h) => HandlingAt(h)'
<1>1. /\ "engine" \in Threads /\ thread["engine"] = "running" /\ at["engine"] = "test"
      /\ run_["engine"] /\ Round("engine") /\ UNCHANGED mainVars /\ UNCHANGED <<thread, at, stalled>>
  BY DEF EngineRound, Begins, mainVars, Threads
<1>2. /\ rounds' \in [Threads -> 0 .. SleepRounds]
      /\ \A u \in Threads : u # "engine" => rounds'[u] = rounds[u]
  BY <1>1, RoundCounts
<1>3. PICK n \in {0, 1} :
        /\ n = IF client_requests > 0 THEN 1 ELSE 0
        /\ client_requests' = client_requests - n
        /\ client_responses' = client_responses + n
        /\ market_updates' = market_updates + n
  BY DEF EngineRound
<1>4. UNCHANGED <<asked, snapshot_updates, send_buffers, incremental_buffer>>
  BY DEF EngineRound
<1>5. MainTypeOK'
  BY <1>1, <1>2, <1>3, <1>4 DEF MainTypeOK, mainVars
<1>6. Drained /\ client_requests = 0 => Drained' /\ client_requests' = 0
  BY <1>3, <1>4 DEF Drained
<1>7. ASSUME NEW h \in 0 .. 25, HandlingAt(h) PROVE DrainAt(h)'
  <2>1. h <= 4
    BY <1>1, <1>7, BeginsBefore, PlacesAre
  <2>. QED
    BY <2>1, PlacesAre DEF DrainAt
<1>. QED
  BY <1>1, <1>2, <1>5, <1>6, <1>7, RoundStep

LEMMA SendStep ==
  ASSUME MainTypeOK, ThreadsInv, ServerSendAndRecv
  PROVE  /\ MainTypeOK' /\ ThreadsInv'
         /\ \A k : StartingAt(k) => StartingAt(k)'
         /\ \A h \in 0 .. 25 : HandlingAt(h) => HandlingAt(h)'
<1>1. /\ "server" \in Threads /\ thread["server"] = "running" /\ at["server"] = "test"
      /\ run_["server"] /\ UNCHANGED mainVars /\ UNCHANGED <<thread, rounds, stalled>>
      /\ at' = [at EXCEPT !["server"] = "respond"] /\ send_buffers' = 0
      /\ UNCHANGED <<client_responses, market_updates, snapshot_updates, incremental_buffer>>
  BY DEF ServerSendAndRecv, Begins, mainVars, Threads
<1>2. at'["server"] = "respond" /\ \A u \in Threads : u # "server" => at'[u] = at[u]
  BY <1>1 DEF MainTypeOK
<1>3. PICK n \in 0 .. MaxRequests - asked :
        asked' = asked + n /\ client_requests' = client_requests + n
  BY DEF ServerSendAndRecv
<1>4. MaxRequests - asked \in Int /\ n \in Nat
  BY ExchangeMainAssumption DEF MainTypeOK
<1>5. MainTypeOK'
  BY <1>1, <1>3, <1>4 DEF MainTypeOK, mainVars
<1>6. ASSUME NEW h \in 0 .. 25, HandlingAt(h) PROVE DrainAt(h)'
  <2>1. DrainAt(h) /\ at'["publisher"] = at["publisher"]
    BY <1>2, <1>6 DEF HandlingAt, Threads
  <2>. QED
    BY <1>1, <2>1 DEF DrainAt, Drained
<1>. QED
  BY <1>1, <1>2, <1>5, <1>6, RoundStep

LEMMA RespondStep ==
  ASSUME SleepRounds >= 2, MainTypeOK, ThreadsInv, ServerRespond
  PROVE  /\ MainTypeOK' /\ ThreadsInv'
         /\ \A k : StartingAt(k) => StartingAt(k)'
         /\ \A h \in 0 .. 25 : HandlingAt(h) => HandlingAt(h)'
<1>1. /\ "server" \in Threads /\ "publisher" \in Threads
      /\ at["server"] = "respond" /\ thread["server"] = "running"
      /\ Round("server") /\ UNCHANGED mainVars /\ UNCHANGED <<thread, stalled>>
      /\ at' = [at EXCEPT !["server"] = "test"]
      /\ send_buffers' = send_buffers + client_responses /\ client_responses' = 0
      /\ UNCHANGED <<asked, client_requests, market_updates, snapshot_updates, incremental_buffer>>
  BY DEF ServerRespond, mainVars, Threads, ThreadsInv, ThreadInv
<1>2. at'["server"] = "test" /\ \A u \in Threads : u # "server" => at'[u] = at[u]
  BY <1>1 DEF MainTypeOK
<1>3. /\ rounds' \in [Threads -> 0 .. SleepRounds]
      /\ rounds'["server"] \in {rounds["server"], rounds["server"] + 1}
      /\ \A u \in Threads : u # "server" => rounds'[u] = rounds[u]
      /\ rounds'["server"] >= 2 => rounds["server"] >= 1
  BY <1>1, RoundCounts
<1>4. MainTypeOK'
  <2>1. send_buffers' \in Nat /\ client_responses' \in Nat
    BY <1>1 DEF MainTypeOK
  <2>2. at' \in [Threads -> {"test", "respond", "flush"}]
    BY <1>1 DEF MainTypeOK
  <2>. QED
    BY <1>1, <1>3, <2>1, <2>2 DEF MainTypeOK, mainVars
<1>5. ASSUME NEW h \in 0 .. 25, HandlingAt(h) PROVE DrainAt(h)'
  <2>1. DrainAt(h) /\ at'["publisher"] = at["publisher"] /\ rounds'["publisher"] = rounds["publisher"]
    BY <1>1, <1>2, <1>3, <1>5 DEF HandlingAt
  <2>2. h > WakeAt["engine"] /\ stalled = {} => Drained'
    BY <1>1, <2>1 DEF DrainAt, Drained
  <2>3. h = WakeAt["engine"] /\ thread["server"] # "none" /\ rounds'["server"] >= 2 => send_buffers' = 0
    BY <1>1, <1>3, <2>1 DEF DrainAt
  <2>. QED
    BY <1>1, <1>2, <2>1, <2>2, <2>3 DEF DrainAt
<1>. QED
  BY <1>1, <1>2, <1>3, <1>4, <1>5, RoundStep

LEMMA NumberStep ==
  ASSUME MainTypeOK, ThreadsInv, PublisherNumber
  PROVE  /\ MainTypeOK' /\ ThreadsInv'
         /\ \A k : StartingAt(k) => StartingAt(k)'
         /\ \A h \in 0 .. 25 : HandlingAt(h) => HandlingAt(h)'
<1>1. /\ "server" \in Threads /\ "publisher" \in Threads /\ thread["publisher"] = "running"
      /\ at["publisher"] = "test" /\ run_["publisher"] /\ UNCHANGED mainVars
      /\ UNCHANGED <<thread, rounds, stalled>> /\ at' = [at EXCEPT !["publisher"] = "flush"]
      /\ incremental_buffer' = incremental_buffer + market_updates /\ market_updates' = 0
      /\ snapshot_updates' = snapshot_updates + market_updates
      /\ UNCHANGED <<asked, client_requests, client_responses, send_buffers>>
  BY DEF PublisherNumber, Begins, mainVars, Threads
<1>2. at'["publisher"] = "flush" /\ \A u \in Threads : u # "publisher" => at'[u] = at[u]
  BY <1>1 DEF MainTypeOK
<1>3. MainTypeOK'
  BY <1>1 DEF MainTypeOK, mainVars
<1>4. Drained => Drained'
  BY <1>1 DEF Drained
<1>5. ASSUME NEW h \in 0 .. 25, HandlingAt(h) PROVE DrainAt(h)'
  <2>1. DrainAt(h) /\ at'["server"] = at["server"]
    BY <1>1, <1>2, <1>5 DEF HandlingAt
  <2>2. h = WakeAt["engine"] /\ thread["server"] # "none" /\ rounds["publisher"] >= 2 =>
          incremental_buffer' = 0
    BY <1>1, <2>1 DEF DrainAt
  <2>. QED
    BY <1>1, <1>2, <1>4, <2>1, <2>2 DEF DrainAt
<1>. QED
  BY <1>1, <1>2, <1>3, <1>4, <1>5, RoundStep

LEMMA FlushStep ==
  ASSUME SleepRounds >= 2, MainTypeOK, ThreadsInv, PublisherFlush
  PROVE  /\ MainTypeOK' /\ ThreadsInv'
         /\ \A k : StartingAt(k) => StartingAt(k)'
         /\ \A h \in 0 .. 25 : HandlingAt(h) => HandlingAt(h)'
<1>1. /\ "server" \in Threads /\ "publisher" \in Threads
      /\ at["publisher"] = "flush" /\ thread["publisher"] = "running"
      /\ Round("publisher") /\ UNCHANGED mainVars /\ UNCHANGED <<thread, stalled>>
      /\ at' = [at EXCEPT !["publisher"] = "test"] /\ incremental_buffer' = 0
      /\ UNCHANGED <<asked, client_requests, client_responses, market_updates, snapshot_updates,
                     send_buffers>>
  BY DEF PublisherFlush, mainVars, Threads, ThreadsInv, ThreadInv
<1>2. at'["publisher"] = "test" /\ \A u \in Threads : u # "publisher" => at'[u] = at[u]
  BY <1>1 DEF MainTypeOK
<1>3. /\ rounds' \in [Threads -> 0 .. SleepRounds]
      /\ rounds'["publisher"] \in {rounds["publisher"], rounds["publisher"] + 1}
      /\ \A u \in Threads : u # "publisher" => rounds'[u] = rounds[u]
      /\ rounds'["publisher"] >= 2 => rounds["publisher"] >= 1
  BY <1>1, RoundCounts
<1>4. MainTypeOK'
  BY <1>1, <1>3 DEF MainTypeOK, mainVars
<1>5. Drained => Drained'
  BY <1>1 DEF Drained
<1>6. ASSUME NEW h \in 0 .. 25, HandlingAt(h) PROVE DrainAt(h)'
  <2>1. DrainAt(h) /\ at'["server"] = at["server"] /\ rounds'["server"] = rounds["server"]
    BY <1>1, <1>2, <1>3, <1>6 DEF HandlingAt
  <2>2. h = WakeAt["engine"] /\ thread["server"] # "none" /\ rounds'["publisher"] >= 2 =>
          market_updates' = 0
    BY <1>1, <1>3, <2>1 DEF DrainAt
  <2>. QED
    BY <1>1, <1>2, <1>5, <2>1, <2>2 DEF DrainAt
<1>. QED
  BY <1>1, <1>2, <1>3, <1>4, <1>5, <1>6, RoundStep

LEMMA SynthetizerStep ==
  ASSUME MainTypeOK, ThreadsInv, SynthetizerRound
  PROVE  /\ MainTypeOK' /\ ThreadsInv'
         /\ \A k : StartingAt(k) => StartingAt(k)'
         /\ \A h \in 0 .. 25 : HandlingAt(h) => HandlingAt(h)'
<1>1. /\ "server" \in Threads /\ "publisher" \in Threads /\ "synthetizer" \in Threads
      /\ thread["synthetizer"] = "running" /\ at["synthetizer"] = "test" /\ run_["synthetizer"]
      /\ Round("synthetizer") /\ UNCHANGED mainVars /\ UNCHANGED <<thread, at, stalled>>
      /\ snapshot_updates' = 0
      /\ UNCHANGED <<asked, client_requests, client_responses, market_updates, send_buffers,
                     incremental_buffer>>
  BY DEF SynthetizerRound, Begins, mainVars, Threads
<1>2. /\ rounds' \in [Threads -> 0 .. SleepRounds]
      /\ \A u \in Threads : u # "synthetizer" => rounds'[u] = rounds[u]
  BY <1>1, RoundCounts
<1>3. MainTypeOK'
  BY <1>1, <1>2 DEF MainTypeOK, mainVars
<1>4. ASSUME NEW h \in 0 .. 25, HandlingAt(h) PROVE DrainAt(h)'
  BY <1>1, <1>2, <1>4 DEF HandlingAt, DrainAt, Drained
<1>. QED
  BY <1>1, <1>2, <1>3, <1>4, RoundStep DEF Drained

(* Who stalls stays where it is; nothing is claimed to drain any more.     *)
LEMMA StallStep ==
  ASSUME MainTypeOK, ThreadsInv, StallMain \/ \E t \in Threads : Stall(t)
  PROVE  /\ MainTypeOK' /\ ThreadsInv' /\ signalled' = signalled
         /\ \A k : StartingAt(k) => StartingAt(k)'
         /\ \A h \in 0 .. 25 : HandlingAt(h) => HandlingAt(h)'
<1>1. PICK w \in Threads \cup {"main"} :
        /\ stalled' = stalled \cup {w} /\ (w \in Threads => thread[w] = "running")
        /\ UNCHANGED mainVars /\ UNCHANGED <<thread, at, rounds>> /\ UNCHANGED dataVars
  <2>1. CASE StallMain
    BY <2>1 DEF StallMain, Threads
  <2>2. ASSUME NEW t \in Threads, Stall(t)
        PROVE  /\ stalled' = stalled \cup {t} /\ thread[t] = "running"
               /\ UNCHANGED mainVars /\ UNCHANGED <<thread, at, rounds>> /\ UNCHANGED dataVars
    BY <2>2 DEF Stall
  <2>. QED
    BY <2>1, <2>2
<1>2. UNCHANGED <<run_, joinable, frames, alive, script, signalled>>
  BY <1>1 DEF mainVars
<1>3. MainTypeOK'
  BY <1>1, <1>2 DEF MainTypeOK, dataVars
<1>4. ThreadsInv'
  <2>1. ASSUME NEW u \in Threads PROVE ThreadInv(u)'
    BY <1>1, <1>2 DEF ThreadsInv, ThreadInv
  <2>. QED
    BY <1>1, <1>2, <2>1 DEF ThreadsInv, Drained, dataVars
<1>5. ASSUME NEW h \in 0 .. 25, HandlingAt(h) PROVE HandlingAt(h)'
  <2>1. ASSUME NEW u \in Threads PROVE ThreadAt(h, u)'
    <3>1. ThreadAt(h, u) /\ (u \notin stalled' => u \notin stalled)
      BY <1>1, <1>5 DEF HandlingAt
    <3>. QED
      BY <1>1, <1>2, <3>1 DEF ThreadAt
  <2>2. DrainAt(h)'
    <3>1. DrainAt(h) /\ stalled' # {}
      BY <1>1, <1>5 DEF HandlingAt
    <3>. QED
      BY <1>1, <3>1 DEF DrainAt, dataVars
  <2>. QED
    BY <1>2, <1>5, <2>1, <2>2 DEF HandlingAt
<1>6. ASSUME NEW k, StartingAt(k) PROVE StartingAt(k)'
  BY <1>1, <1>6, ThreadsStart
<1>. QED
  BY <1>2, <1>3, <1>4, <1>5, <1>6

(* The signal may come at any point of start-up.                           *)
LEMMA SignalStep ==
  ASSUME MainTypeOK, ThreadsInv, NEW k \in 1 .. 24, StartingAt(k), Signal
  PROVE  ThreadsInv' /\ HandlingAt(0)'
<1>1. /\ script' = SignalHandler /\ stalled' \subseteq stalled
      /\ UNCHANGED <<alive, run_, joinable, frames, thread, at, rounds, dataVars>>
  BY DEF Signal, loopVars
<1>2. script' = Handling(0)
  <2>1. Handling(0) = Handler(0 + 1) /\ 0 + 1 = 1
    BY HandlingIs
  <2>. QED
    BY <1>1, <2>1, HandlerIsOps, FromEnds DEF Handler
<1>3. ASSUME NEW t \in Threads PROVE ThreadAt(0, t)'
  <2>1. StartedAt(k, t) /\ (ObjectOf(t) \in alive <=> NewAt[ObjectOf(t)] < k)
    BY OpsOf DEF StartingAt
  <2>2. PICK c \in Nat, n \in Nat : c = CreateAt[t] /\ n = NewAt[ObjectOf(t)] /\ n + 1 < c
    <3>1. CreateAt[t] \in Nat /\ NewAt[ObjectOf(t)] \in Nat /\ NewAt[ObjectOf(t)] + 1 < CreateAt[t]
      BY CreatedApart, OpsOf
    <3>. QED
      BY <3>1
  <2>3. /\ thread[t] # "none" => run_[t]
        /\ thread[t] # "none" /\ t \notin frames => t \in joinable
        /\ run_[t] \/ thread[t] # "none" => ObjectOf(t) \in alive
    BY <2>1, <2>2 DEF StartedAt
  <2>4. PICK c2 \in Nat, w \in Nat :
          /\ c2 = ClearAt[t] /\ JoinAt[t] = c2 + 1 /\ w = WakeAt[ObjectOf(t)]
          /\ FreeAt[ObjectOf(t)] = w + 1 /\ c2 \in {4, 10, 16, 18} /\ w \in {7, 13, 21}
    BY PlacesApart
  <2>. QED
    BY <1>1, <2>3, <2>4 DEF ThreadAt
<1>4. DrainAt(0)'
  BY PlacesAre DEF DrainAt
<1>5. ThreadsInv'
  <2>1. \A t \in Threads : thread[t] = "ended" => ~run_'[t]
    BY <1>1 DEF ThreadsInv, ThreadInv
  <2>. QED
    BY <1>1, <2>1, HandlerThreads
<1>. QED
  BY <1>2, <1>3, <1>4, <1>5 DEF HandlingAt

----------------------------------------------------------------------------
(* The invariant.                                                          *)

LEMMA MainTypes ==
  ASSUME MainTypeOK, MainThread \/ Signal \/ \E t \in Threads : Starts(t)
  PROVE  MainTypeOK'
<1>. USE DEF MainTypeOK, mainVars, loopVars, dataVars
<1>1. ASSUME NEW o \in Objects, NewObject(o) \/ Delete(o) \/ Free(o) PROVE MainTypeOK'
  BY <1>1 DEF NewObject, Delete, Free
<1>2. ASSUME NEW t \in Threads, SetRun(t) \/ ClearRun(t) PROVE MainTypeOK'
  BY <1>2 DEF SetRun, ClearRun
<1>3. ASSUME NEW t \in Threads, CreateThread(t) \/ Return(t) \/ Join(t) PROVE MainTypeOK'
  BY <1>3 DEF CreateThread, Return, Join
<1>4. CASE FallAsleep
  <2>1. 0 \in 0 .. SleepRounds
    BY ExchangeMainAssumption
  <2>. QED
    BY <1>4, <2>1 DEF FallAsleep
<1>5. CASE WakeUp \/ Signal \/ CloseLogger
  BY <1>5 DEF WakeUp, Signal, CloseLogger
<1>6. ASSUME NEW t \in Threads, Starts(t) PROVE MainTypeOK'
  BY <1>6 DEF Starts, Enter, End
<1>. QED
  BY <1>1, <1>2, <1>3, <1>4, <1>5, <1>6 DEF MainThread

LEMMA MainInit == Init => MainInv
<1>. SUFFICES ASSUME Init PROVE MainInv
  OBVIOUS
<1>1. 0 \in 0 .. SleepRounds
  BY ExchangeMainAssumption
<1>2. MainTypeOK
  BY <1>1 DEF Init, MainTypeOK
<1>3. ThreadsInv
  BY DEF Init, ThreadsInv, ThreadInv, Drained, Threads
<1>4. script = From(Startup, 1)
  BY StartupIsOps, FromEnds DEF Init
<1>5. \A t \in Threads : StartedAt(1, t)
  <2>. SUFFICES ASSUME NEW t \in Threads PROVE StartedAt(1, t)
    OBVIOUS
  <2>1. PICK c \in Nat : c = CreateAt[t] /\ c > 1
    BY CreatedApart
  <2>. QED
    BY <2>1 DEF Init, StartedAt
<1>6. \A o \in Objects : ~(NewAt[o] < 1) /\ o \notin alive
  BY CreatedApart DEF Init
<1>. QED
  BY <1>2, <1>3, <1>4, <1>5, <1>6 DEF Init, MainInv, StartingAt

LEMMA MainStep ==
  ASSUME SleepRounds >= 2, MainInv, [Next]_vars
  PROVE  MainInv'
<1>. DEFINE Somewhere == IF signalled THEN \E h \in 0 .. 25 : HandlingAt(h)
                         ELSE \E k \in 1 .. 24 : StartingAt(k)
<1>1. MainTypeOK /\ ThreadsInv /\ Somewhere
  BY DEF MainInv
<1>2. CASE MainThread
  <2>1. MainTypeOK'
    BY <1>1, <1>2, MainTypes
  <2>2. signalled' = signalled
    BY <1>2 DEF MainThread, NewObject, Delete, Free, SetRun, CreateThread, Return, ClearRun, Join,
                FallAsleep, WakeUp, CloseLogger
  <2>3. CASE signalled
    <3>1. PICK h \in 0 .. 25 : HandlingAt(h)
      BY <1>1, <2>3
    <3>2. ThreadsInv' /\ \E g \in 0 .. 25 : HandlingAt(g)'
      BY <1>1, <1>2, <3>1, HandleMain
    <3>. QED
      BY <2>1, <2>2, <2>3, <3>2 DEF MainInv
  <2>4. CASE ~signalled
    <3>1. PICK k \in 1 .. 24 : StartingAt(k)
      BY <1>1, <2>4
    <3>2. ThreadsInv' /\ k < 24 /\ StartingAt(k + 1)'
      BY <1>1, <1>2, <3>1, StartMain
    <3>3. k + 1 \in 1 .. 24
      BY <3>2
    <3>. QED
      BY <2>1, <2>2, <2>4, <3>2, <3>3 DEF MainInv
  <2>. QED
    BY <1>1, <2>3, <2>4 DEF MainTypeOK
<1>3. CASE Signal
  <2>1. ~signalled /\ signalled'
    BY <1>3 DEF Signal
  <2>2. PICK k \in 1 .. 24 : StartingAt(k)
    BY <1>1, <2>1
  <2>3. MainTypeOK' /\ ThreadsInv' /\ HandlingAt(0)'
    BY <1>1, <1>3, <2>2, SignalStep, MainTypes
  <2>. QED
    BY <2>1, <2>3 DEF MainInv
<1>4. ASSUME MainTypeOK', ThreadsInv', signalled' = signalled,
             \A k : StartingAt(k) => StartingAt(k)',
             \A h \in 0 .. 25 : HandlingAt(h) => HandlingAt(h)'
      PROVE  MainInv'
  BY <1>1, <1>4 DEF MainInv
<1>5. ASSUME NEW t \in Threads, Starts(t) PROVE MainInv'
  <2>1. MainTypeOK' /\ signalled' = signalled
    BY <1>1, <1>5, MainTypes DEF Starts, Enter, End, mainVars
  <2>. QED
    BY <1>1, <1>4, <1>5, <2>1, EnterStep, EndStep DEF Starts
<1>6. CASE EngineRound
  BY <1>1, <1>4, <1>6, EngineStep DEF EngineRound, mainVars
<1>7. CASE ServerSendAndRecv
  BY <1>1, <1>4, <1>7, SendStep DEF ServerSendAndRecv, mainVars
<1>8. CASE ServerRespond
  BY <1>1, <1>4, <1>8, RespondStep DEF ServerRespond, mainVars
<1>9. CASE PublisherNumber
  BY <1>1, <1>4, <1>9, NumberStep DEF PublisherNumber, mainVars
<1>10. CASE PublisherFlush
  BY <1>1, <1>4, <1>10, FlushStep DEF PublisherFlush, mainVars
<1>11. CASE SynthetizerRound
  BY <1>1, <1>4, <1>11, SynthetizerStep DEF SynthetizerRound, mainVars
<1>12. CASE UNCHANGED vars
  <2>1. UNCHANGED <<script, signalled, alive, run_, joinable, frames, thread, at, rounds, stalled>>
        /\ UNCHANGED dataVars
    BY <1>12 DEF vars, mainVars, loopVars
  <2>2. MainTypeOK' /\ ThreadsInv' /\ Drained' = Drained
    BY <1>1, <2>1 DEF dataVars, MainTypeOK, ThreadsInv, ThreadInv, Drained
  <2>3. \A k : StartingAt(k)' = StartingAt(k)
    BY <2>1 DEF StartingAt, StartedAt
  <2>4. \A h : HandlingAt(h)' = HandlingAt(h)
    <3>1. \A h : DrainAt(h)' = DrainAt(h)
      BY <2>1, <2>2 DEF DrainAt, dataVars
    <3>2. \A h, t : ThreadAt(h, t)' = ThreadAt(h, t)
      BY <2>1 DEF ThreadAt
    <3>. QED
      BY <2>1, <3>1, <3>2 DEF HandlingAt
  <2>. QED
    BY <1>1, <2>1, <2>2, <2>3, <2>4 DEF MainInv
<1>13. CASE StallMain \/ \E t \in Threads : Stall(t)
  BY <1>1, <1>4, <1>13, StallStep
<1>. QED
  BY <1>2, <1>3, <1>5, <1>6, <1>7, <1>8, <1>9, <1>10, <1>11, <1>12, <1>13
     DEF Next, Server, Publisher, Threads

(* If a sleep leaves time for two rounds of a loop, at each point of       *)
(* start-up and shut-down those objects and threads are there that main's  *)
(* script says, whenever the signal comes (signal_handler,                 *)
(* createAndStartThread, the destructors).                                 *)
THEOREM MainInvariant ==
  ASSUME SleepRounds >= 2
  PROVE  Spec => []MainInv
<1>1. Init => MainInv
  BY MainInit
<1>2. MainInv /\ [Next]_vars => MainInv'
  BY MainStep
<1>. QED
  BY <1>1, <1>2, PTL DEF Spec

(* Then no thread runs on in an object that is gone, not even the one that *)
(* the signal finds half created, which is never joined (~MatchingEngine,  *)
(* ~OrderServer, ~MarketDataPublisher); one that stalls in its logger may  *)
(* be left behind there, but it does not run.                              *)
THEOREM ThreadsEndInTime ==
  ASSUME SleepRounds >= 2
  PROVE  Spec => []ObjectsOutliveThreads
<1>1. MainInv => ObjectsOutliveThreads
  <2>. SUFFICES ASSUME MainInv, NEW t \in Threads, thread[t] \in {"created", "running"},
                       t \notin stalled
                PROVE  ObjectOf(t) \in alive
    BY DEF ObjectsOutliveThreads
  <2>1. CASE signalled
    <3>1. PICK h \in 0 .. 25 : ThreadAt(h, t)
      BY <2>1 DEF MainInv, HandlingAt
    <3>2. ~(h > WakeAt[ObjectOf(t)])
      BY <3>1 DEF ThreadAt
    <3>3. h <= FreeAt[ObjectOf(t)]
      BY <3>2, PlacesApart
    <3>. QED
      BY <3>1, <3>3 DEF ThreadAt
  <2>2. CASE ~signalled
    <3>1. PICK k \in 1 .. 24 : StartingAt(k)
      BY <2>2 DEF MainInv
    <3>2. ~(k <= CreateAt[t])
      BY <3>1 DEF StartingAt, StartedAt
    <3>3. NewAt[ObjectOf(t)] < k
      BY <3>2, CreatedApart, OpsOf
    <3>. QED
      BY <3>1, <3>3, OpsOf DEF StartingAt
  <2>. QED
    BY <2>1, <2>2
<1>. QED
  BY <1>1, MainInvariant, PTL

(* A thread that has not entered its function finds the arguments that     *)
(* createAndStartThread has in its frame.                                  *)
THEOREM ArgumentsAreThere ==
  ASSUME SleepRounds >= 2
  PROVE  Spec => []ArgumentsOutliveStart
<1>1. MainInv => ArgumentsOutliveStart
  BY DEF MainInv, ThreadsInv, ThreadInv, ArgumentsOutliveStart
<1>. QED
  BY <1>1, MainInvariant, PTL

(* What the engine has processed is with the clients and on the wire when  *)
(* the program exits, if no thread has stalled in its logger, thanks to    *)
(* the order of deletion and the sleeps of signal_handler and the          *)
(* destructors.                                                            *)
THEOREM AllIsSent ==
  ASSUME SleepRounds >= 2
  PROVE  Spec => []NothingProcessedIsLost
<1>1. MainInv => NothingProcessedIsLost
  <2>. SUFFICES ASSUME MainInv, Exited, stalled = {} PROVE Drained
    BY DEF NothingProcessedIsLost, Drained
  <2>1. Does("exit", "main")
    BY DEF Exited, Does
  <2>2. CASE signalled
    <3>1. PICK h \in 0 .. 25 : HandlingAt(h)
      BY <2>2 DEF MainInv
    <3>2. h = 25
      <4>1. HandlingPlace(h, "exit", "main")
        BY <2>1, <3>1, HandlingDoes DEF HandlingAt
      <4>. QED
        BY <4>1 DEF HandlingPlace
    <3>. QED
      BY <3>1, <3>2, PlacesAre DEF HandlingAt, DrainAt
  <2>3. CASE ~signalled
    <3>1. PICK k \in 1 .. 24 : StartingAt(k)
      BY <2>3 DEF MainInv
    <3>2. StartingPlace(k, "exit", "main")
      BY <2>1, <3>1, StartingDoes DEF StartingAt
    <3>. QED
      BY <3>2 DEF StartingPlace
  <2>. QED
    BY <2>2, <2>3
<1>. QED
  BY <1>1, MainInvariant, PTL
=============================================================================
