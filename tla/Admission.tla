------------------------------ MODULE Admission ------------------------------
(***************************************************************************)
(* How the HTTP bridge takes requests in: the worker pool and the accept   *)
(* queue that HttpBridgeServer::start() sets up, the shedding of load in   *)
(* HandlerFactory::createRequestHandler(), RequestHandler::handleRequest() *)
(* as far as it blocks, and the reporter that answers the monitoring port  *)
(* (src/src/http_server.cpp).                                              *)
(*                                                                         *)
(* A connection is queued when it is accepted, holds a worker from then on *)
(* until its client or the keep-alive timeout closes it, and carries one   *)
(* request after the other.  A handler may block in a call to the core, or *)
(* in ldap_mutex_ and the directory behind it; neither call has a timeout. *)
(* The dispatcher and the thread pool are Poco's and external.             *)
(***************************************************************************)
EXTENDS Integers, Sequences, FiniteSets

CONSTANTS
  Conn,       \* clients of the public port
  NoConn,
  Worker,     \* threads of pool_
  NoWorker,
  Prober,     \* clients of the monitoring port
  MaxQueued,  \* HTTP_MAX_QUEUED
  ShedAbove   \* shed_above_: 4 per worker

ASSUME WorkerAssumption == IsFiniteSet(Worker) /\ NoWorker \notin Worker
ASSUME ConnAssumption == NoConn \notin Conn \cup Prober
ASSUME QueueAssumption == MaxQueued \in Nat \ {0} /\ ShedAbove \in Nat

VARIABLES
  up,      \* the server has been started and not stopped
  hung,    \* the servers that never answer (external)
  queue,   \* accepted connections without a worker
  conn,    \* conn[c]: the request of c and what came of it
  worker,  \* worker[w]: where w is, and the connection it holds
  owner,   \* who holds ldap_mutex_
  probe,   \* probe[p]: a probe of the monitoring port
  reporter \* the prober whose probe the reporter's one thread handles

vars == <<up, hung, queue, conn, worker, owner, probe, reporter>>
monitoring == <<probe, reporter>>

\* What a request is: one for a monitoring path, which needs nothing (/healthz,
\* /metrics) or the core (/readyz); another that needs nothing (a preflight, a
\* body too large, an unknown path); one that needs the core; or one that needs
\* the directory and then the core.
Kind == {"monitor", "plain", "core", "login"}

Pc == {"free", "look", "core", "lock", "directory", "idle"}

TypeOK ==
  /\ up \in BOOLEAN
  /\ hung \subseteq {"core", "directory"}
  /\ queue \in Seq(Conn)
  /\ Len(queue) <= MaxQueued
  /\ conn \in [Conn -> [kind : Kind, is : {"away", "waiting", "answered", "shed"}]]
  /\ worker \in [Worker -> [pc : Pc, conn : Conn \cup {NoConn}]]
  /\ owner \in Worker \cup {NoWorker}
  /\ probe \in [Prober -> {"away", "waiting", "connected"}]
  /\ reporter \in Prober \cup {NoConn}

Away == [kind |-> "plain", is |-> "away"]

Init ==
  /\ up = TRUE
  /\ hung \in SUBSET {"core", "directory"}
  /\ queue = <<>>
  /\ conn = [c \in Conn |-> Away]
  /\ worker = [w \in Worker |-> [pc |-> "free", conn |-> NoConn]]
  /\ owner = NoWorker
  /\ probe = [p \in Prober |-> "away"]
  /\ reporter = NoConn

-----------------------------------------------------------------------------
(* Accepting.                                                              *)

\* Mutant: the queue takes what comes.
ConnectAnyway(c, k) ==
  /\ up
  /\ conn[c].is = "away"
  /\ queue' = Append(queue, c)
  /\ conn' = [conn EXCEPT ![c] = [kind |-> k, is |-> "waiting"]]
  /\ UNCHANGED <<up, hung, worker, owner, monitoring>>

\* A connection with its first request; one that finds the queue full is closed
\* at once, without an answer.
Connect(c, k) ==
  /\ up
  /\ conn[c].is = "away"
  /\ Len(queue) < MaxQueued
  /\ queue' = Append(queue, c)
  /\ conn' = [conn EXCEPT ![c] = [kind |-> k, is |-> "waiting"]]
  /\ UNCHANGED <<up, hung, worker, owner, monitoring>>

\* A worker takes the connection that has waited longest.
Take(w) ==
  /\ worker[w].pc = "free"
  /\ queue # <<>>
  /\ worker' = [worker EXCEPT ![w] = [pc |-> "look", conn |-> Head(queue)]]
  /\ queue' = Tail(queue)
  /\ UNCHANGED <<up, hung, conn, owner, monitoring>>

\* The monitoring paths are never shed, /readyz and its call to the core included.
overloaded(k) == ShedAbove > 0 /\ Len(queue) > ShedAbove /\ k # "monitor"

\* The request of w's connection has been answered, as it says; the worker
\* stays with the connection.
Answers(w, how) ==
  /\ conn' = [conn EXCEPT ![worker[w].conn] = [Away EXCEPT !.is = how]]
  /\ worker' = [worker EXCEPT ![w].pc = "idle"]

\* createRequestHandler(): a request is shed before any work is done for it.
Shed(w) ==
  /\ worker[w].pc = "look"
  /\ overloaded(conn[worker[w].conn].kind)
  /\ Answers(w, "shed")
  /\ UNCHANGED <<up, hung, queue, owner, monitoring>>

\* handleRequest(): what needs nothing is answered, the rest goes on to block.
Handle(w) ==
  LET k == conn[worker[w].conn].kind
  IN  /\ worker[w].pc = "look"
      /\ ~overloaded(k)
      /\ \/ k \in {"monitor", "plain"} /\ Answers(w, "answered")
         \/ /\ k # "plain"
            /\ worker' = [worker EXCEPT ![w].pc = IF k = "login" THEN "lock" ELSE "core"]
            /\ UNCHANGED conn
      /\ UNCHANGED <<up, hung, queue, owner, monitoring>>

-----------------------------------------------------------------------------
(* Blocking calls.                                                         *)

LockDirectory(w) ==
  /\ worker[w].pc = "lock"
  /\ owner = NoWorker
  /\ owner' = w
  /\ worker' = [worker EXCEPT ![w].pc = "directory"]
  /\ UNCHANGED <<up, hung, queue, conn, monitoring>>

\* Mutant: an early return that keeps the lock.
DirectoryEndsHolding(w, ok) ==
  /\ worker[w].pc = "directory"
  /\ "directory" \notin hung
  /\ owner' = IF ok THEN NoWorker ELSE owner
  /\ IF ok
     THEN worker' = [worker EXCEPT ![w].pc = "core"] /\ UNCHANGED conn
     ELSE Answers(w, "answered")
  /\ UNCHANGED <<up, hung, queue, monitoring>>

\* The directory answers or fails; every return releases the lock.  A login
\* that it refuses ends here.
DirectoryEnds(w, ok) ==
  /\ worker[w].pc = "directory"
  /\ "directory" \notin hung
  /\ owner' = NoWorker
  /\ IF ok
     THEN worker' = [worker EXCEPT ![w].pc = "core"] /\ UNCHANGED conn
     ELSE Answers(w, "answered")
  /\ UNCHANGED <<up, hung, queue, monitoring>>

CoreEnds(w) ==
  /\ worker[w].pc = "core"
  /\ "core" \notin hung
  /\ Answers(w, "answered")
  /\ UNCHANGED <<up, hung, queue, owner, monitoring>>

-----------------------------------------------------------------------------
(* Keep-alive.                                                             *)

NextRequest(w, k) ==
  /\ worker[w].pc = "idle"
  /\ up
  /\ conn' = [conn EXCEPT ![worker[w].conn] = [kind |-> k, is |-> "waiting"]]
  /\ worker' = [worker EXCEPT ![w].pc = "look"]
  /\ UNCHANGED <<up, hung, queue, owner, monitoring>>

\* The client or the keep-alive timeout closes the connection.
Close(w) ==
  /\ worker[w].pc = "idle"
  /\ conn' = [conn EXCEPT ![worker[w].conn] = Away]
  /\ worker' = [worker EXCEPT ![w] = [pc |-> "free", conn |-> NoConn]]
  /\ UNCHANGED <<up, hung, queue, owner, monitoring>>

\* stop(): the reporter first, then the server; what is queued is closed, and
\* what a worker is at runs on.
Stop ==
  /\ up
  /\ up' = FALSE
  /\ queue' = <<>>
  /\ conn' = [c \in Conn |->
                IF \E i \in 1 .. Len(queue) : queue[i] = c THEN Away ELSE conn[c]]
  /\ probe' = [p \in Prober |-> "away"]
  /\ reporter' = NoConn
  /\ UNCHANGED <<hung, worker, owner>>

-----------------------------------------------------------------------------
(* The reporter: one thread, one listener, no keep-alive.                  *)

Probe(p) ==
  /\ up
  /\ probe[p] = "away"
  /\ probe' = [probe EXCEPT ![p] = "waiting"]
  /\ UNCHANGED <<up, hung, queue, conn, worker, owner, reporter>>

Report(p) ==
  /\ probe[p] = "waiting"
  /\ reporter = NoConn
  /\ reporter' = p
  /\ UNCHANGED <<up, hung, queue, conn, worker, owner, probe>>

\* Mutant: the connection is kept alive, and the thread with it.
ReportedKeepAlive(p) ==
  /\ reporter = p
  /\ probe[p] = "waiting"
  /\ probe' = [probe EXCEPT ![p] = "connected"]
  /\ UNCHANGED <<up, hung, queue, conn, worker, owner, reporter>>

\* MonitorHandler::handleRequest() only looks at the pool; it waits for nobody.
Reported(p) ==
  /\ reporter = p
  /\ probe' = [probe EXCEPT ![p] = "away"]
  /\ reporter' = NoConn
  /\ UNCHANGED <<up, hung, queue, conn, worker, owner>>

-----------------------------------------------------------------------------
Next ==
  \/ \E c \in Conn, k \in Kind : Connect(c, k)
  \/ \E w \in Worker : Take(w)
  \/ \E w \in Worker : Shed(w)
  \/ \E w \in Worker : Handle(w)
  \/ \E w \in Worker : LockDirectory(w)
  \/ \E w \in Worker, ok \in BOOLEAN : DirectoryEnds(w, ok)
  \/ \E w \in Worker : CoreEnds(w)
  \/ \E w \in Worker, k \in Kind : NextRequest(w, k)
  \/ \E w \in Worker : Close(w)
  \/ Stop
  \/ \E p \in Prober : Probe(p)
  \/ \E p \in Prober : Report(p)
  \/ \E p \in Prober : Reported(p)

\* Threads that can run do run.
ThreadsRun ==
  /\ \A w \in Worker : /\ WF_vars(Take(w))
                       /\ WF_vars(Shed(w) \/ Handle(w))
  /\ \A p \in Prober : WF_vars(Reported(p))

\* Calls to a server that answers at all come back.
ServersEndCalls ==
  \A w \in Worker : WF_vars(CoreEnds(w)) /\ WF_vars(\E ok \in BOOLEAN : DirectoryEnds(w, ok))

\* Nobody loses every race for a lock or for the reporter.
WaitersGetTheirTurn ==
  /\ \A w \in Worker : SF_vars(LockDirectory(w))
  /\ \A p \in Prober : SF_vars(Report(p))

\* No client sends request after request for ever.
ClientsPause == \A w \in Worker : SF_vars(Close(w))

Spec == Init /\ [][Next]_vars /\ ThreadsRun /\ ServersEndCalls /\ WaitersGetTheirTurn /\ ClientsPause

-----------------------------------------------------------------------------
(* What admission promises.                                                *)

(* Everyone waits on everyone here: a connection on a worker, a worker on    *)
(* ldap_mutex_, its holder on the directory, and new connections on the      *)
(* keep-alive of old ones.  As long as the servers behind the bridge answer  *)
(* (hung = {}) and no client keeps its worker for ever by sending request    *)
(* after request (ClientsPause, which the bridge itself does not enforce),   *)
(* every request that is accepted, on a new connection or on one kept alive, *)
(* is served, shed with a status, or closed because the bridge stops.        *)
AcceptedIsAnswered ==
  \A c \in Conn : (conn[c].is = "waiting" /\ hung = {}) ~> conn[c].is # "waiting"

(* "Served on the reporter's own held-back thread, so these answer even when *)
(* every worker thread is mid-transfer": a probe of the monitoring port is   *)
(* answered although the core and the directory hang and no worker will ever *)
(* be free again.  It is about probers that send their request: one that     *)
(* connects and sends nothing holds the reporter's thread until Poco's       *)
(* timeout, and is not modelled.                                             *)
MonitorAlwaysAnswers == \A p \in Prober : probe[p] # "away" ~> probe[p] = "away"
===============================================================================
