---------------------------- MODULE AdmissionProofs ----------------------------
(***************************************************************************)
(* Proofs about Admission, for any number of connections, workers and      *)
(* probers and any length of the queue.                                    *)
(*                                                                         *)
(* A connection moves from the queue to a worker to its end.  That none is *)
(* lost on the way, or served by two workers, is what the liveness of the  *)
(* bridge rests on; here it is an inductive invariant.                     *)
(***************************************************************************)
EXTENDS Admission, SequenceTheorems, TLAPS

Request == [kind : Kind, is : {"away", "waiting", "answered", "shed"}]

Queued(c) == \E i \in 1 .. Len(queue) : queue[i] = c

Held(c) == \E w \in Worker : worker[w].conn = c

\* A connection is in one place: once in the queue, or with one worker.
OnePlace ==
  /\ \A i, j \in 1 .. Len(queue) : queue[i] = queue[j] => i = j
  /\ \A w, v \in Worker :
       worker[w].conn = worker[v].conn /\ worker[w].conn # NoConn => w = v
  /\ \A w \in Worker : ~Queued(worker[w].conn)

\* An open connection is somewhere, and nobody holds one that is closed.
NoneLost == \A c \in Conn : conn[c].is # "away" <=> Queued(c) \/ Held(c)

\* What a worker is at, and what its connection has been told.
AtWork(w) ==
  /\ worker[w].pc = "free" <=> worker[w].conn = NoConn
  /\ worker[w].pc \in {"look", "core", "lock", "directory"} =>
       conn[worker[w].conn].is = "waiting"
  /\ worker[w].pc = "idle" => conn[worker[w].conn].is \in {"answered", "shed"}
  /\ worker[w].pc = "core" => conn[worker[w].conn].kind \in {"monitor", "core", "login"}
  /\ worker[w].pc \in {"lock", "directory"} => conn[worker[w].conn].kind = "login"

\* The lock is held by the worker that talks to the directory, and by no other.
LockOK == \A w \in Worker : owner = w <=> worker[w].pc = "directory"

IInv ==
  /\ TypeOK
  /\ OnePlace
  /\ NoneLost
  /\ \A c \in Conn : Queued(c) => conn[c].is = "waiting"
  /\ \A w \in Worker : AtWork(w)
  /\ LockOK
  /\ reporter # NoConn => probe[reporter] = "waiting"

(* createRequestHandler() and the pool behind it: no request that waits for   *)
(* an answer is forgotten, and none is in the hands of two threads.  Its      *)
(* connection is in the queue, or with exactly one worker that has not        *)
(* answered it yet; and ldap_mutex_ is held only by a worker that is at the   *)
(* directory for a login.                                                     *)
WaitingIsInHand ==
  /\ \A c \in Conn : conn[c].is = "waiting" =>
       \/ Queued(c) /\ ~Held(c)
       \/ /\ ~Queued(c)
          /\ \E w \in Worker : /\ worker[w].conn = c
                               /\ worker[w].pc \in {"look", "core", "lock", "directory"}
                               /\ \A v \in Worker \ {w} : worker[v].conn # c
  /\ \A w \in Worker : owner = w =>
       worker[w].pc = "directory" /\ conn[worker[w].conn].kind = "login"

-----------------------------------------------------------------------------
(* The steps of a worker that has a connection.                            *)

\* What IInv says of a worker that is not free.
LEMMA Busy ==
  ASSUME IInv, NEW w \in Worker, worker[w].pc # "free"
  PROVE  /\ worker[w] \in [pc : Pc, conn : Conn \cup {NoConn}]
         /\ worker[w].conn \in Conn /\ worker[w].conn # NoConn
         /\ conn[worker[w].conn] \in Request
         /\ ~Queued(worker[w].conn)
         /\ \A v \in Worker \ {w} : worker[v].conn # worker[w].conn
         /\ AtWork(w)
  <1>1. AtWork(w) /\ worker[w] \in [pc : Pc, conn : Conn \cup {NoConn}]
    BY DEF IInv, TypeOK
  <1>2. worker[w].conn \in Conn /\ worker[w].conn # NoConn
    BY <1>1 DEF AtWork
  <1>3. conn[worker[w].conn] \in Request
    BY <1>2 DEF IInv, TypeOK, Request
  <1> QED
    BY <1>1, <1>2, <1>3 DEF IInv, OnePlace

\* It goes from one place of its work to another (pc), with x as the state of its
\* connection.
LEMMA ServeStep ==
  ASSUME IInv, NEW w \in Worker, worker[w].pc # "free",
         NEW pc \in Pc \ {"free"}, NEW x \in Request,
         worker' = [worker EXCEPT ![w].pc = pc],
         conn' = [conn EXCEPT ![worker[w].conn] = x],
         pc \in {"look", "core", "lock", "directory"} => x.is = "waiting",
         pc = "idle" => x.is \in {"answered", "shed"},
         pc = "core" => x.kind \in {"monitor", "core", "login"},
         pc \in {"lock", "directory"} => x.kind = "login",
         owner' \in Worker \cup {NoWorker},
         \A v \in Worker : owner' = v <=>
           IF v = w THEN pc = "directory" ELSE worker[v].pc = "directory",
         UNCHANGED <<up, hung, queue, monitoring>>
  PROVE  IInv'
  <1> DEFINE c == worker[w].conn
  <1>1. UNCHANGED <<up, hung, queue, probe, reporter>>
    BY DEF monitoring
  <1>2. /\ c \in Conn /\ c # NoConn /\ ~Queued(c)
        /\ \A v \in Worker \ {w} : worker[v].conn # c
    BY Busy
  <1>3. /\ worker \in [Worker -> [pc : Pc, conn : Conn \cup {NoConn}]]
        /\ conn \in [Conn -> Request]
    BY DEF IInv, TypeOK, Request
  <1> HIDE DEF c
  <1>4. /\ worker' \in [Worker -> [pc : Pc, conn : Conn \cup {NoConn}]]
        /\ worker'[w].pc = pc
        /\ \A v \in Worker : worker'[v].conn = worker[v].conn
        /\ \A v \in Worker \ {w} : worker'[v] = worker[v]
    BY <1>3
  <1>5. /\ conn' \in [Conn -> Request] /\ conn'[c] = x
        /\ \A d \in Conn \ {c} : conn'[d] = conn[d]
    BY <1>2, <1>3 DEF c
  <1>6. TypeOK'
    BY <1>1, <1>4, <1>5 DEF IInv, TypeOK, Request
  <1>7. \A d : (Queued(d)' <=> Queued(d)) /\ (Held(d)' <=> Held(d))
    BY <1>1, <1>4 DEF Queued, Held
  <1>8. OnePlace'
    BY <1>1, <1>4, <1>7 DEF IInv, OnePlace
  <1>9. x.is # "away"
    BY DEF Pc
  <1>10. NoneLost'
    <2>1. Held(c)
      BY DEF Held, c
    <2> QED
      BY <1>5, <1>7, <1>9, <2>1 DEF IInv, NoneLost
  <1>11. \A d \in Conn : Queued(d)' => conn'[d].is = "waiting"
    BY <1>2, <1>5, <1>7 DEF IInv
  <1>12. \A v \in Worker : AtWork(v)'
    <2> SUFFICES ASSUME NEW v \in Worker PROVE AtWork(v)'
      OBVIOUS
    <2>1. CASE v = w
      BY <1>2, <1>4, <1>5, <2>1 DEF AtWork, c
    <2>2. CASE v # w
      <3>1. AtWork(v) /\ worker'[v] = worker[v] /\ worker[v].conn # c
        BY <1>2, <1>4, <2>2 DEF IInv
      <3>2. worker[v].conn \in Conn \/ worker[v].pc = "free"
        BY <1>3, <3>1 DEF AtWork
      <3> QED
        BY <1>5, <3>1, <3>2 DEF AtWork
    <2> QED
      BY <2>1, <2>2
  <1>13. LockOK'
    BY <1>4 DEF LockOK
  <1> QED
    BY <1>1, <1>6, <1>8, <1>10, <1>11, <1>12, <1>13 DEF IInv

\* A request is answered, one way or another, by a worker that lets go of the lock
\* if it had it.
LEMMA AnswersStep ==
  ASSUME IInv, NEW w \in Worker, worker[w].pc # "free",
         NEW how \in {"answered", "shed"}, Answers(w, how),
         owner' = IF worker[w].pc = "directory" THEN NoWorker ELSE owner,
         UNCHANGED <<up, hung, queue, monitoring>>
  PROVE  IInv'
  <1> DEFINE x == [Away EXCEPT !.is = how]
  <1>1. /\ conn' = [conn EXCEPT ![worker[w].conn] = x]
        /\ worker' = [worker EXCEPT ![w].pc = "idle"]
    BY DEF Answers
  <1>2. x \in Request /\ x.is = how
    BY DEF Away, Request, Kind
  <1> HIDE DEF x
  <1>3. owner \in Worker \cup {NoWorker} /\ LockOK
    BY DEF IInv, TypeOK
  <1>4. /\ owner' \in Worker \cup {NoWorker}
        /\ \A v \in Worker : owner' = v <=>
             IF v = w THEN "idle" = "directory" ELSE worker[v].pc = "directory"
    BY <1>3, WorkerAssumption DEF LockOK
  <1>5. "idle" \in Pc \ {"free"}
    BY DEF Pc
  <1> QED
    BY <1>1, <1>2, <1>4, <1>5, ServeStep
\* createRequestHandler() sheds, or the core ends a request.
LEMMA ShedStep ==
  ASSUME IInv, NEW w \in Worker, Shed(w) \/ CoreEnds(w)
  PROVE  IInv'
  <1>1. /\ worker[w].pc \in {"look", "core"} /\ owner' = owner
        /\ UNCHANGED <<up, hung, queue, monitoring>>
        /\ Answers(w, "shed") \/ Answers(w, "answered")
    BY DEF Shed, CoreEnds
  <1> QED
    BY <1>1, AnswersStep

\* It goes on to another place without a word to its client.
LEMMA MoveStep ==
  ASSUME IInv, NEW w \in Worker, worker[w].pc \in {"look", "lock", "directory"},
         NEW pc \in {"core", "lock", "directory"}, worker' = [worker EXCEPT ![w].pc = pc],
         pc = "core" => conn[worker[w].conn].kind \in {"monitor", "core", "login"},
         pc \in {"lock", "directory"} => conn[worker[w].conn].kind = "login",
         owner' \in Worker \cup {NoWorker},
         \A v \in Worker : owner' = v <=>
           IF v = w THEN pc = "directory" ELSE worker[v].pc = "directory",
         UNCHANGED <<up, hung, queue, conn, monitoring>>
  PROVE  IInv'
  <1> DEFINE x == conn[worker[w].conn]
  <1>1. worker[w].pc # "free" /\ pc \in Pc \ {"free"} /\ pc # "idle"
    BY DEF Pc
  <1>2. x \in Request /\ x.is = "waiting" /\ worker[w].conn \in Conn
    BY <1>1, Busy DEF AtWork
  <1>3. conn' = [conn EXCEPT ![worker[w].conn] = x]
    BY <1>2 DEF IInv, TypeOK
  <1>4. UNCHANGED <<up, hung, queue, monitoring>>
    OBVIOUS
  <1> HIDE DEF x
  <1>5. /\ pc = "core" => x.kind \in {"monitor", "core", "login"}
        /\ pc \in {"lock", "directory"} => x.kind = "login"
    BY DEF x
  <1> QED
    BY <1>1, <1>2, <1>3, <1>4, <1>5, ServeStep, ZenonT(30)

\* handleRequest().
LEMMA HandleStep ==
  ASSUME IInv, NEW w \in Worker, Handle(w)
  PROVE  IInv'
  <1> DEFINE k == conn[worker[w].conn].kind
  <1>1. worker[w].pc = "look" /\ UNCHANGED <<up, hung, queue, owner, monitoring>>
    BY DEF Handle
  <1>2. CASE Answers(w, "answered")
    <2>1. owner' = owner
      BY <1>1
    <2> QED
      BY <1>1, <1>2, <2>1, AnswersStep
  <1>3. CASE ~Answers(w, "answered")
    <2> DEFINE pc == IF k = "login" THEN "lock" ELSE "core"
    <2>1. worker' = [worker EXCEPT ![w].pc = pc] /\ conn' = conn /\ k # "plain"
      BY <1>3 DEF Handle
    <2>2. k \in Kind
      BY <1>1, Busy DEF Request
    <2>3. /\ pc \in {"core", "lock"} /\ (pc = "core" => k \in {"monitor", "core"})
          /\ (pc = "lock" => k = "login")
      BY <2>1, <2>2 DEF Kind
    <2>4. /\ owner' \in Worker \cup {NoWorker}
          /\ \A v \in Worker : owner' = v <=> worker[v].pc = "directory"
      BY <1>1 DEF IInv, TypeOK, LockOK
    <2> HIDE DEF pc
    <2> QED
      BY <1>1, <2>1, <2>3, <2>4, MoveStep
  <1> QED
    BY <1>2, <1>3

\* ldap_mutex_ is free and taken.
LEMMA LockDirectoryStep ==
  ASSUME IInv, NEW w \in Worker, LockDirectory(w)
  PROVE  IInv'
  <1>1. /\ worker[w].pc = "lock" /\ owner = NoWorker /\ owner' = w
        /\ worker' = [worker EXCEPT ![w].pc = "directory"]
        /\ UNCHANGED <<up, hung, queue, conn, monitoring>>
    BY DEF LockDirectory
  <1>2. \A v \in Worker : worker[v].pc # "directory"
    BY <1>1, WorkerAssumption DEF IInv, LockOK
  <1>3. conn[worker[w].conn].kind = "login"
    BY <1>1 DEF IInv, AtWork
  <1> QED
    BY <1>1, <1>2, <1>3, MoveStep

\* Every return from the directory releases ldap_mutex_.
LEMMA DirectoryEndsStep ==
  ASSUME IInv, NEW w \in Worker, NEW ok \in BOOLEAN, DirectoryEnds(w, ok)
  PROVE  IInv'
  <1>1. /\ worker[w].pc = "directory" /\ owner' = NoWorker
        /\ UNCHANGED <<up, hung, queue, monitoring>>
    BY DEF DirectoryEnds
  <1>2. \A v \in Worker : worker[v].pc = "directory" => v = w
    BY <1>1 DEF IInv, LockOK
  <1>3. CASE ok
    <2>1. worker' = [worker EXCEPT ![w].pc = "core"] /\ conn' = conn
      BY <1>3 DEF DirectoryEnds
    <2>2. conn[worker[w].conn].kind = "login"
      BY <1>1 DEF IInv, AtWork
    <2>3. \A v \in Worker : owner' = v <=>
            IF v = w THEN "core" = "directory" ELSE worker[v].pc = "directory"
      BY <1>1, <1>2, WorkerAssumption
    <2> QED
      BY <1>1, <2>1, <2>2, <2>3, MoveStep
  <1>4. CASE ~ok
    <2>1. Answers(w, "answered")
      BY <1>4 DEF DirectoryEnds
    <2> QED
      BY <1>1, <2>1, AnswersStep
  <1> QED
    BY <1>3, <1>4

\* A connection that was kept alive carries another request.
LEMMA NextRequestStep ==
  ASSUME IInv, NEW w \in Worker, NEW k \in Kind, NextRequest(w, k)
  PROVE  IInv'
  <1> DEFINE x == [kind |-> k, is |-> "waiting"]
  <1>1. /\ worker[w].pc = "idle" /\ conn' = [conn EXCEPT ![worker[w].conn] = x]
        /\ worker' = [worker EXCEPT ![w].pc = "look"]
        /\ UNCHANGED <<up, hung, queue, owner, monitoring>>
    BY DEF NextRequest
  <1>2. x \in Request /\ x.is = "waiting"
    BY DEF Request
  <1> HIDE DEF x
  <1>3. /\ owner' \in Worker \cup {NoWorker}
        /\ \A v \in Worker : owner' = v <=>
             IF v = w THEN "look" = "directory" ELSE worker[v].pc = "directory"
    BY <1>1 DEF IInv, TypeOK, LockOK
  <1>4. "look" \in Pc \ {"free"}
    BY DEF Pc
  <1> QED
    BY <1>1, <1>2, <1>3, <1>4, ServeStep

-----------------------------------------------------------------------------
(* The steps of a connection from place to place.                          *)

\* Into the queue: it was nowhere before.
LEMMA ConnectStep ==
  ASSUME IInv, NEW c \in Conn, NEW k \in Kind, Connect(c, k)
  PROVE  IInv'
  <1> DEFINE x == [kind |-> k, is |-> "waiting"]
  <1>1. /\ conn[c].is = "away" /\ Len(queue) < MaxQueued /\ queue' = Append(queue, c)
        /\ conn' = [conn EXCEPT ![c] = x]
        /\ UNCHANGED <<up, hung, worker, owner, probe, reporter>>
    BY DEF Connect, monitoring
  <1>2. queue \in Seq(Conn) /\ Len(queue) \in Nat /\ conn \in [Conn -> Request]
    BY LenProperties DEF IInv, TypeOK, Request
  <1>3. x \in Request /\ x.is = "waiting"
    BY DEF Request
  <1> HIDE DEF x
  <1>4. /\ conn' \in [Conn -> Request] /\ conn'[c] = x
        /\ \A d \in Conn \ {c} : conn'[d] = conn[d]
    BY <1>1, <1>2, <1>3
  <1>5. /\ queue' \in Seq(Conn) /\ Len(queue') = Len(queue) + 1
        /\ queue'[Len(queue) + 1] = c
        /\ \A i \in 1 .. Len(queue) : queue'[i] = queue[i]
    BY <1>1, <1>2
  <1>6. TypeOK'
    BY <1>1, <1>2, <1>4, <1>5, QueueAssumption DEF IInv, TypeOK, Request
  <1>7. ~Queued(c) /\ ~Held(c)
    BY <1>1 DEF IInv, NoneLost
  <1>8. \A d : (Queued(d)' <=> d = c \/ Queued(d)) /\ (Held(d)' <=> Held(d))
    BY <1>1, <1>2, <1>5 DEF Queued, Held
  <1>9. \A i, j \in 1 .. Len(queue') : queue'[i] = queue'[j] => i = j
    BY <1>2, <1>5, <1>7 DEF IInv, OnePlace, Queued
  <1>10. OnePlace'
    BY <1>1, <1>7, <1>8, <1>9 DEF IInv, OnePlace, Held
  <1>11. NoneLost' /\ \A d \in Conn : Queued(d)' => conn'[d].is = "waiting"
    BY <1>3, <1>4, <1>8 DEF IInv, NoneLost
  <1>12. \A w \in Worker : AtWork(w)'
    <2> SUFFICES ASSUME NEW w \in Worker PROVE AtWork(w)'
      OBVIOUS
    <2>1. AtWork(w) /\ worker[w].conn # c /\ worker[w].conn \in Conn \cup {NoConn}
      BY <1>7 DEF IInv, TypeOK, Held
    <2> QED
      BY <1>1, <1>4, <2>1 DEF AtWork
  <1>13. LockOK'
    BY <1>1 DEF IInv, LockOK
  <1> QED
    BY <1>1, <1>6, <1>10, <1>11, <1>12, <1>13 DEF IInv

\* Out of the queue, to the worker that takes it.
LEMMA TakeStep ==
  ASSUME IInv, NEW w \in Worker, Take(w)
  PROVE  IInv'
  <1> DEFINE c == queue[1]
             r == [pc |-> "look", conn |-> c]
  <1>1. /\ worker[w].pc = "free" /\ queue # <<>> /\ queue' = Tail(queue)
        /\ worker' = [worker EXCEPT ![w] = [pc |-> "look", conn |-> Head(queue)]]
        /\ UNCHANGED <<up, hung, conn, owner, probe, reporter>>
    BY DEF Take, monitoring
  <1>2. /\ queue \in Seq(Conn) /\ Len(queue) \in Nat \ {0} /\ Len(queue) <= MaxQueued
        /\ worker \in [Worker -> [pc : Pc, conn : Conn \cup {NoConn}]]
    BY <1>1, LenProperties, EmptySeq DEF IInv, TypeOK
  <1>3. Head(queue) = c /\ c \in Conn /\ c # NoConn
    BY <1>1, <1>2, ConnAssumption
  <1>4. /\ queue' \in Seq(Conn) /\ Len(queue') = Len(queue) - 1
        /\ \A i \in 1 .. Len(queue) - 1 : queue'[i] = queue[i + 1]
    BY <1>1, <1>2
  <1> HIDE DEF c
  <1>5. r \in [pc : Pc, conn : Conn \cup {NoConn}] /\ r.pc = "look" /\ r.conn = c
    BY <1>3 DEF Pc
  <1> HIDE DEF r
  <1>6. /\ worker' \in [Worker -> [pc : Pc, conn : Conn \cup {NoConn}]]
        /\ worker'[w] = r /\ \A v \in Worker \ {w} : worker'[v] = worker[v]
    BY <1>1, <1>2, <1>3, <1>5 DEF r
  <1>7. TypeOK'
    BY <1>1, <1>2, <1>4, <1>6, QueueAssumption DEF IInv, TypeOK
  <1>8. worker[w].conn = NoConn /\ Queued(c) /\ \A v \in Worker : worker[v].conn # c
    BY <1>1, <1>2 DEF IInv, AtWork, OnePlace, Queued, c
  <1>9. \A i, j \in 1 .. Len(queue') : queue'[i] = queue'[j] => i = j
    BY <1>2, <1>4 DEF IInv, OnePlace
  <1>10. \A d \in Conn : Queued(d)' <=> Queued(d) /\ d # c
    <2> SUFFICES ASSUME NEW d \in Conn PROVE Queued(d)' <=> Queued(d) /\ d # c
      OBVIOUS
    <2>1. Queued(d)' => Queued(d) /\ d # c
      BY <1>2, <1>4 DEF IInv, OnePlace, Queued, c
    <2>2. ASSUME Queued(d), d # c PROVE Queued(d)'
      <3>1. PICK i \in 1 .. Len(queue) : queue[i] = d
        BY <2>2 DEF Queued
      <3>2. i - 1 \in 1 .. Len(queue') /\ queue'[i - 1] = d
        BY <1>2, <1>4, <2>2, <3>1 DEF c
      <3> QED
        BY <3>2 DEF Queued
    <2> QED
      BY <2>1, <2>2
  <1>11. \A d \in Conn : Held(d)' <=> Held(d) \/ d = c
    BY <1>5, <1>6, <1>8, ConnAssumption DEF Held
  <1>12. OnePlace'
    <2>1. \A v \in Worker : ~Queued(worker[v].conn)'
      <3> SUFFICES ASSUME NEW v \in Worker, Queued(worker[v].conn)' PROVE FALSE
        OBVIOUS
      <3> DEFINE d == worker'[v].conn
      <3>1. PICK i \in 1 .. Len(queue') : queue'[i] = d
        BY DEF Queued
      <3>2. d = queue[i + 1] /\ i + 1 \in 1 .. Len(queue) /\ i + 1 # 1
        BY <1>2, <1>4, <3>1
      <3>3. Queued(d) /\ d # c
        BY <1>2, <3>2 DEF IInv, OnePlace, Queued, c
      <3> QED
        BY <1>5, <1>6, <3>3 DEF IInv, OnePlace
    <2>2. \A u, v \in Worker :
            worker'[u].conn = worker'[v].conn /\ worker'[u].conn # NoConn => u = v
      BY <1>5, <1>6, <1>8 DEF IInv, OnePlace
    <2> QED
      BY <1>9, <2>1, <2>2 DEF OnePlace
  <1>13. NoneLost' /\ \A d \in Conn : Queued(d)' => conn'[d].is = "waiting"
    BY <1>1, <1>8, <1>10, <1>11 DEF IInv, NoneLost
  <1>14. \A v \in Worker : AtWork(v)'
    <2>1. conn[c].is = "waiting"
      BY <1>3, <1>8 DEF IInv
    <2>2. AtWork(w)'
      BY <1>1, <1>3, <1>5, <1>6, <2>1 DEF AtWork
    <2>3. \A v \in Worker \ {w} : AtWork(v)'
      BY <1>1, <1>6 DEF IInv, AtWork
    <2> QED
      BY <2>2, <2>3
  <1>15. LockOK'
    BY <1>1, <1>5, <1>6 DEF IInv, LockOK
  <1> QED
    BY <1>1, <1>7, <1>12, <1>13, <1>14, <1>15 DEF IInv
\* From its worker to nowhere.
LEMMA CloseStep ==
  ASSUME IInv, NEW w \in Worker, Close(w)
  PROVE  IInv'
  <1> DEFINE c == worker[w].conn
             r == [pc |-> "free", conn |-> NoConn]
  <1>1. /\ worker[w].pc = "idle" /\ conn' = [conn EXCEPT ![c] = Away]
        /\ worker' = [worker EXCEPT ![w] = r]
        /\ UNCHANGED <<up, hung, queue, owner, probe, reporter>>
    BY DEF Close, monitoring
  <1>2. /\ c \in Conn /\ c # NoConn /\ ~Queued(c)
        /\ \A v \in Worker \ {w} : worker[v].conn # c
    BY <1>1, Busy
  <1>3. /\ worker \in [Worker -> [pc : Pc, conn : Conn \cup {NoConn}]]
        /\ conn \in [Conn -> Request]
    BY DEF IInv, TypeOK, Request
  <1>4. /\ Away \in Request /\ Away.is = "away"
        /\ r \in [pc : Pc, conn : Conn \cup {NoConn}] /\ r.pc = "free" /\ r.conn = NoConn
    BY DEF Away, Request, Kind, Pc
  <1> HIDE DEF c, r
  <1>5. /\ worker' \in [Worker -> [pc : Pc, conn : Conn \cup {NoConn}]]
        /\ worker'[w] = r /\ \A v \in Worker \ {w} : worker'[v] = worker[v]
    BY <1>1, <1>3, <1>4
  <1>6. /\ conn' \in [Conn -> Request] /\ conn'[c] = Away
        /\ \A d \in Conn \ {c} : conn'[d] = conn[d]
    BY <1>1, <1>2, <1>3, <1>4
  <1>7. TypeOK'
    BY <1>1, <1>5, <1>6 DEF IInv, TypeOK, Request
  <1>8. /\ \A d : Queued(d)' <=> Queued(d)
        /\ \A d \in Conn : Held(d)' <=> Held(d) /\ d # c
    <2>1. \A d : Queued(d)' <=> Queued(d)
      BY <1>1 DEF Queued
    <2>2. \A d \in Conn : Held(d)' <=> Held(d) /\ d # c
      BY <1>2, <1>4, <1>5, ConnAssumption DEF Held, c
    <2> QED
      BY <2>1, <2>2
  <1>9. OnePlace'
    <2>1. ~Queued(NoConn)
      <3>1. queue \in Seq(Conn) /\ Len(queue) \in Nat
        BY LenProperties DEF IInv, TypeOK
      <3> QED
        BY <3>1, ConnAssumption DEF Queued
    <2>2. \A v \in Worker : ~Queued(worker[v].conn)'
      <3> SUFFICES ASSUME NEW v \in Worker PROVE ~Queued(worker'[v].conn)
        BY <1>1 DEF Queued
      <3> QED
        BY <1>4, <1>5, <2>1 DEF IInv, OnePlace
    <2> QED
      BY <1>1, <1>4, <1>5, <2>2 DEF IInv, OnePlace
  <1>10. NoneLost' /\ \A d \in Conn : Queued(d)' => conn'[d].is = "waiting"
    BY <1>2, <1>4, <1>6, <1>8 DEF IInv, NoneLost
  <1>11. \A v \in Worker : AtWork(v)'
    <2>1. AtWork(w)'
      BY <1>4, <1>5 DEF AtWork
    <2>2. ASSUME NEW v \in Worker \ {w} PROVE AtWork(v)'
      <3>1. /\ AtWork(v) /\ worker'[v] = worker[v] /\ worker[v].conn # c
            /\ worker[v].conn \in Conn \cup {NoConn}
        BY <1>2, <1>3, <1>5 DEF IInv
      <3> QED
        BY <1>6, <3>1 DEF AtWork
    <2> QED
      BY <2>1, <2>2
  <1>12. LockOK'
    BY <1>1, <1>4, <1>5 DEF IInv, LockOK
  <1> QED
    BY <1>1, <1>7, <1>9, <1>10, <1>11, <1>12 DEF IInv

\* stop(): what is queued is closed, and no worker holds any of it.
LEMMA StopStep ==
  ASSUME IInv, Stop
  PROVE  IInv'
  <1>1. /\ up' = FALSE /\ queue' = <<>>
        /\ conn' = [c \in Conn |-> IF Queued(c) THEN Away ELSE conn[c]]
        /\ probe' = [p \in Prober |-> "away"] /\ reporter' = NoConn
        /\ UNCHANGED <<hung, worker, owner>>
    BY DEF Stop, Queued
  <1>2. conn \in [Conn -> Request] /\ Away \in Request /\ Away.is = "away"
    BY DEF IInv, TypeOK, Away, Request, Kind
  <1>3. /\ conn' \in [Conn -> Request]
        /\ \A c \in Conn : conn'[c] = IF Queued(c) THEN Away ELSE conn[c]
    BY <1>1, <1>2
  <1>4. queue' \in Seq(Conn) /\ Len(queue') = 0
    BY <1>1
  <1>5. TypeOK'
    <2>1. probe' \in [Prober -> {"away", "waiting", "connected"}] /\ Len(queue') <= MaxQueued
      BY <1>1, <1>4, QueueAssumption
    <2>2. /\ hung \subseteq {"core", "directory"} /\ owner \in Worker \cup {NoWorker}
          /\ worker \in [Worker -> [pc : Pc, conn : Conn \cup {NoConn}]]
      BY DEF IInv, TypeOK
    <2>3. /\ up' \in BOOLEAN /\ reporter' \in Prober \cup {NoConn}
          /\ hung' = hung /\ owner' = owner /\ worker' = worker
      BY <1>1
    <2> QED
      BY <1>3, <1>4, <2>1, <2>2, <2>3 DEF TypeOK, Request
  <1>6. \A d : ~Queued(d)' /\ (Held(d)' <=> Held(d))
    BY <1>1, <1>4 DEF Queued, Held
  <1>7. OnePlace'
    BY <1>1, <1>4, <1>6 DEF IInv, OnePlace
  <1>8. NoneLost' /\ \A d \in Conn : Queued(d)' => conn'[d].is = "waiting"
    <2>1. \A d \in Conn : Queued(d) => ~Held(d)
      BY DEF IInv, OnePlace, Held
    <2>2. \A d \in Conn : conn'[d].is # "away" <=> Held(d)
      BY <1>2, <1>3, <2>1 DEF IInv, NoneLost
    <2> QED
      BY <1>6, <2>2 DEF NoneLost
  <1>9. \A w \in Worker : AtWork(w)'
    <2> SUFFICES ASSUME NEW w \in Worker PROVE AtWork(w)'
      OBVIOUS
    <2>1. AtWork(w) /\ worker[w].conn \in Conn \cup {NoConn} /\ ~Queued(worker[w].conn)
      BY DEF IInv, TypeOK, OnePlace
    <2> QED
      BY <1>1, <1>3, <2>1 DEF AtWork
  <1>10. LockOK'
    BY <1>1 DEF IInv, LockOK
  <1> QED
    BY <1>1, <1>5, <1>7, <1>8, <1>9, <1>10 DEF IInv

\* The reporter shares nothing with the pool.
LEMMA MonitorStep ==
  ASSUME IInv, \/ \E p \in Prober : Probe(p) \/ Report(p) \/ Reported(p)
               \/ UNCHANGED vars
  PROVE  IInv'
  <1>1. UNCHANGED <<up, hung, queue, conn, worker, owner>>
    BY DEF Probe, Report, Reported, vars
  <1>2. probe \in [Prober -> {"away", "waiting", "connected"}] /\ reporter \in Prober \cup {NoConn}
    BY DEF IInv, TypeOK
  <1>3. /\ probe' \in [Prober -> {"away", "waiting", "connected"}]
        /\ reporter' \in Prober \cup {NoConn}
        /\ reporter' # NoConn => probe'[reporter'] = "waiting"
    BY <1>2, ConnAssumption DEF IInv, Probe, Report, Reported, vars
  <1>4. TypeOK'
    BY <1>1, <1>3 DEF IInv, TypeOK
  <1>5. OnePlace' /\ LockOK'
    BY <1>1 DEF IInv, OnePlace, LockOK, Queued
  <1>6. NoneLost' /\ \A d \in Conn : Queued(d)' => conn'[d].is = "waiting"
    BY <1>1 DEF IInv, NoneLost, Queued, Held
  <1>7. \A w \in Worker : AtWork(w)'
    BY <1>1 DEF IInv, AtWork
  <1> QED
    BY <1>3, <1>4, <1>5, <1>6, <1>7 DEF IInv

-----------------------------------------------------------------------------
(* The specification.                                                      *)

\* Nobody is connected.
LEMMA InitIInv == Init => IInv
  <1> SUFFICES ASSUME Init PROVE IInv
    OBVIOUS
  <1>1. /\ up = TRUE /\ hung \in SUBSET {"core", "directory"} /\ queue = <<>>
        /\ conn = [c \in Conn |-> Away]
        /\ worker = [w \in Worker |-> [pc |-> "free", conn |-> NoConn]]
        /\ owner = NoWorker /\ probe = [p \in Prober |-> "away"] /\ reporter = NoConn
    BY DEF Init
  <1>2. Away \in Request /\ Away.is = "away"
    BY DEF Away, Request, Kind
  <1>3. /\ conn \in [Conn -> Request] /\ \A c \in Conn : conn[c].is = "away"
    BY <1>1, <1>2
  <1>4. /\ worker \in [Worker -> [pc : Pc, conn : Conn \cup {NoConn}]]
        /\ \A w \in Worker : worker[w].pc = "free" /\ worker[w].conn = NoConn
    BY <1>1 DEF Pc
  <1>5. queue \in Seq(Conn) /\ Len(queue) = 0 /\ \A d : ~Queued(d)
    BY <1>1 DEF Queued
  <1>6. TypeOK
    BY <1>1, <1>3, <1>4, <1>5, QueueAssumption DEF TypeOK, Request
  <1>7. OnePlace
    BY <1>4, <1>5 DEF OnePlace
  <1>8. NoneLost
    BY <1>3, <1>4, <1>5, ConnAssumption DEF NoneLost, Held
  <1>9. (\A w \in Worker : AtWork(w)) /\ LockOK
    BY <1>1, <1>4, WorkerAssumption DEF AtWork, LockOK
  <1> QED
    BY <1>1, <1>5, <1>6, <1>7, <1>8, <1>9 DEF IInv

\* One step per action.
LEMMA NextIInv == IInv /\ [Next]_vars => IInv'
  BY ConnectStep, TakeStep, ShedStep, HandleStep, LockDirectoryStep, DirectoryEndsStep,
     NextRequestStep, CloseStep, StopStep, MonitorStep DEF Next

(* Every open connection is in one place, its worker is where its request     *)
(* says, and ldap_mutex_ is with the worker at the directory.                 *)
THEOREM Inductive == Spec => []IInv
  BY InitIInv, NextIInv, PTL DEF Spec

(* The state of the pool, the accept queue and the reporter keeps its type:   *)
(* the queue never exceeds HTTP_MAX_QUEUED.                                   *)
THEOREM TypeCorrect == Spec => []TypeOK
  <1>1. IInv => TypeOK
    BY DEF IInv
  <1> QED
    BY <1>1, Inductive, PTL

(* HttpBridgeServer: whatever is shed, kept alive, stopped or hung, a request *)
(* without an answer is in the queue or with exactly one worker that still    *)
(* owes it one, and ldap_mutex_ is held only for a login.                     *)
THEOREM InHand == Spec => []WaitingIsInHand
  <1>1. IInv => WaitingIsInHand
    <2> SUFFICES ASSUME IInv PROVE WaitingIsInHand
      OBVIOUS
    <2>1. ASSUME NEW c \in Conn, conn[c].is = "waiting", ~Queued(c)
          PROVE  \E w \in Worker : /\ worker[w].conn = c
                                   /\ worker[w].pc \in {"look", "core", "lock", "directory"}
                                   /\ \A v \in Worker \ {w} : worker[v].conn # c
      <3>1. PICK w \in Worker : worker[w].conn = c
        BY <2>1 DEF IInv, NoneLost, Held
      <3>2. AtWork(w) /\ worker[w].pc \in Pc /\ c # NoConn
        BY ConnAssumption DEF IInv, TypeOK
      <3>3. worker[w].pc \in {"look", "core", "lock", "directory"}
        BY <2>1, <3>1, <3>2 DEF AtWork, Pc
      <3>4. \A v \in Worker \ {w} : worker[v].conn # c
        BY <3>1, <3>2 DEF IInv, OnePlace
      <3> QED
        BY <3>1, <3>3, <3>4
    <2>2. \A c \in Conn : Queued(c) => ~Held(c)
      BY DEF IInv, OnePlace, Held
    <2>3. \A w \in Worker : owner = w =>
            worker[w].pc = "directory" /\ conn[worker[w].conn].kind = "login"
      BY DEF IInv, LockOK, AtWork
    <2> QED
      BY <2>1, <2>2, <2>3 DEF WaitingIsInHand
  <1> QED
    BY <1>1, Inductive, PTL
================================================================================
