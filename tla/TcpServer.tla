-------------------------------- MODULE TcpServer --------------------------------
(***************************************************************************)
(* TcpServer with its Acceptor and EventLoopThreadPool: connections are      *)
(* accepted in the base loop (loop 0), live in the loops of the pool, and    *)
(* are taken out of connections_ in the base loop again.  The loops hand     *)
(* each other functors, as EventLoop describes it; a functor keeps its       *)
(* connection alive, except that of send(), which has a raw pointer.  The    *)
(* server may be destroyed in the base loop at any time, which joins the     *)
(* threads of the pool.  One user thread uses a TcpConnectionPtr.            *)
(***************************************************************************)
EXTENDS Acceptor, Integers, SequencesExt

CONSTANTS ThreadNums,  \* arguments of setThreadNum()
          IdRange,     \* values of nextConnId_ before it wraps; 2^32 in the code
          MaxSends     \* calls of send() by the user thread

ASSUME serverAssumption ==
  /\ MaxClients \in Nat /\ MaxFds \in Nat /\ MaxOtherFds \in Nat /\ MaxSends \in Nat
  /\ ThreadNums \subseteq Nat
  /\ \E most \in ThreadNums : \A n \in ThreadNums : n <= most
  /\ IdRange \in Nat \ {0}

VARIABLES
  server,       \* the TcpServer: "up", "joining" in its destructor, or "gone"
  numThreads_,  \* EventLoopThreadPool::numThreads_
  started_,     \* TcpServer::started_
  next_,        \* EventLoopThreadPool::next_
  nextConnId_,  \* TcpServer::nextConnId_
  connections_, \* TcpServer::connections_, from the number in the name
  state_,       \* TcpConnection::state_, "none" before it is constructed
  loop_,        \* TcpConnection::loop_
  id_,          \* the number in TcpConnection::name_
  pc,           \* where each loop is
  quit_,        \* EventLoop::quit_
  pending,      \* EventLoop::pendingFunctors_
  batch,        \* the functors that doPendingFunctors() has taken
  user,         \* the user thread: the connection it holds, and is it in send()?
  sends,        \* calls of send() so far
  late,         \* history: send() queued its functor on a closed connection
  reused,       \* history: a new connection got the name of one in connections_
  failed        \* "no", or what ended the process

poolVars == <<numThreads_, started_, next_>>
connVars == <<nextConnId_, connections_, state_, loop_, id_>>
loopVars == <<pc, quit_, pending, batch>>
userVars == <<user, sends, late>>
vars == <<acceptorVars, server, poolVars, connVars, loopVars, userVars, reused, failed>>

NULL == 0                   \* no connection
Conns == 1 .. MaxClients
Ids == 0 .. IdRange - 1
Loops == 0 .. Max(ThreadNums)
Functors == {"connectEstablished", "connectDestroyed", "removeConnectionInLoop",
             "sendInLoop"} \X Conns
ConnStates == {"none", "kConnecting", "kConnected", "kDisconnected"}

TypeOK ==
  /\ AcceptorTypeOK
  /\ server \in {"up", "joining", "gone"}
  /\ numThreads_ \in Loops /\ started_ \in BOOLEAN /\ next_ \in Loops
  /\ nextConnId_ \in Ids
  /\ connections_ \in [Ids -> Conns \cup {NULL}]
  /\ state_ \in [Conns -> ConnStates]
  /\ loop_ \in [Conns -> Loops] /\ id_ \in [Conns -> Ids]
  /\ pc \in [Loops -> {"off", "poll", "functors", "ended"}]
  /\ quit_ \in [Loops -> BOOLEAN]
  /\ pending \in [Loops -> Seq(Functors)] /\ batch \in [Loops -> Seq(Functors)]
  /\ user \in [holds : Conns \cup {NULL}, sending : BOOLEAN]
  /\ sends \in 0 .. MaxSends
  /\ late \in BOOLEAN /\ reused \in BOOLEAN
  /\ failed \in {"no", "start", "accept", "established", "erase", "server", "send", "loop"}

(* The constructors; setThreadNum() has been called, the base loop runs. *)
Init ==
  /\ AcceptorInit
  /\ server = "up"
  /\ numThreads_ \in ThreadNums
  /\ started_ = FALSE
  /\ next_ = 0
  /\ nextConnId_ = 1 % IdRange
  /\ connections_ = [i \in Ids |-> NULL]
  /\ state_ = [c \in Conns |-> "none"]
  /\ loop_ = [c \in Conns |-> 0]
  /\ id_ = [c \in Conns |-> 0]
  /\ pc = [l \in Loops |-> IF l = 0 THEN "poll" ELSE "off"]
  /\ quit_ = [l \in Loops |-> FALSE]
  /\ pending = [l \in Loops |-> <<>>]
  /\ batch = [l \in Loops |-> <<>>]
  /\ user = [holds |-> NULL, sending |-> FALSE]
  /\ sends = 0
  /\ late = FALSE
  /\ reused = FALSE
  /\ failed = "no"

--------------------------------------------------------------------------------
(* The life of a TcpConnection. *)

(* Is there a TcpConnectionPtr to c?  When there is none c is destroyed. *)
referenced(c) ==
  \/ user.holds = c
  \/ \E i \in Ids : connections_[i] = c
  \/ \E l \in Loops : \E f \in ToSet(pending[l]) \cup ToSet(batch[l]) :
       f[2] = c /\ f[1] # "sendInLoop"

(* The assert of ~TcpConnection() fails. *)
destroyedOpen ==
  \E c \in Conns : state_[c] \in {"kConnecting", "kConnected"} /\ ~referenced(c)

running == failed = "no" /\ ~destroyedOpen

(* ~Socket() closes the descriptor with the connection. *)
connFds == Cardinality({c \in Conns : state_[c] # "none" /\ referenced(c)})

(* Mutant: the newest functor goes first. *)
Mutant_queueInLoop(l, fn, c) == pending' = [pending EXCEPT ![l] = <<<<fn, c>>>> \o @]

queueInLoop(l, fn, c) == pending' = [pending EXCEPT ![l] = Append(@, <<fn, c>>)]

--------------------------------------------------------------------------------
(* EventLoopThreadPool *)

loops_ == 1 .. (IF started_ THEN numThreads_ ELSE 0)

(* the loop that getNextLoop() returns, and next_ after it *)
getNextLoop == IF loops_ = {} THEN 0 ELSE next_ + 1

(* Mutant: next_ is reset one thread early. *)
Mutant_nextAfter ==
  IF loops_ = {} THEN next_ ELSE IF next_ + 1 >= numThreads_ - 1 THEN 0 ELSE next_ + 1

nextAfter ==
  IF loops_ = {} THEN next_ ELSE IF next_ + 1 >= numThreads_ THEN 0 ELSE next_ + 1

getAllLoops == IF loops_ = {} THEN {0} ELSE loops_

--------------------------------------------------------------------------------
(* TcpServer *)

(* A loop gets on; the base loop waits in ~TcpServer() for the threads. *)
free(l) == (l = 0 => accepting = "no" /\ server # "joining") /\ running

(* User code in the base loop, between the handlers of the library. *)
inBaseLoop == pc[0] \in {"poll", "functors"} /\ accepting = "no" /\ running

(* start(), in the loop thread: the pool starts its loops, the acceptor      *)
(* listens.  A second call changes nothing.                                  *)
start ==
  /\ server = "up" /\ ~started_
  /\ inBaseLoop
  /\ started_' = TRUE
  /\ pc' = [l \in Loops |-> IF l \in 1 .. numThreads_ THEN "poll" ELSE pc[l]]
  /\ listen
  /\ UNCHANGED <<server, numThreads_, next_, connVars, quit_, pending, batch,
                 userVars, reused, failed>>

(* start() in another thread, when it is the first: threadPool_->start()     *)
(* finds itself in the wrong thread.                                         *)
startElsewhere ==
  /\ server = "up" /\ ~started_
  /\ running
  /\ started_' = TRUE
  /\ failed' = "start"
  /\ UNCHANGED <<acceptorVars, server, numThreads_, next_, connVars, loopVars,
                 userVars, reused>>

(* newConnection(), of the client that becomes connection c *)
newConnection(c) ==
  LET ioLoop == getNextLoop IN
  /\ next_' = nextAfter
  /\ nextConnId_' = (nextConnId_ + 1) % IdRange
  /\ reused' = (reused \/ connections_[nextConnId_] # NULL)
  /\ connections_' = [connections_ EXCEPT ![nextConnId_] = c]
  /\ loop_' = [loop_ EXCEPT ![c] = ioLoop]
  /\ id_' = [id_ EXCEPT ![c] = nextConnId_]
  /\ IF ioLoop = 0
     THEN state_' = [state_ EXCEPT ![c] = "kConnected"] /\ UNCHANGED pending
     ELSE /\ state_' = [state_ EXCEPT ![c] = "kConnecting"]
          /\ queueInLoop(ioLoop, "connectEstablished", c)

(* The listening channel is active. *)
accept ==
  /\ server = "up" /\ pc[0] = "poll" /\ backlog > 0
  /\ inBaseLoop
  /\ \E outcome \in acceptOutcomes(connFds) :
       /\ handleRead(outcome)
       /\ failed' = IF outcome = "fatal" THEN "accept" ELSE "no"
       /\ IF outcome = "ok"
          THEN newConnection(1 + Cardinality({c \in Conns : state_[c] # "none"}))
          ELSE UNCHANGED <<next_, connVars, pending, reused>>
  /\ UNCHANGED <<server, numThreads_, started_, pc, quit_, batch, userVars>>

(* The EMFILE branch of handleRead() goes on. *)
emfile ==
  /\ accepting # "no" /\ running
  /\ emfileAccept(connFds) \/ emfileClose \/ emfileOpen(connFds)
  /\ UNCHANGED <<server, poolVars, connVars, loopVars, userVars, reused, failed>>

(* Mutant: the entry stays in the map. *)
Mutant_removeConnectionInLoop(c) ==
  /\ failed' = "no"
  /\ UNCHANGED connections_
  /\ queueInLoop(loop_[c], "connectDestroyed", c)

(* removeConnectionInLoop(): with the server gone it uses a dead object; the *)
(* assert fails when erase() finds no entry of that name.                    *)
removeConnectionInLoop(c) ==
  /\ failed' = CASE server = "gone" -> "server"
                 [] server # "gone" /\ connections_[id_[c]] = NULL -> "erase"
                 [] server # "gone" /\ connections_[id_[c]] # NULL -> "no"
  /\ connections_' = [connections_ EXCEPT ![id_[c]] = NULL]
  /\ queueInLoop(loop_[c], "connectDestroyed", c)

(* handleClose() in the connection's loop; its last line is the close        *)
(* callback, removeConnection(), which runs or queues the removal.           *)
handleClose(c) ==
  /\ state_[c] = "kConnected"
  /\ pc[loop_[c]] = "poll"
  /\ free(loop_[c])
  /\ state_' = [state_ EXCEPT ![c] = "kDisconnected"]
  /\ IF loop_[c] = 0
     THEN removeConnectionInLoop(c)
     ELSE queueInLoop(0, "removeConnectionInLoop", c) /\ UNCHANGED <<connections_, failed>>
  /\ UNCHANGED <<acceptorVars, server, poolVars, nextConnId_, loop_, id_,
                 pc, quit_, batch, userVars, reused>>

(* ~TcpServer(): every connection is told, at once or through its loop, in   *)
(* the order of their names as strings: any order of their numbers.  Then the *)
(* members go.  The acceptor goes last, when the threads are joined, but from *)
(* here on nobody looks at it, so that it goes at once here.                 *)
destructor ==
  LET inMap(l) == {c \in Conns : loop_[c] = l /\ \E i \in Ids : connections_[i] = c} IN
  /\ server = "up" /\ inBaseLoop
  /\ server' = IF loops_ = {} THEN "gone" ELSE "joining"
  /\ connections_' = [i \in Ids |-> NULL]
  /\ state_' = [c \in Conns |-> IF c \in inMap(0) THEN "kDisconnected" ELSE state_[c]]
  /\ \E told \in [Loops -> UNION {SetToSeqs(inMap(l)) : l \in Loops}] :
       /\ \A l \in Loops : told[l] \in SetToSeqs(inMap(l))
       /\ pending' = [l \in Loops |->
            IF l = 0 THEN pending[l]
            ELSE pending[l] \o [i \in DOMAIN told[l] |-> <<"connectDestroyed", told[l][i]>>]]
  /\ destroyAcceptor
  /\ UNCHANGED <<poolVars, nextConnId_, loop_, id_, pc, quit_, batch, userVars,
                 reused, failed>>

(* ~EventLoopThread() of each thread of the pool: quit() and join.  Whether  *)
(* quit() comes too early is EventLoopThread's part: the threads are in      *)
(* loop() here.                                                              *)
joining == CHOOSE l \in loops_ : pc[l] # "ended" /\ \A k \in 1 .. l - 1 : pc[k] = "ended"

join ==
  /\ server = "joining" /\ running
  /\ IF \A l \in loops_ : pc[l] = "ended"
     THEN server' = "gone" /\ UNCHANGED quit_
     ELSE /\ ~quit_[joining]
          /\ quit_' = [quit_ EXCEPT ![joining] = TRUE]
          /\ UNCHANGED server
  /\ UNCHANGED <<acceptorVars, poolVars, connVars, pc, pending, batch, userVars,
                 reused, failed>>

--------------------------------------------------------------------------------
(* The loops. *)

(* The handlers of the iteration are done; doPendingFunctors() begins.  An   *)
(* iteration of the base loop without functors changes nothing, unless the   *)
(* loop may end with it, and is left out.                                    *)
doPendingFunctors(l) ==
  /\ pc[l] = "poll" /\ free(l)
  /\ l = 0 /\ server # "gone" => pending[0] # <<>>
  /\ pc' = [pc EXCEPT ![l] = "functors"]
  /\ batch' = [batch EXCEPT ![l] = pending[l]]
  /\ pending' = [pending EXCEPT ![l] = <<>>]
  /\ UNCHANGED <<acceptorVars, server, poolVars, connVars, quit_, userVars, reused, failed>>

runFunctor(l) ==
  LET fn == Head(batch[l])[1]
      c == Head(batch[l])[2]
  IN
  /\ pc[l] = "functors" /\ batch[l] # <<>>
  /\ free(l)
  /\ batch' = [batch EXCEPT ![l] = Tail(@)]
  /\ \/ /\ fn = "connectEstablished"
        /\ failed' = IF state_[c] = "kConnecting" THEN "no" ELSE "established"
        /\ state_' = [state_ EXCEPT ![c] = "kConnected"]
        /\ UNCHANGED <<connections_, pending>>
     \/ /\ fn = "connectDestroyed"
        /\ state_' = [state_ EXCEPT ![c] = "kDisconnected"]
        /\ UNCHANGED <<connections_, pending, failed>>
     \/ /\ fn = "removeConnectionInLoop"
        /\ removeConnectionInLoop(c)
        /\ UNCHANGED state_
     \/ /\ fn = "sendInLoop"
        /\ failed' = IF referenced(c) THEN "no" ELSE "send"
        /\ UNCHANGED <<state_, connections_, pending>>
  /\ UNCHANGED <<acceptorVars, server, poolVars, nextConnId_, loop_, id_, pc,
                 quit_, userVars, reused>>

(* The iteration ends with the test of quit_, which nobody sets in the base  *)
(* loop while the server is there.  A loop that ends is destroyed, with the  *)
(* functors queued since.                                                    *)
iterationEnds(l) ==
  /\ pc[l] = "functors" /\ batch[l] = <<>>
  /\ free(l)
  /\ \/ /\ ~quit_[l]
        /\ pc' = [pc EXCEPT ![l] = "poll"]
        /\ UNCHANGED pending
     \/ /\ quit_[l] \/ (l = 0 /\ server = "gone")
        /\ pc' = [pc EXCEPT ![l] = "ended"]
        /\ pending' = [pending EXCEPT ![l] = <<>>]
  /\ UNCHANGED <<acceptorVars, server, poolVars, connVars, quit_, batch, userVars,
                 reused, failed>>

--------------------------------------------------------------------------------
(* The user thread, and the rest of the world. *)

(* send(), with a TcpConnectionPtr in hand, finds the connection open ...    *)
sendTests(c) ==
  /\ user.holds = NULL /\ sends < MaxSends
  /\ state_[c] = "kConnected"
  /\ running
  /\ user' = [holds |-> c, sending |-> TRUE]
  /\ sends' = sends + 1
  /\ UNCHANGED <<acceptorVars, server, poolVars, connVars, loopVars, late, reused, failed>>

(* ... and hands its loop a functor with a raw pointer to it. *)
sendQueues ==
  LET c == user.holds IN
  /\ user.sending /\ running
  /\ user' = [user EXCEPT !.sending = FALSE]
  /\ late' = (late \/ state_[c] # "kConnected")
  /\ failed' = IF pc[loop_[c]] = "ended" THEN "loop" ELSE "no"
  /\ queueInLoop(loop_[c], "sendInLoop", c)
  /\ UNCHANGED <<acceptorVars, server, poolVars, connVars, pc, quit_, batch, sends, reused>>

userDrops ==
  /\ user.holds # NULL /\ ~user.sending
  /\ running
  /\ user' = [user EXCEPT !.holds = NULL]
  /\ UNCHANGED <<acceptorVars, server, poolVars, connVars, loopVars, sends, late,
                 reused, failed>>

world ==
  /\ running
  /\ clientConnects \/ otherOpens(connFds) \/ otherCloses
  /\ UNCHANGED <<server, poolVars, connVars, loopVars, userVars, reused, failed>>

LoopStep(l) == doPendingFunctors(l) \/ runFunctor(l) \/ iterationEnds(l)
User == sendQueues \/ userDrops \/ \E c \in Conns : sendTests(c)

Next == \/ start \/ startElsewhere \/ accept \/ emfile \/ destructor \/ join
        \/ \E c \in Conns : handleClose(c)
        \/ \E l \in Loops : LoopStep(l)
        \/ User
        \/ world

(* Threads go on: each loop iterates, an iteration of the base loop gives    *)
(* the active listening channel its turn and then runs the functors, what    *)
(* the base loop has begun it ends, the user thread lets go of its pointer.  *)
Fairness ==
  /\ SF_vars(accept)
  /\ SF_vars(LoopStep(0))
  /\ \A l \in Loops \ {0} : WF_vars(LoopStep(l))
  /\ WF_vars(emfile \/ join)
  /\ WF_vars(sendQueues \/ userDrops)

Spec == Init /\ [][Next]_vars /\ Fairness

--------------------------------------------------------------------------------
(* Properties. *)

(* TcpServer, TcpConnection: what can go wrong between the loops, and when.   *)
(* As long as nextConnId_ does not come round to a name in use, erase()       *)
(* finds its entry; a connection is destroyed open, or its removal finds the  *)
(* server gone, only when the server of a pool is destroyed; and send() of    *)
(* another thread meets an ended loop, or its raw pointer dangles, only when  *)
(* the server is destroyed or, for the pointer, the connection was closed     *)
(* during the call.                                                           *)
FailsOnlyAfter ==
  \/ reused
  \/ /\ failed \notin {"established", "erase"}
     /\ destroyedOpen \/ failed = "server" => server # "up" /\ numThreads_ > 0
     /\ failed = "loop" => server # "up"
     /\ failed = "send" => late \/ server # "up"

(* EventLoopThreadPool::getNextLoop: the connections are spread over all the *)
(* loops evenly, "on a round-robin basis".                                   *)
RoundRobin ==
  LET load(l) == Cardinality({c \in Conns : state_[c] # "none" /\ loop_[c] = l}) IN
  listenning_ => \A k, l \in getAllLoops : load(k) - load(l) \in {-1, 0, 1}

(* TcpConnection::handleClose to ~TcpConnection, through both loops and the  *)
(* server's map: no closed connection is kept, whatever the server, the pool *)
(* and the user thread are doing (finitely many clients come).               *)
ClosedIsReleased ==
  []<>(\/ \A c \in Conns : state_[c] = "kDisconnected" => ~referenced(c)
       \/ ~running)

(* Acceptor::handleRead: the clients in the backlog are accepted or turned   *)
(* away, also when the process has no descriptor left, unless another thread *)
(* takes the one that idleFd_ gives up.                                      *)
BacklogServed ==
  []<>(backlog = 0 \/ stolen \/ server # "up" \/ ~running)

================================================================================
