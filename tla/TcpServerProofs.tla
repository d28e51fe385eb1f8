---------------------------- MODULE TcpServerProofs ----------------------------
(***************************************************************************)
(* Proofs about TcpServer, for any number of clients, threads, descriptors   *)
(* and names: the connections are spread evenly, and what goes wrong between *)
(* the loops goes wrong only when a name is used twice, the server is        *)
(* destroyed or a connection is closed during a send().                      *)
(***************************************************************************)
EXTENDS TcpServer, FiniteSetTheorems, SequenceTheorems, TLAPS

Used == {c \in Conns : state_[c] # "none"}
Open(c) == state_[c] \in {"kConnecting", "kConnected"}

(* What loop l still has to run, oldest first. *)
queue(l) == batch[l] \o pending[l]

(* The clients that were accepted are the connections 1 to n. *)
CountInv ==
  /\ \E n \in 0 .. MaxClients : Used = 1 .. n /\ n + backlog <= arrived
  /\ accepting = "closed" => backlog > 0

(* Every pointer is to one of them; the map has them under their names. *)
PointerInv ==
  /\ \A i \in Ids : connections_[i] # NULL =>
       connections_[i] \in Used /\ id_[connections_[i]] = i
  /\ \A l \in Loops : \A i \in DOMAIN queue(l) : queue(l)[i][2] \in Used
  /\ user.holds # NULL => user.holds \in Used
  /\ user.sending => user.holds # NULL

(* next_ is where the next connection goes: the loops before it have one     *)
(* more than the others.                                                     *)
load(l) == Cardinality({c \in Conns : state_[c] # "none" /\ loop_[c] = l})
extra(l) == IF l <= next_ THEN 1 ELSE 0
PoolInv ==
  /\ numThreads_ \in ThreadNums
  /\ IF numThreads_ = 0 THEN next_ = 0 ELSE next_ < numThreads_
  /\ ~started_ => ~listenning_ /\ Used = {} /\ next_ = 0
  /\ \A c \in Used : loop_[c] = 0 <=> numThreads_ = 0
  /\ \A k, l \in 1 .. numThreads_ : load(k) - extra(k) = load(l) - extra(l)

(* The functors taken are run before the next are; loops end, and the map is *)
(* emptied, only when the server goes; the pool runs once it is started.     *)
PhaseInv ==
  /\ \A l \in Loops : pc[l] # "functors" => batch[l] = <<>>
  /\ \A l \in Loops : quit_[l] \/ pc[l] = "ended" => server # "up"
  /\ server # "up" => \A i \in Ids : connections_[i] = NULL
  /\ ~started_ => \A l \in Loops \ {0} : pc[l] = "off"

(* An open connection is in the map, or the server of a pool is going. *)
OpenInv ==
  \A c \in Used : Open(c) =>
    IF server = "up" THEN connections_[id_[c]] = c ELSE numThreads_ > 0

(* connectEstablished() is the first that happens to a connection, ... *)
EstablishedInv ==
  \A l \in Loops : \A i \in DOMAIN queue(l) : \A c \in Conns :
    queue(l)[i] = <<"connectEstablished", c>> =>
      /\ l # 0 /\ loop_[c] = l /\ state_[c] = "kConnecting"
      /\ \A j \in DOMAIN queue(l) :
           /\ queue(l)[j] = <<"connectEstablished", c>> => j = i
           /\ queue(l)[j] = <<"connectDestroyed", c>> => i < j

(* ... connectDestroyed() happens in its loop, ... *)
DestroyedInv ==
  \A l \in Loops : \A i \in DOMAIN queue(l) : \A c \in Conns :
    queue(l)[i] = <<"connectDestroyed", c>> => loop_[c] = l

(* ... and it is removed once, in the base loop, when it is closed and still *)
(* in the map.                                                               *)
RemoveInv ==
  \A l \in Loops : \A i \in DOMAIN queue(l) : \A c \in Conns :
    queue(l)[i] = <<"removeConnectionInLoop", c>> =>
      /\ l = 0 /\ loop_[c] # 0 /\ state_[c] = "kDisconnected"
      /\ server = "up" => connections_[id_[c]] = c
      /\ \A j \in DOMAIN queue(l) : queue(l)[j] = <<"removeConnectionInLoop", c>> => j = i

(* What keeps the connection of a queued sendInLoop() alive is the map, or   *)
(* the connectDestroyed() behind it.                                         *)
SendInv ==
  ~late /\ server = "up" =>
    \A l \in Loops : \A i \in DOMAIN queue(l) : \A c \in Conns :
      queue(l)[i] = <<"sendInLoop", c>> =>
        /\ loop_[c] = l
        /\ \/ connections_[id_[c]] = c
           \/ \E j \in DOMAIN queue(l) : i < j /\ queue(l)[j] = <<"connectDestroyed", c>>

LifeInv == OpenInv /\ EstablishedInv /\ DestroyedInv /\ RemoveInv /\ SendInv

(* What a step that ends the process leaves behind: FailsOnlyAfter, without  *)
(* the connections destroyed open, which LifeInv accounts for.               *)
FailedInv ==
  \/ reused
  \/ /\ failed \notin {"established", "erase"}
     /\ failed = "server" => server # "up" /\ numThreads_ > 0
     /\ failed = "loop" => server # "up"
     /\ failed = "send" => late \/ server # "up"

Inv == /\ TypeOK /\ CountInv /\ PointerInv /\ PoolInv /\ PhaseInv
       /\ ~reused => LifeInv
       /\ FailedInv

--------------------------------------------------------------------------------
(* What the operators do. *)

(* Loops are numbered up to the largest pool. *)
LEMMA LoopsRange ==
  /\ Max(ThreadNums) \in Nat /\ Loops = 0 .. Max(ThreadNums)
  /\ \A n \in ThreadNums : n \in Nat /\ n \in Loops /\ 1 .. n \subseteq Loops
  /\ 0 \in Loops
PROOF
  <1>1. Max(ThreadNums) \in ThreadNums /\ \A n \in ThreadNums : Max(ThreadNums) >= n
    BY serverAssumption DEF Max
  <1>2. PICK most : most = Max(ThreadNums)
    OBVIOUS
  <1>3. most \in Nat /\ \A n \in ThreadNums : n \in Nat /\ n <= most
    BY <1>1, <1>2, serverAssumption
  <1>4. Loops = 0 .. most
    BY <1>2 DEF Loops
  <1> QED
    BY <1>2, <1>3, <1>4

(* Sequence r is q without its first k elements and with elements of new. *)
Follows(q, k, r, new) ==
  /\ \A i \in DOMAIN r : \/ i + k \in DOMAIN q /\ r[i] = q[i + k]
                         \/ i + k > Len(q) /\ r[i] \in new
  /\ \A j \in DOMAIN q : j > k => j - k \in DOMAIN r /\ r[j - k] = q[j]

(* A functor is appended, or the first one is taken. *)
WithLast(q, r, f) ==
  /\ Follows(q, 0, r, {f})
  /\ \A i \in DOMAIN r : i <= Len(q) + 1
  /\ \E i \in DOMAIN r : i > Len(q) /\ r[i] = f
WithoutFirst(q, r, f) ==
  /\ 1 \in DOMAIN q /\ q[1] = f
  /\ Follows(q, 1, r, {})

(* queueInLoop() puts its functor at the end of what the loop has to run. *)
LEMMA AppendIsLast ==
  ASSUME NEW S, NEW b \in Seq(S), NEW p \in Seq(S), NEW f \in S
  PROVE  WithLast(b \o p, b \o Append(p, f), f)
PROOF
  <1>1. Follows(b \o p, 0, b \o Append(p, f), {f})
    BY DEF Follows
  <1>2. /\ Len(b \o p) + 1 \in DOMAIN (b \o Append(p, f)) /\ Len(b \o p) + 1 > Len(b \o p)
        /\ (b \o Append(p, f))[Len(b \o p) + 1] = f
        /\ \A i \in DOMAIN (b \o Append(p, f)) : i <= Len(b \o p) + 1
    OBVIOUS
  <1> QED
    BY <1>1, <1>2, Zenon DEF WithLast

(* A functor that is run is the first of what the loop has to run. *)
LEMMA TailIsWithoutFirst ==
  ASSUME NEW S, NEW b \in Seq(S), NEW p \in Seq(S), b # <<>>
  PROVE  WithoutFirst(b \o p, Tail(b) \o p, Head(b))
PROOF
  BY DEF Follows, WithoutFirst

(* The destructor puts several functors at the end. *)
LEMMA FollowsConcat ==
  ASSUME NEW S, NEW b \in Seq(S), NEW p \in Seq(S), NEW s \in Seq(S)
  PROVE  Follows(b \o p, 0, b \o (p \o s), Range(s))
PROOF
  BY DEF Follows, Range

(* A sequence that stays the same follows itself. *)
LEMMA FollowsSame ==
  ASSUME NEW S, NEW q \in Seq(S)
  PROVE  Follows(q, 0, q, {})
PROOF
  BY DEF Follows

(* doPendingFunctors() moves the functors from one sequence to the other. *)
LEMMA ConcatSwap ==
  ASSUME NEW S, NEW p \in Seq(S)
  PROVE  <<>> \o p = p \o <<>>
PROOF
  BY ConcatEmptySeq

(* What is made of the elements of a sequence is a sequence. *)
LEMMA MadeSeq ==
  ASSUME NEW S, NEW T, NEW n \in Nat, NEW s \in [1 .. n -> S], NEW fn,
         \A d \in S : <<fn, d>> \in T
  PROVE  [i \in DOMAIN s |-> <<fn, s[i]>>] \in Seq(T)
PROOF
  <1>1. [i \in DOMAIN s |-> <<fn, s[i]>>] \in [1 .. n -> T]
    OBVIOUS
  <1> QED
    BY <1>1, SeqDef

(* A queue holds functors. *)
LEMMA QueueType ==
  TypeOK => \A l \in Loops : /\ batch[l] \in Seq(Functors) /\ pending[l] \in Seq(Functors)
                             /\ queue(l) \in Seq(Functors)
                             /\ DOMAIN queue(l) = 1 .. Len(queue(l)) /\ Len(queue(l)) \in Nat
PROOF
  BY DEF TypeOK, queue

(* The same after a step. *)
LEMMA QueueTypeNext ==
  TypeOK' => \A l \in Loops : /\ queue(l)' \in Seq(Functors)
                              /\ DOMAIN queue(l)' = 1 .. Len(queue(l)') /\ Len(queue(l)') \in Nat
PROOF
  BY DEF TypeOK, queue

(* The client accepted becomes the connection after the last. *)
LEMMA NewConnectionIsNew ==
  ASSUME CountInv, TypeOK, backlog > 0
  PROVE  \E c \in Conns : /\ c = 1 + Cardinality({d \in Conns : state_[d] # "none"})
                          /\ c \notin Used /\ Used = 1 .. c - 1
                          /\ c + (backlog - 1) <= arrived
PROOF
  <1>1. PICK n \in 0 .. MaxClients : Used = 1 .. n /\ n + backlog <= arrived
    BY Zenon DEF CountInv
  <1>2. MaxClients \in Nat /\ backlog \in Nat /\ arrived \in Nat /\ arrived <= MaxClients
    BY serverAssumption DEF TypeOK, AcceptorTypeOK
  <1>3. Cardinality(1 .. n) = n
    BY <1>1, <1>2, FS_Interval
  <1>4. Cardinality({d \in Conns : state_[d] # "none"}) = n
    BY <1>1, <1>3 DEF Used
  <1>5. n + 1 \in Conns /\ n + 1 \notin Used /\ Used = 1 .. (n + 1) - 1
    BY <1>1, <1>2 DEF Conns
  <1>6. n + 1 = 1 + Cardinality({d \in Conns : state_[d] # "none"})
    BY <1>1, <1>4
  <1>7. (n + 1) + (backlog - 1) <= arrived
    BY <1>1, <1>2
  <1> QED
    BY <1>5, <1>6, <1>7

--------------------------------------------------------------------------------
(* Types. *)

(* The types of the groups of variables *)
PoolTypeOK == numThreads_ \in Loops /\ started_ \in BOOLEAN /\ next_ \in Loops
ConnTypeOK ==
  /\ nextConnId_ \in Ids
  /\ connections_ \in [Ids -> Conns \cup {NULL}]
  /\ state_ \in [Conns -> ConnStates]
  /\ loop_ \in [Conns -> Loops] /\ id_ \in [Conns -> Ids]
LoopTypeOK ==
  /\ pc \in [Loops -> {"off", "poll", "functors", "ended"}]
  /\ quit_ \in [Loops -> BOOLEAN]
  /\ pending \in [Loops -> Seq(Functors)] /\ batch \in [Loops -> Seq(Functors)]
UserTypeOK ==
  /\ user \in [holds : Conns \cup {NULL}, sending : BOOLEAN]
  /\ sends \in 0 .. MaxSends
  /\ late \in BOOLEAN
RestTypeOK ==
  /\ server \in {"up", "joining", "gone"}
  /\ reused \in BOOLEAN
  /\ failed \in {"no", "start", "accept", "established", "erase", "server", "send", "loop"}

(* TypeOK is the types of the groups. *)
LEMMA TypeParts ==
  TypeOK <=> /\ AcceptorTypeOK /\ PoolTypeOK /\ ConnTypeOK /\ LoopTypeOK /\ UserTypeOK
             /\ RestTypeOK
PROOF
  BY Zenon DEF TypeOK, PoolTypeOK, ConnTypeOK, LoopTypeOK, UserTypeOK, RestTypeOK

(* What does not change keeps its type. *)
LEMMA TypeKept ==
  ASSUME TypeOK
  PROVE  /\ UNCHANGED acceptorVars => AcceptorTypeOK'
         /\ UNCHANGED poolVars => PoolTypeOK'
         /\ UNCHANGED connVars => ConnTypeOK'
         /\ UNCHANGED loopVars => LoopTypeOK'
         /\ UNCHANGED userVars => UserTypeOK'
         /\ UNCHANGED <<server, reused, failed>> => RestTypeOK'
PROOF
  <1>1. UNCHANGED acceptorVars => AcceptorTypeOK'
    BY Zenon DEF TypeOK, AcceptorTypeOK, acceptorVars
  <1>2. UNCHANGED poolVars => PoolTypeOK'
    BY Zenon DEF TypeOK, PoolTypeOK, poolVars
  <1>3. UNCHANGED connVars => ConnTypeOK'
    BY Zenon DEF TypeOK, ConnTypeOK, connVars
  <1>4. UNCHANGED loopVars => LoopTypeOK'
    BY Zenon DEF TypeOK, LoopTypeOK, loopVars
  <1>5. UNCHANGED userVars => UserTypeOK'
    BY Zenon DEF TypeOK, UserTypeOK, userVars
  <1>6. UNCHANGED <<server, reused, failed>> => RestTypeOK'
    BY Zenon DEF TypeOK, RestTypeOK
  <1> QED
    BY <1>1, <1>2, <1>3, <1>4, <1>5, <1>6, Zenon

(* A functor is queued, or the functors are dropped. *)
LEMMA QueuesType ==
  ASSUME NEW P \in [Loops -> Seq(Functors)], NEW l
  PROVE  /\ \A fn, c : <<fn, c>> \in Functors =>
              [P EXCEPT ![l] = Append(@, <<fn, c>>)] \in [Loops -> Seq(Functors)]
         /\ [P EXCEPT ![l] = <<>>] \in [Loops -> Seq(Functors)]
PROOF
  <1>1. ASSUME NEW f \in Functors
        PROVE  [P EXCEPT ![l] = Append(@, f)] \in [Loops -> Seq(Functors)]
    <2>1. \A m \in Loops : P[m] \in Seq(Functors) /\ Append(P[m], f) \in Seq(Functors)
      BY AppendProperties
    <2> QED
      BY <2>1
  <1>2. <<>> \in Seq(Functors)
    OBVIOUS
  <1>3. [P EXCEPT ![l] = <<>>] \in [Loops -> Seq(Functors)]
    BY <1>2, Zenon
  <1> QED
    BY <1>1, <1>3

(* What removeConnectionInLoop() does to the types *)
LEMMA RemoveType ==
  ASSUME TypeOK, NEW c \in Conns, removeConnectionInLoop(c)
  PROVE  /\ failed' \in {"server", "erase", "no"}
         /\ connections_' \in [Ids -> Conns \cup {NULL}]
         /\ pending' \in [Loops -> Seq(Functors)]
PROOF
  <1>1. failed' \in {"server", "erase", "no"}
    BY DEF removeConnectionInLoop
  <1>2. connections_' \in [Ids -> Conns \cup {NULL}]
    BY DEF removeConnectionInLoop, TypeOK
  <1>3. pending' \in [Loops -> Seq(Functors)]
    BY DEF removeConnectionInLoop, queueInLoop, TypeOK, Functors
  <1> QED
    BY <1>1, <1>2, <1>3

(* The constructors give every variable its type. *)
LEMMA TypeInit == Init => TypeOK
PROOF
  <1> SUFFICES ASSUME Init PROVE TypeOK
    OBVIOUS
  <1>1. AcceptorTypeOK
    <2>1. listenning_ \in BOOLEAN /\ idleFd_ \in BOOLEAN /\ stolen \in BOOLEAN
      BY Zenon DEF Init, AcceptorInit
    <2>2. arrived = 0 /\ backlog = 0 /\ otherFds = 0 /\ accepting = "no"
      BY Zenon DEF Init, AcceptorInit
    <2>3. arrived \in 0 .. MaxClients /\ backlog \in 0 .. arrived /\ otherFds \in 0 .. MaxOtherFds
      BY <2>2, serverAssumption
    <2> QED
      BY <2>1, <2>2, <2>3, Zenon DEF AcceptorTypeOK
  <1>2. PoolTypeOK
    <2>1. numThreads_ \in Loops /\ next_ \in Loops
      BY LoopsRange DEF Init
    <2>2. started_ \in BOOLEAN
      BY Zenon DEF Init
    <2> QED
      BY <2>1, <2>2, Zenon DEF PoolTypeOK
  <1>3. ConnTypeOK
    <2>1. nextConnId_ \in Ids /\ 0 \in Ids
      BY serverAssumption DEF Init, Ids
    <2> QED
      BY <2>1, LoopsRange DEF Init, ConnStates, ConnTypeOK
  <1>4. LoopTypeOK
    BY DEF Init, LoopTypeOK
  <1>5. UserTypeOK
    <2>1. late \in BOOLEAN
      BY Zenon DEF Init
    <2>2. user = [holds |-> NULL, sending |-> FALSE] /\ sends = 0
      BY Zenon DEF Init
    <2>3. user \in [holds : Conns \cup {NULL}, sending : BOOLEAN] /\ sends \in 0 .. MaxSends
      BY <2>2, serverAssumption
    <2> QED
      BY <2>1, <2>3, Zenon DEF UserTypeOK
  <1>6. RestTypeOK
    BY Zenon DEF Init, RestTypeOK
  <1> QED
    BY <1>1, <1>2, <1>3, <1>4, <1>5, <1>6, TypeParts, Zenon

(* The acceptor's own steps *)
LEMMA AcceptorType ==
  ASSUME AcceptorTypeOK, NEW n
  PROVE  /\ listen => AcceptorTypeOK'
         /\ destroyAcceptor => AcceptorTypeOK'
         /\ \A outcome : handleRead(outcome) => AcceptorTypeOK'
         /\ (accepting = "closed" => backlog > 0) /\ emfileAccept(n) => AcceptorTypeOK'
         /\ emfileClose \/ emfileOpen(n) => AcceptorTypeOK'
         /\ clientConnects \/ otherOpens(n) \/ otherCloses => AcceptorTypeOK'
PROOF
  <1> DEFINE Bools == listenning_ \in BOOLEAN /\ idleFd_ \in BOOLEAN /\ stolen \in BOOLEAN
             Rest == /\ arrived \in 0 .. MaxClients /\ backlog \in 0 .. arrived
                     /\ otherFds \in 0 .. MaxOtherFds
                     /\ accepting \in {"no", "closed", "accepted", "refused", "missed"}
  <1>0. Bools /\ Rest /\ (Bools' /\ Rest' => AcceptorTypeOK') /\ MaxClients \in Nat /\ MaxOtherFds \in Nat
    BY serverAssumption, Zenon DEF AcceptorTypeOK
  <1>1. listen => AcceptorTypeOK'
    BY <1>0, Zenon DEF listen
  <1>2. ASSUME destroyAcceptor
        PROVE  AcceptorTypeOK'
    <2>1. Bools' /\ arrived' = arrived /\ otherFds' = otherFds /\ accepting' = accepting /\ backlog' = 0
      BY <1>0, <1>2, Zenon DEF destroyAcceptor
    <2>2. Rest'
      BY <1>0, <2>1
    <2> QED
      BY <1>0, <2>1, <2>2
  <1>3. ASSUME NEW outcome, handleRead(outcome)
        PROVE  AcceptorTypeOK'
    <2>1. /\ Bools' /\ arrived' = arrived /\ otherFds' = otherFds /\ backlog > 0
          /\ backlog' = backlog - 1 \/ backlog' = backlog
          /\ accepting' \in {"no", "closed"}
      BY <1>0, <1>3, Zenon DEF handleRead
    <2>2. Rest'
      BY <1>0, <2>1
    <2> QED
      BY <1>0, <2>1, <2>2
  <1>4. ASSUME accepting = "closed" => backlog > 0, emfileAccept(n)
        PROVE  AcceptorTypeOK'
    <2>1. /\ Bools' /\ arrived' = arrived /\ otherFds' = otherFds /\ backlog > 0
          /\ backlog' = backlog - 1 \/ backlog' = backlog
          /\ accepting' \in {"accepted", "missed"}
      BY <1>0, <1>4, Zenon DEF emfileAccept
    <2>2. Rest'
      BY <1>0, <2>1
    <2> QED
      BY <1>0, <2>1, <2>2
  <1>5. ASSUME emfileClose \/ emfileOpen(n)
        PROVE  AcceptorTypeOK'
    <2>0. (freeFds(n) > 0) \in BOOLEAN
      OBVIOUS
    <2>1. /\ Bools' /\ arrived' = arrived /\ otherFds' = otherFds /\ backlog' = backlog
          /\ accepting' \in {"refused", "no"}
      BY <1>0, <1>5, <2>0, Zenon DEF emfileClose, emfileOpen
    <2>2. Rest'
      BY <1>0, <2>1
    <2> QED
      BY <1>0, <2>1, <2>2
  <1>6. ASSUME clientConnects \/ otherOpens(n) \/ otherCloses
        PROVE  AcceptorTypeOK'
    <2>1. Bools' /\ accepting' = accepting
      BY <1>0, <1>6, Zenon DEF clientConnects, otherOpens, otherCloses
    <2>2. \/ arrived < MaxClients /\ arrived' = arrived + 1 /\ backlog' = backlog + 1 /\ otherFds' = otherFds
          \/ /\ arrived' = arrived /\ backlog' = backlog
             /\ \/ otherFds < MaxOtherFds /\ otherFds' = otherFds + 1
                \/ otherFds > 0 /\ otherFds' = otherFds - 1
      BY <1>6, Zenon DEF clientConnects, otherOpens, otherCloses
    <2>3. Rest'
      BY <1>0, <2>1, <2>2
    <2> QED
      BY <1>0, <2>1, <2>3
  <1> QED
    BY <1>1, <1>2, <1>3, <1>4, <1>5, <1>6, Zenon

(* Every step keeps the types. *)
LEMMA TypeStep ==
  ASSUME TypeOK, CountInv, PointerInv, PoolInv, Next
  PROVE  TypeOK'
PROOF
  <1>0. /\ AcceptorTypeOK /\ PoolTypeOK /\ ConnTypeOK /\ LoopTypeOK /\ UserTypeOK /\ RestTypeOK
        /\ (/\ AcceptorTypeOK' /\ PoolTypeOK' /\ ConnTypeOK' /\ LoopTypeOK' /\ UserTypeOK'
            /\ RestTypeOK') => TypeOK'
    BY TypeParts, Zenon DEF TypeOK, PoolTypeOK, ConnTypeOK, LoopTypeOK, UserTypeOK, RestTypeOK
  <1>1. ASSUME start
        PROVE  TypeOK'
    <2>1. AcceptorTypeOK'
      BY <1>0, <1>1, AcceptorType, Zenon DEF start
    <2>2. PoolTypeOK'
      BY <1>0, <1>1, Zenon DEF start, PoolTypeOK
    <2>3. pc' \in [Loops -> {"off", "poll", "functors", "ended"}]
      BY <1>0, <1>1 DEF start, LoopTypeOK
    <2>4. LoopTypeOK'
      BY <1>0, <1>1, <2>3, Zenon DEF start, LoopTypeOK
    <2>5. ConnTypeOK' /\ UserTypeOK' /\ RestTypeOK'
      BY <1>1, TypeKept, Zenon DEF start
    <2> QED
      BY <1>0, <2>1, <2>2, <2>4, <2>5, Zenon
  <1>2. ASSUME startElsewhere
        PROVE  TypeOK'
    <2>1. AcceptorTypeOK' /\ ConnTypeOK' /\ LoopTypeOK' /\ UserTypeOK'
      BY <1>2, TypeKept, Zenon DEF startElsewhere
    <2>2. PoolTypeOK' /\ RestTypeOK'
      BY <1>0, <1>2, Zenon DEF startElsewhere, PoolTypeOK, RestTypeOK
    <2> QED
      BY <1>0, <2>1, <2>2, Zenon
  <1>3. ASSUME accept
        PROVE  TypeOK'
    <2>1. PICK outcome \in acceptOutcomes(connFds) :
            /\ handleRead(outcome)
            /\ failed' = IF outcome = "fatal" THEN "accept" ELSE "no"
            /\ IF outcome = "ok"
               THEN newConnection(1 + Cardinality({c \in Conns : state_[c] # "none"}))
               ELSE UNCHANGED <<next_, connVars, pending, reused>>
      BY <1>3, Zenon DEF accept
    <2>2. AcceptorTypeOK' /\ UserTypeOK'
      BY <1>0, <1>3, <2>1, AcceptorType, TypeKept, Zenon DEF accept
    <2>3. /\ server' = server /\ numThreads_' = numThreads_ /\ started_' = started_
          /\ pc' = pc /\ quit_' = quit_ /\ batch' = batch /\ failed' \in {"accept", "no"}
          /\ backlog > 0
      BY <1>3, <2>1, Zenon DEF accept
    <2>4. CASE outcome # "ok"
      <3>1. UNCHANGED <<next_, connVars, pending, reused>>
        BY <2>1, <2>4, Zenon
      <3>2. PoolTypeOK' /\ ConnTypeOK' /\ LoopTypeOK' /\ RestTypeOK'
        BY <1>0, <2>3, <3>1, Zenon DEF PoolTypeOK, ConnTypeOK, LoopTypeOK, RestTypeOK, connVars
      <3> QED
        BY <1>0, <2>2, <3>2, Zenon
    <2>5. CASE outcome = "ok"
      <3>1. PICK c \in Conns : newConnection(c)
        BY <2>1, <2>3, <2>5, NewConnectionIsNew, Zenon
      <3>2. getNextLoop \in Loops /\ nextAfter \in Loops
        <4>1. numThreads_ \in Nat /\ next_ \in Nat /\ \A n \in 0 .. numThreads_ : n \in Loops
          BY <1>0, LoopsRange DEF PoolTypeOK, PoolInv
        <4>2. loops_ = {} \/ (loops_ = 1 .. numThreads_ /\ numThreads_ # 0)
          BY <4>1 DEF loops_
        <4>3. loops_ # {} => next_ < numThreads_
          BY <4>1, <4>2 DEF PoolInv
        <4>4. getNextLoop \in 0 .. numThreads_
          BY <4>1, <4>2, <4>3 DEF getNextLoop
        <4>5. nextAfter \in 0 .. numThreads_ \/ nextAfter = next_
          BY <4>1, <4>2, <4>3 DEF nextAfter
        <4> QED
          BY <1>0, <4>1, <4>4, <4>5 DEF PoolTypeOK
      <3>3. PoolTypeOK'
        BY <1>0, <2>3, <3>1, <3>2, Zenon DEF PoolTypeOK, newConnection
      <3>4. RestTypeOK'
        BY <1>0, <2>3, <3>1, Zenon DEF RestTypeOK, newConnection
      <3>5. PICK io \in Loops : io = getNextLoop
        BY <3>2
      <3>6. /\ nextConnId_' = (nextConnId_ + 1) % IdRange
            /\ connections_' = [connections_ EXCEPT ![nextConnId_] = c]
            /\ loop_' = [loop_ EXCEPT ![c] = io]
            /\ id_' = [id_ EXCEPT ![c] = nextConnId_]
            /\ \/ state_' = [state_ EXCEPT ![c] = "kConnected"]
               \/ state_' = [state_ EXCEPT ![c] = "kConnecting"]
            /\ pending' = pending \/ pending' = [pending EXCEPT ![io] = Append(@, <<"connectEstablished", c>>)]
        BY <3>1, <3>5, Zenon DEF newConnection, queueInLoop
      <3>7. ConnTypeOK'
        <4>1. nextConnId_' \in Ids
          BY <1>0, <3>6, serverAssumption DEF ConnTypeOK, Ids
        <4> QED
          BY <1>0, <3>6, <4>1 DEF ConnTypeOK, ConnStates
      <3>8. pending' \in [Loops -> Seq(Functors)]
        <4>1. <<"connectEstablished", c>> \in Functors
          BY DEF Functors
        <4>2. pending \in [Loops -> Seq(Functors)]
          BY <1>0, Zenon DEF LoopTypeOK
        <4>3. [pending EXCEPT ![io] = Append(@, <<"connectEstablished", c>>)]
                \in [Loops -> Seq(Functors)]
          BY <4>1, <4>2, QueuesType, Zenon
        <4> QED
          BY <3>6, <4>2, <4>3, Zenon
      <3>9. LoopTypeOK'
        BY <1>0, <2>3, <3>8, Zenon DEF LoopTypeOK
      <3> QED
        BY <1>0, <2>2, <3>3, <3>4, <3>7, <3>9, Zenon
    <2> QED
      BY <2>4, <2>5
  <1>4. ASSUME emfile
        PROVE  TypeOK'
    <2>1. PoolTypeOK' /\ ConnTypeOK' /\ LoopTypeOK' /\ UserTypeOK' /\ RestTypeOK'
      BY <1>4, TypeKept, Zenon DEF emfile
    <2>2. AcceptorTypeOK'
      BY <1>0, <1>4, AcceptorType, Zenon DEF emfile, CountInv
    <2> QED
      BY <1>0, <2>1, <2>2, Zenon
  <1>5. ASSUME destructor
        PROVE  TypeOK'
    <2> DEFINE inMap(l) == {c \in Conns : loop_[c] = l /\ \E i \in Ids : connections_[i] = c}
    <2>1. PICK told : /\ \A l \in Loops : told[l] \in SetToSeqs(inMap(l))
                      /\ pending' = [l \in Loops |->
                           IF l = 0 THEN pending[l]
                           ELSE pending[l] \o [i \in DOMAIN told[l] |-> <<"connectDestroyed", told[l][i]>>]]
      BY <1>5, Zenon DEF destructor
    <2>2. ASSUME NEW l \in Loops
          PROVE  [i \in DOMAIN told[l] |-> <<"connectDestroyed", told[l][i]>>] \in Seq(Functors)
      <3>1. told[l] \in [1 .. Cardinality(inMap(l)) -> inMap(l)]
        BY <2>1 DEF SetToSeqs
      <3>2. Cardinality(inMap(l)) \in Nat
        <4>1. IsFiniteSet(Conns) /\ inMap(l) \subseteq Conns
          BY serverAssumption, FS_Interval DEF Conns
        <4> QED
          BY <4>1, FS_Subset, FS_CardinalityType
      <3>3. \A d \in inMap(l) : <<"connectDestroyed", d>> \in Functors
        BY DEF Functors
      <3> HIDE DEF inMap
      <3> QED
        BY <3>1, <3>2, <3>3, MadeSeq
    <2>3. pending' \in [Loops -> Seq(Functors)]
      BY <1>0, <2>1, <2>2 DEF LoopTypeOK
    <2>4. LoopTypeOK'
      BY <1>0, <1>5, <2>3, Zenon DEF LoopTypeOK, destructor
    <2>5. PoolTypeOK' /\ UserTypeOK'
      BY <1>5, TypeKept, Zenon DEF destructor
    <2>6. AcceptorTypeOK' /\ RestTypeOK'
      BY <1>0, <1>5, AcceptorType, Zenon DEF destructor, RestTypeOK
    <2>7. /\ connections_' = [i \in Ids |-> NULL]
          /\ state_' = [c \in Conns |-> IF c \in inMap(0) THEN "kDisconnected" ELSE state_[c]]
          /\ nextConnId_' = nextConnId_ /\ loop_' = loop_ /\ id_' = id_
      BY <1>5, Zenon DEF destructor
    <2>8. ConnTypeOK'
      <3> HIDE DEF inMap
      <3> QED
        BY <1>0, <2>7 DEF ConnTypeOK, ConnStates
    <2> QED
      BY <1>0, <2>4, <2>5, <2>6, <2>8, Zenon
  <1>6. ASSUME join
        PROVE  TypeOK'
    <2>1. AcceptorTypeOK' /\ PoolTypeOK' /\ ConnTypeOK' /\ UserTypeOK'
      BY <1>6, TypeKept, Zenon DEF join
    <2>2. RestTypeOK'
      BY <1>0, <1>6, Zenon DEF join, RestTypeOK
    <2>3. /\ quit_' = quit_ \/ quit_' = [quit_ EXCEPT ![joining] = TRUE]
          /\ pc' = pc /\ pending' = pending /\ batch' = batch
      BY <1>6, Zenon DEF join
    <2>4. quit_' \in [Loops -> BOOLEAN]
      BY <1>0, <2>3 DEF LoopTypeOK
    <2>5. LoopTypeOK'
      BY <1>0, <2>3, <2>4, Zenon DEF LoopTypeOK
    <2> QED
      BY <1>0, <2>1, <2>2, <2>5, Zenon
  <1>7. ASSUME NEW c \in Conns, handleClose(c)
        PROVE  TypeOK'
    <2>1. AcceptorTypeOK' /\ PoolTypeOK' /\ UserTypeOK'
      BY <1>7, TypeKept, Zenon DEF handleClose
    <2>2. /\ pc' = pc /\ quit_' = quit_ /\ batch' = batch /\ server' = server /\ reused' = reused
          /\ nextConnId_' = nextConnId_ /\ loop_' = loop_ /\ id_' = id_
          /\ state_' = [state_ EXCEPT ![c] = "kDisconnected"]
          /\ \/ removeConnectionInLoop(c)
             \/ queueInLoop(0, "removeConnectionInLoop", c) /\ UNCHANGED <<connections_, failed>>
      BY <1>7, Zenon DEF handleClose
    <2>3. CASE removeConnectionInLoop(c)
      <3>1. /\ failed' \in {"server", "erase", "no"}
            /\ connections_' \in [Ids -> Conns \cup {NULL}]
            /\ pending' \in [Loops -> Seq(Functors)]
        BY <2>3, RemoveType, Zenon
      <3>2. ConnTypeOK'
        BY <1>0, <2>2, <3>1 DEF ConnTypeOK, ConnStates
      <3>3. LoopTypeOK' /\ RestTypeOK'
        BY <1>0, <2>2, <3>1, Zenon DEF LoopTypeOK, RestTypeOK
      <3> QED
        BY <1>0, <2>1, <3>2, <3>3, Zenon
    <2>4. CASE queueInLoop(0, "removeConnectionInLoop", c) /\ UNCHANGED <<connections_, failed>>
      <3>1. ConnTypeOK'
        BY <1>0, <2>2, <2>4 DEF ConnTypeOK, ConnStates
      <3>2. pending' \in [Loops -> Seq(Functors)]
        <4>1. <<"removeConnectionInLoop", c>> \in Functors
          BY DEF Functors
        <4> QED
          BY <1>0, <2>4, <4>1, QueuesType, Zenon DEF LoopTypeOK, queueInLoop
      <3>3. LoopTypeOK' /\ RestTypeOK'
        BY <1>0, <2>2, <2>4, <3>2, Zenon DEF LoopTypeOK, RestTypeOK
      <3> QED
        BY <1>0, <2>1, <3>1, <3>3, Zenon
    <2> QED
      BY <2>2, <2>3, <2>4
  <1>8. ASSUME NEW l \in Loops, doPendingFunctors(l)
        PROVE  TypeOK'
    <2>1. AcceptorTypeOK' /\ PoolTypeOK' /\ ConnTypeOK' /\ UserTypeOK' /\ RestTypeOK'
      BY <1>8, TypeKept, Zenon DEF doPendingFunctors
    <2>2. /\ pc' = [pc EXCEPT ![l] = "functors"] /\ quit_' = quit_
          /\ batch' = [batch EXCEPT ![l] = pending[l]]
          /\ pending' = [pending EXCEPT ![l] = <<>>]
      BY <1>8, Zenon DEF doPendingFunctors
    <2>3. /\ pc' \in [Loops -> {"off", "poll", "functors", "ended"}]
          /\ batch' \in [Loops -> Seq(Functors)] /\ pending' \in [Loops -> Seq(Functors)]
      BY <1>0, <2>2 DEF LoopTypeOK
    <2>4. LoopTypeOK'
      BY <1>0, <2>2, <2>3, Zenon DEF LoopTypeOK
    <2> QED
      BY <1>0, <2>1, <2>4, Zenon
  <1>9. ASSUME NEW l \in Loops, runFunctor(l)
        PROVE  TypeOK'
    <2>1. AcceptorTypeOK' /\ PoolTypeOK' /\ UserTypeOK'
      BY <1>9, TypeKept, Zenon DEF runFunctor
    <2>2. PICK c : c = Head(batch[l])[2]
      OBVIOUS
    <2>3. c \in Conns /\ batch' \in [Loops -> Seq(Functors)]
      <3>1. batch[l] # <<>> /\ batch[l] \in Seq(Functors)
        BY <1>0, <1>9 DEF runFunctor, LoopTypeOK
      <3>2. Head(batch[l]) \in Functors /\ Tail(batch[l]) \in Seq(Functors)
        BY <3>1
      <3>3. batch' = [batch EXCEPT ![l] = Tail(@)]
        BY <1>9, Zenon DEF runFunctor
      <3> QED
        BY <1>0, <2>2, <3>2, <3>3 DEF Functors, LoopTypeOK
    <2>4. /\ pc' = pc /\ quit_' = quit_ /\ server' = server /\ reused' = reused
          /\ nextConnId_' = nextConnId_ /\ loop_' = loop_ /\ id_' = id_
          /\ \/ /\ failed' \in {"no", "established"}
                /\ state_' = [state_ EXCEPT ![c] = "kConnected"]
                /\ UNCHANGED <<connections_, pending>>
             \/ /\ state_' = [state_ EXCEPT ![c] = "kDisconnected"]
                /\ UNCHANGED <<connections_, pending, failed>>
             \/ removeConnectionInLoop(c) /\ UNCHANGED state_
             \/ failed' \in {"no", "send"} /\ UNCHANGED <<state_, connections_, pending>>
      BY <1>9, <2>2, Zenon DEF runFunctor
    <2>5. /\ failed' \in {"no", "start", "accept", "established", "erase", "server", "send", "loop"}
          /\ connections_' \in [Ids -> Conns \cup {NULL}]
          /\ pending' \in [Loops -> Seq(Functors)]
      BY <1>0, <2>3, <2>4, RemoveType, Zenon DEF RestTypeOK, ConnTypeOK, LoopTypeOK
    <2>6. state_' \in [Conns -> ConnStates]
      <3>1. \/ state_' = [state_ EXCEPT ![c] = "kConnected"]
            \/ state_' = [state_ EXCEPT ![c] = "kDisconnected"]
            \/ state_' = state_
        BY <2>4, Zenon
      <3> QED
        BY <1>0, <3>1 DEF ConnTypeOK, ConnStates
    <2>7. ConnTypeOK' /\ LoopTypeOK' /\ RestTypeOK'
      BY <1>0, <2>3, <2>4, <2>5, <2>6, Zenon DEF ConnTypeOK, LoopTypeOK, RestTypeOK
    <2> QED
      BY <1>0, <2>1, <2>7, Zenon
  <1>10. ASSUME NEW l \in Loops, iterationEnds(l)
         PROVE  TypeOK'
    <2>1. AcceptorTypeOK' /\ PoolTypeOK' /\ ConnTypeOK' /\ UserTypeOK' /\ RestTypeOK'
      BY <1>10, TypeKept, Zenon DEF iterationEnds
    <2>2. /\ quit_' = quit_ /\ batch' = batch
          /\ pc' = [pc EXCEPT ![l] = "poll"] \/ pc' = [pc EXCEPT ![l] = "ended"]
          /\ pending' = pending \/ pending' = [pending EXCEPT ![l] = <<>>]
      BY <1>10, Zenon DEF iterationEnds
    <2>3. pc' \in [Loops -> {"off", "poll", "functors", "ended"}]
      BY <1>0, <2>2 DEF LoopTypeOK
    <2>4. pending' \in [Loops -> Seq(Functors)]
      <3>1. pending \in [Loops -> Seq(Functors)]
        BY <1>0, Zenon DEF LoopTypeOK
      <3>2. [pending EXCEPT ![l] = <<>>] \in [Loops -> Seq(Functors)]
        BY <3>1, QueuesType, Zenon
      <3> QED
        BY <2>2, <3>1, <3>2, Zenon
    <2>5. LoopTypeOK'
      BY <1>0, <2>2, <2>3, <2>4, Zenon DEF LoopTypeOK
    <2> QED
      BY <1>0, <2>1, <2>5, Zenon
  <1>11. ASSUME NEW c \in Conns, sendTests(c)
         PROVE  TypeOK'
    <2>1. AcceptorTypeOK' /\ PoolTypeOK' /\ ConnTypeOK' /\ LoopTypeOK' /\ RestTypeOK'
      BY <1>11, TypeKept, Zenon DEF sendTests
    <2>2. user' = [holds |-> c, sending |-> TRUE] /\ sends < MaxSends /\ sends' = sends + 1 /\ late' = late
      BY <1>11, Zenon DEF sendTests
    <2>3. user' \in [holds : Conns \cup {NULL}, sending : BOOLEAN] /\ sends' \in 0 .. MaxSends
      BY <1>0, <2>2, serverAssumption DEF UserTypeOK
    <2>4. UserTypeOK'
      BY <1>0, <2>2, <2>3, Zenon DEF UserTypeOK
    <2> QED
      BY <1>0, <2>1, <2>4, Zenon
  <1>12. ASSUME sendQueues
         PROVE  TypeOK'
    <2>1. AcceptorTypeOK' /\ PoolTypeOK' /\ ConnTypeOK'
      BY <1>12, TypeKept, Zenon DEF sendQueues
    <2>2. PICK c : c = user.holds
      OBVIOUS
    <2>3. c \in Conns
      BY <1>0, <1>12, <2>2 DEF sendQueues, PointerInv, UserTypeOK
    <2>4. /\ user' = [user EXCEPT !.sending = FALSE] /\ sends' = sends
          /\ late' \in BOOLEAN /\ reused' = reused /\ server' = server
          /\ failed' \in {"loop", "no"} /\ pc' = pc /\ quit_' = quit_ /\ batch' = batch
          /\ pending' = [pending EXCEPT ![loop_[c]] = Append(@, <<"sendInLoop", c>>)]
      BY <1>12, <2>2, Zenon DEF sendQueues, queueInLoop
    <2>5. pending' \in [Loops -> Seq(Functors)]
      <3>1. <<"sendInLoop", c>> \in Functors
        BY <2>3 DEF Functors
      <3> QED
        BY <1>0, <2>4, <3>1, QueuesType, Zenon DEF LoopTypeOK
    <2>6. user' \in [holds : Conns \cup {NULL}, sending : BOOLEAN]
      BY <1>0, <2>4 DEF UserTypeOK
    <2>7. LoopTypeOK' /\ UserTypeOK' /\ RestTypeOK'
      BY <1>0, <2>4, <2>5, <2>6, Zenon DEF LoopTypeOK, UserTypeOK, RestTypeOK
    <2> QED
      BY <1>0, <2>1, <2>7, Zenon
  <1>13. ASSUME userDrops
         PROVE  TypeOK'
    <2>1. AcceptorTypeOK' /\ PoolTypeOK' /\ ConnTypeOK' /\ LoopTypeOK' /\ RestTypeOK'
      BY <1>13, TypeKept, Zenon DEF userDrops
    <2>2. user' = [user EXCEPT !.holds = NULL] /\ sends' = sends /\ late' = late
      BY <1>13, Zenon DEF userDrops
    <2>3. user' \in [holds : Conns \cup {NULL}, sending : BOOLEAN]
      BY <1>0, <2>2 DEF UserTypeOK
    <2>4. UserTypeOK'
      BY <1>0, <2>2, <2>3, Zenon DEF UserTypeOK
    <2> QED
      BY <1>0, <2>1, <2>4, Zenon
  <1>14. ASSUME world
         PROVE  TypeOK'
    <2>1. PoolTypeOK' /\ ConnTypeOK' /\ LoopTypeOK' /\ UserTypeOK' /\ RestTypeOK'
      BY <1>14, TypeKept, Zenon DEF world
    <2>2. AcceptorTypeOK'
      BY <1>0, <1>14, AcceptorType, Zenon DEF world
    <2> QED
      BY <1>0, <2>1, <2>2, Zenon
  <1> QED
    BY <1>1, <1>2, <1>3, <1>4, <1>5, <1>6, <1>7, <1>8, <1>9, <1>10, <1>11, <1>12, <1>13, <1>14, Zenon
    DEF Next, LoopStep, User

--------------------------------------------------------------------------------
(* What the steps do to the lives of the connections. *)

(* Nothing, or the server is gone after joining its threads. *)
Quiet ==
  /\ \A l \in Loops : queue(l)' = queue(l)
  /\ UNCHANGED <<state_, connections_, id_, loop_, late, reused>>
  /\ server' = server \/ (server = "joining" /\ server' = "gone")

(* Loop l gets a functor, or runs its first one. *)
Appended(l, f) == WithLast(queue(l), queue(l)', f)
Taken(l, f) == WithoutFirst(queue(l), queue(l)', f)
Same(l) == queue(l)' = queue(l)

(* queueInLoop() alone changes the one loop. *)
LEMMA AppendedBy ==
  ASSUME TypeOK, batch' = batch, NEW l \in Loops, NEW fn, NEW c, <<fn, c>> \in Functors,
         queueInLoop(l, fn, c)
  PROVE  Appended(l, <<fn, c>>) /\ \A m \in Loops \ {l} : Same(m)
PROOF
  <1> DEFINE f == <<fn, c>>
  <1>0. f \in Functors
    OBVIOUS
  <1>1. pending' = [pending EXCEPT ![l] = Append(@, f)]
    BY Zenon DEF queueInLoop
  <1>2. batch[l] \in Seq(Functors) /\ pending[l] \in Seq(Functors)
    BY QueueType
  <1>3. pending'[l] = Append(pending[l], f) /\ \A m \in Loops \ {l} : pending'[m] = pending[m]
    BY <1>1 DEF TypeOK
  <1> HIDE DEF f
  <1>4. /\ queue(l)' = batch[l] \o Append(pending[l], f)
        /\ queue(l) = batch[l] \o pending[l]
    BY <1>3 DEF queue
  <1>5. WithLast(batch[l] \o pending[l], batch[l] \o Append(pending[l], f), f)
    BY <1>0, <1>2, AppendIsLast
  <1>7. Appended(l, f)
    BY <1>4, <1>5, Zenon DEF Appended
  <1>8. \A m \in Loops \ {l} : Same(m)
    BY <1>3, Zenon DEF Same, queue
  <1> QED
    BY <1>7, <1>8 DEF f

(* The loop takes its first functor, and nothing is queued. *)
LEMMA TakenBy ==
  ASSUME TypeOK, NEW l \in Loops, batch[l] # <<>>, batch' = [batch EXCEPT ![l] = Tail(@)],
         pending' = pending
  PROVE  Taken(l, Head(batch[l])) /\ \A m \in Loops \ {l} : Same(m)
PROOF
  <1>2. batch[l] \in Seq(Functors) /\ pending[l] \in Seq(Functors)
    BY QueueType
  <1>3. batch'[l] = Tail(batch[l]) /\ \A m \in Loops \ {l} : batch'[m] = batch[m]
    BY DEF TypeOK
  <1>4. /\ queue(l)' = Tail(batch[l]) \o pending[l]
        /\ queue(l) = batch[l] \o pending[l]
    BY <1>3 DEF queue
  <1>5. WithoutFirst(batch[l] \o pending[l], Tail(batch[l]) \o pending[l], Head(batch[l]))
    BY <1>2, TailIsWithoutFirst
  <1> QED
    BY <1>3, <1>4, <1>5, Zenon DEF Taken, Same, queue

(* The base loop takes its first functor and queues one in another loop. *)
LEMMA TakenAndAppended ==
  ASSUME TypeOK, NEW k \in Loops, NEW l \in Loops, k # l, batch[l] # <<>>,
         batch' = [batch EXCEPT ![l] = Tail(@)],
         NEW fn, NEW c, <<fn, c>> \in Functors, queueInLoop(k, fn, c)
  PROVE  /\ Taken(l, Head(batch[l])) /\ Appended(k, <<fn, c>>)
         /\ \A m \in Loops \ {k, l} : Same(m)
PROOF
  <1> DEFINE f == <<fn, c>>
  <1>0. f \in Functors
    OBVIOUS
  <1>1. pending' = [pending EXCEPT ![k] = Append(@, f)]
    BY Zenon DEF queueInLoop
  <1>2. \A m \in Loops : batch[m] \in Seq(Functors) /\ pending[m] \in Seq(Functors)
    BY QueueType
  <1>3. /\ pending'[k] = Append(pending[k], f)
        /\ \A m \in Loops \ {k} : pending'[m] = pending[m]
        /\ batch'[l] = Tail(batch[l]) /\ \A m \in Loops \ {l} : batch'[m] = batch[m]
    BY <1>1 DEF TypeOK
  <1> HIDE DEF f
  <1>4. /\ queue(l)' = Tail(batch[l]) \o pending[l] /\ queue(l) = batch[l] \o pending[l]
        /\ queue(k)' = batch[k] \o Append(pending[k], f) /\ queue(k) = batch[k] \o pending[k]
    BY <1>3 DEF queue
  <1>5. WithoutFirst(batch[l] \o pending[l], Tail(batch[l]) \o pending[l], Head(batch[l]))
    BY <1>2, TailIsWithoutFirst
  <1>6. WithLast(batch[k] \o pending[k], batch[k] \o Append(pending[k], f), f)
    BY <1>0, <1>2, AppendIsLast
  <1>8. Taken(l, Head(batch[l])) /\ Appended(k, f)
    BY <1>4, <1>5, <1>6, Zenon DEF Taken, Appended
  <1>9. \A m \in Loops \ {k, l} : Same(m)
    BY <1>3, Zenon DEF Same, queue
  <1> QED
    BY <1>8, <1>9 DEF f

(* What loop l has to run is the same as before, without the first ones and  *)
(* with some of new at the end.                                              *)
Goes(l, new) == \E k \in Nat : Follows(queue(l), k, queue(l)', new)

(* Loops that get or take a functor, or neither, go on. *)
LEMMA GoesOn ==
  ASSUME TypeOK, NEW l \in Loops
  PROVE  /\ Same(l) => Goes(l, {})
         /\ \A f : Appended(l, f) => Goes(l, {f})
         /\ \A f : Taken(l, f) => Goes(l, {})
PROOF
  <1>1. Same(l) => Goes(l, {})
    BY QueueType, FollowsSame DEF Same, Goes
  <1>2. \A f : Appended(l, f) => Goes(l, {f})
    BY DEF Appended, WithLast, Goes
  <1>3. \A f : Taken(l, f) => Goes(l, {})
    BY DEF Taken, WithoutFirst, Goes
  <1> QED
    BY <1>1, <1>2, <1>3

(* What is still to run keeps to the order of EstablishedInv, if what is new does. *)
LEMMA EstablishedKept ==
  ASSUME TypeOK, TypeOK', PointerInv, EstablishedInv,
         \A l \in Loops : \E new : Goes(l, new) /\ \A c : <<"connectEstablished", c>> \notin new,
         \A c \in Used : loop_'[c] = loop_[c],
         \A c \in Used : state_[c] = "kConnecting" =>
           \/ state_'[c] = "kConnecting"
           \/ \A l \in Loops : \A i \in DOMAIN queue(l)' :
                queue(l)'[i] # <<"connectEstablished", c>>
  PROVE  EstablishedInv'
PROOF
  <1> SUFFICES ASSUME NEW l \in Loops, NEW i \in DOMAIN queue(l)', NEW c \in Conns,
                      queue(l)'[i] = <<"connectEstablished", c>>
               PROVE  /\ l # 0 /\ loop_'[c] = l /\ state_'[c] = "kConnecting"
                      /\ \A j \in DOMAIN queue(l)' :
                           /\ queue(l)'[j] = <<"connectEstablished", c>> => j = i
                           /\ queue(l)'[j] = <<"connectDestroyed", c>> => i < j
    BY Zenon DEF EstablishedInv
  <1>1. PICK new : Goes(l, new) /\ \A d : <<"connectEstablished", d>> \notin new
    OBVIOUS
  <1>2. PICK k \in Nat : Follows(queue(l), k, queue(l)', new)
    BY <1>1 DEF Goes
  <1>3. DOMAIN queue(l) = 1 .. Len(queue(l)) /\ Len(queue(l)) \in Nat
    BY QueueType
  <1>4. DOMAIN queue(l)' \subseteq Nat
    BY QueueTypeNext
  <1>5. i + k \in DOMAIN queue(l) /\ queue(l)[i + k] = <<"connectEstablished", c>>
    BY <1>1, <1>2 DEF Follows
  <1>6. c \in Used
    BY <1>5 DEF PointerInv
  <1>7. /\ l # 0 /\ loop_[c] = l /\ state_[c] = "kConnecting"
        /\ \A j \in DOMAIN queue(l) :
             /\ queue(l)[j] = <<"connectEstablished", c>> => j = i + k
             /\ queue(l)[j] = <<"connectDestroyed", c>> => i + k < j
    BY <1>5 DEF EstablishedInv
  <1>8. ASSUME NEW j \in DOMAIN queue(l)'
        PROVE  /\ queue(l)'[j] = <<"connectEstablished", c>> => j = i
               /\ queue(l)'[j] = <<"connectDestroyed", c>> => i < j
    <2>1. \/ j + k \in DOMAIN queue(l) /\ queue(l)'[j] = queue(l)[j + k]
          \/ j + k > Len(queue(l)) /\ queue(l)'[j] \in new
      BY <1>2 DEF Follows
    <2>2. i \in Nat /\ j \in Nat /\ k \in Nat /\ i + k <= Len(queue(l))
      BY <1>3, <1>4, <1>5
    <2>3. (j + k = i + k => j = i) /\ (i + k < j + k => i < j)
      BY <2>2
    <2>4. CASE j + k \in DOMAIN queue(l) /\ queue(l)'[j] = queue(l)[j + k]
      BY <1>7, <2>3, <2>4, Zenon
    <2>5. CASE j + k > Len(queue(l)) /\ queue(l)'[j] \in new
      <3>1. i < j
        BY <1>3, <2>2, <2>5
      <3> QED
        BY <1>1, <2>5, <3>1, Zenon
    <2> QED
      BY <2>1, <2>4, <2>5
  <1> QED
    BY <1>6, <1>7, <1>8

(* The same for DestroyedInv, *)
LEMMA DestroyedKept ==
  ASSUME TypeOK, TypeOK', PointerInv, DestroyedInv,
         \A l \in Loops : \E new : /\ Goes(l, new)
                                   /\ \A c \in Conns : <<"connectDestroyed", c>> \in new => loop_'[c] = l,
         \A c \in Used : loop_'[c] = loop_[c]
  PROVE  DestroyedInv'
PROOF
  <1> SUFFICES ASSUME NEW l \in Loops, NEW i \in DOMAIN queue(l)', NEW c \in Conns,
                      queue(l)'[i] = <<"connectDestroyed", c>>
               PROVE  loop_'[c] = l
    BY Zenon DEF DestroyedInv
  <1>1. PICK new : Goes(l, new) /\ \A d \in Conns : <<"connectDestroyed", d>> \in new => loop_'[d] = l
    OBVIOUS
  <1>2. PICK k \in Nat : Follows(queue(l), k, queue(l)', new)
    BY <1>1 DEF Goes
  <1>3. CASE i + k \in DOMAIN queue(l) /\ queue(l)'[i] = queue(l)[i + k]
    <2>1. loop_[c] = l
      BY <1>3, Zenon DEF DestroyedInv
    <2>2. c \in Used
      BY <1>3 DEF PointerInv
    <2> QED
      BY <2>1, <2>2
  <1>4. CASE queue(l)'[i] \in new
    BY <1>1, <1>4
  <1> QED
    BY <1>2, <1>3, <1>4 DEF Follows

(* and for RemoveInv. *)
LEMMA RemoveKept ==
  ASSUME TypeOK, TypeOK', PointerInv, RemoveInv,
         \A l \in Loops : \E new : Goes(l, new) /\ \A c : <<"removeConnectionInLoop", c>> \notin new,
         \A c \in Used : loop_'[c] = loop_[c],
         \A l \in Loops : \A i \in DOMAIN queue(l)' : \A c \in Used :
           queue(l)'[i] = <<"removeConnectionInLoop", c>> /\ state_[c] = "kDisconnected" =>
             /\ state_'[c] = "kDisconnected"
             /\ server' = "up" /\ (server = "up" => connections_[id_[c]] = c) =>
                  connections_'[id_'[c]] = c
  PROVE  RemoveInv'
PROOF
  <1> SUFFICES ASSUME NEW l \in Loops, NEW i \in DOMAIN queue(l)', NEW c \in Conns,
                      queue(l)'[i] = <<"removeConnectionInLoop", c>>
               PROVE  /\ l = 0 /\ loop_'[c] # 0 /\ state_'[c] = "kDisconnected"
                      /\ server' = "up" => connections_'[id_'[c]] = c
                      /\ \A j \in DOMAIN queue(l)' :
                           queue(l)'[j] = <<"removeConnectionInLoop", c>> => j = i
    BY Zenon DEF RemoveInv
  <1>1. PICK new : Goes(l, new) /\ \A d : <<"removeConnectionInLoop", d>> \notin new
    OBVIOUS
  <1>2. PICK k \in Nat : Follows(queue(l), k, queue(l)', new)
    BY <1>1 DEF Goes
  <1>3. i + k \in DOMAIN queue(l) /\ queue(l)[i + k] = <<"removeConnectionInLoop", c>>
    BY <1>1, <1>2 DEF Follows
  <1>4. c \in Used
    BY <1>3 DEF PointerInv
  <1>5. /\ l = 0 /\ loop_[c] # 0 /\ state_[c] = "kDisconnected"
        /\ server = "up" => connections_[id_[c]] = c
        /\ \A j \in DOMAIN queue(l) : queue(l)[j] = <<"removeConnectionInLoop", c>> => j = i + k
    BY <1>3, Zenon DEF RemoveInv
  <1>6. ASSUME NEW j \in DOMAIN queue(l)', queue(l)'[j] = <<"removeConnectionInLoop", c>>
        PROVE  j = i
    <2>1. j + k \in DOMAIN queue(l) /\ queue(l)[j + k] = <<"removeConnectionInLoop", c>>
      BY <1>1, <1>2, <1>6 DEF Follows
    <2>2. j + k = i + k
      BY <1>5, <2>1, Zenon
    <2>3. i \in Nat /\ j \in Nat /\ k \in Nat
      BY QueueTypeNext
    <2> QED
      BY <2>2, <2>3
  <1> QED
    BY <1>4, <1>5, <1>6, Zenon

(* A connection in the map stays there, or connectDestroyed() is queued. *)
LEMMA SendKept ==
  ASSUME TypeOK, TypeOK', PointerInv, SendInv, server' = "up" => server = "up", late => late',
         \A l \in Loops : \E new : Goes(l, new) /\ \A c : <<"sendInLoop", c>> \notin new,
         \A c \in Used : /\ loop_'[c] = loop_[c] /\ id_'[c] = id_[c]
                         /\ server' = "up" /\ connections_[id_[c]] = c =>
                              \/ connections_'[id_[c]] = c
                              \/ \A l \in Loops : loop_[c] = l =>
                                   Appended(l, <<"connectDestroyed", c>>)
  PROVE  SendInv'
PROOF
  <1> SUFFICES ASSUME ~late', server' = "up",
                      NEW l \in Loops, NEW i \in DOMAIN queue(l)', NEW c \in Conns,
                      queue(l)'[i] = <<"sendInLoop", c>>
               PROVE  /\ loop_'[c] = l
                      /\ \/ connections_'[id_'[c]] = c
                         \/ \E j \in DOMAIN queue(l)' :
                              i < j /\ queue(l)'[j] = <<"connectDestroyed", c>>
    BY Zenon DEF SendInv
  <1>1. PICK new : Goes(l, new) /\ \A d : <<"sendInLoop", d>> \notin new
    OBVIOUS
  <1>2. PICK k \in Nat : Follows(queue(l), k, queue(l)', new)
    BY <1>1 DEF Goes
  <1>3. i + k \in DOMAIN queue(l) /\ queue(l)[i + k] = <<"sendInLoop", c>>
    BY <1>1, <1>2 DEF Follows
  <1>4. c \in Used
    BY <1>3 DEF PointerInv
  <1>5. /\ loop_[c] = l
        /\ \/ connections_[id_[c]] = c
           \/ \E j \in DOMAIN queue(l) : i + k < j /\ queue(l)[j] = <<"connectDestroyed", c>>
    BY <1>3, Zenon DEF SendInv
  <1>6. /\ i \in Nat /\ k \in Nat /\ DOMAIN queue(l) = 1 .. Len(queue(l)) /\ Len(queue(l)) \in Nat
        /\ DOMAIN queue(l)' \subseteq Nat
    BY QueueType, QueueTypeNext
  <1>7. CASE connections_[id_[c]] = c
    <2>1. CASE Appended(l, <<"connectDestroyed", c>>)
      <3>1. PICK j \in DOMAIN queue(l)' : j > Len(queue(l)) /\ queue(l)'[j] = <<"connectDestroyed", c>>
        BY <2>1 DEF Appended, WithLast
      <3>2. i < j
        BY <1>3, <1>6, <3>1
      <3> QED
        BY <1>4, <1>5, <3>1, <3>2, Zenon
    <2> QED
      BY <1>4, <1>5, <1>7, <2>1, Zenon
  <1>8. ASSUME NEW j \in DOMAIN queue(l), i + k < j, queue(l)[j] = <<"connectDestroyed", c>>
        PROVE  \E n \in DOMAIN queue(l)' : i < n /\ queue(l)'[n] = <<"connectDestroyed", c>>
    <2>1. j > k /\ i < j - k
      BY <1>6, <1>8
    <2>2. j - k \in DOMAIN queue(l)' /\ queue(l)'[j - k] = queue(l)[j]
      BY <1>2, <1>8, <2>1, Zenon DEF Follows
    <2> QED
      BY <1>8, <2>1, <2>2, Zenon
  <1> QED
    BY <1>4, <1>5, <1>7, <1>8, Zenon

--------------------------------------------------------------------------------
(* The kinds of steps, as the connections see them. *)

Accepted(c, io) ==
  /\ c \in Conns \ Used
  /\ server = "up" /\ server' = "up" /\ late' = late
  /\ ~reused' => connections_[nextConnId_] = NULL
  /\ io = 0 => numThreads_ = 0
  /\ connections_' = [connections_ EXCEPT ![nextConnId_] = c]
  /\ loop_' = [loop_ EXCEPT ![c] = io]
  /\ id_' = [id_ EXCEPT ![c] = nextConnId_]
  /\ state_' = [state_ EXCEPT ![c] = IF io = 0 THEN "kConnected" ELSE "kConnecting"]
  /\ io = 0 => \A l \in Loops : Same(l)
  /\ io # 0 => /\ Appended(io, <<"connectEstablished", c>>)
               /\ \A l \in Loops \ {io} : Same(l)

ClosedHere(c) ==
  /\ state_[c] = "kConnected" /\ loop_[c] = 0
  /\ UNCHANGED <<server, loop_, id_, late>>
  /\ state_' = [state_ EXCEPT ![c] = "kDisconnected"]
  /\ connections_' = [connections_ EXCEPT ![id_[c]] = NULL]
  /\ Appended(0, <<"connectDestroyed", c>>)
  /\ \A l \in Loops \ {0} : Same(l)

ClosedElsewhere(c) ==
  /\ state_[c] = "kConnected" /\ loop_[c] # 0
  /\ UNCHANGED <<server, loop_, id_, late, connections_>>
  /\ state_' = [state_ EXCEPT ![c] = "kDisconnected"]
  /\ Appended(0, <<"removeConnectionInLoop", c>>)
  /\ \A l \in Loops \ {0} : Same(l)

Told ==
  /\ server = "up" /\ server' # "up"
  /\ UNCHANGED <<loop_, id_, late>>
  /\ \A i \in Ids : connections_'[i] = NULL
  /\ \A c \in Conns :
       IF loop_[c] = 0 /\ \E i \in Ids : connections_[i] = c
       THEN state_'[c] = "kDisconnected"
       ELSE state_'[c] = state_[c]
  /\ \A l \in Loops : \E new :
       /\ Goes(l, new)
       /\ \A f \in new : \E c \in Used : f = <<"connectDestroyed", c>> /\ loop_[c] = l

RanEstablished(l, c) ==
  /\ Taken(l, <<"connectEstablished", c>>) /\ \A m \in Loops \ {l} : Same(m)
  /\ state_' = [state_ EXCEPT ![c] = "kConnected"]
  /\ UNCHANGED <<server, loop_, id_, late, connections_>>

RanDestroyed(l, c) ==
  /\ Taken(l, <<"connectDestroyed", c>>) /\ \A m \in Loops \ {l} : Same(m)
  /\ state_' = [state_ EXCEPT ![c] = "kDisconnected"]
  /\ UNCHANGED <<server, loop_, id_, late, connections_>>

RanSend(l, c) ==
  /\ Taken(l, <<"sendInLoop", c>>) /\ \A m \in Loops \ {l} : Same(m)
  /\ UNCHANGED <<server, loop_, id_, late, connections_, state_>>

RanRemove(k, c) ==
  /\ k = loop_[c] /\ k # 0
  /\ Taken(0, <<"removeConnectionInLoop", c>>) /\ Appended(k, <<"connectDestroyed", c>>)
  /\ \A m \in Loops \ {0, k} : Same(m)
  /\ connections_' = [connections_ EXCEPT ![id_[c]] = NULL]
  /\ UNCHANGED <<server, loop_, id_, late, state_>>

Ended(l) ==
  /\ server # "up"
  /\ queue(l)' = <<>> /\ \A m \in Loops \ {l} : Same(m)
  /\ UNCHANGED <<server, loop_, id_, late, connections_, state_>>

Sent(c, l) ==
  /\ l = loop_[c]
  /\ Appended(l, <<"sendInLoop", c>>) /\ \A m \in Loops \ {l} : Same(m)
  /\ ~late' => ~late /\ state_[c] = "kConnected"
  /\ UNCHANGED <<server, loop_, id_, connections_, state_>>

(* A step that no connection sees keeps the invariant. *)
LEMMA QuietLife ==
  ASSUME TypeOK, TypeOK', PointerInv, numThreads_' = numThreads_, LifeInv, Quiet
  PROVE  LifeInv'
PROOF
  <1>1. /\ state_' = state_ /\ connections_' = connections_ /\ id_' = id_ /\ loop_' = loop_
        /\ late' = late /\ (server' = "up" <=> server = "up")
        /\ \A l \in Loops : queue(l)' = queue(l)
    BY Zenon DEF Quiet
  <1>2. OpenInv'
    BY <1>1, Zenon DEF LifeInv, OpenInv, Open, Used
  <1>3. \A l \in Loops : Goes(l, {})
    BY <1>1, GoesOn DEF Same
  <1>4. \A l \in Loops : \E new : Goes(l, new) /\ \A fn, c : <<fn, c>> \notin new
    BY <1>3
  <1>5. EstablishedInv'
    BY <1>1, <1>4, EstablishedKept, Zenon DEF LifeInv
  <1>6. DestroyedInv'
    BY <1>1, <1>4, DestroyedKept, Zenon DEF LifeInv
  <1>7. RemoveInv'
    BY <1>1, <1>4, RemoveKept, Zenon DEF LifeInv
  <1>8. SendInv'
    BY <1>1, <1>4, SendKept, Zenon DEF LifeInv
  <1> QED
    BY <1>2, <1>5, <1>6, <1>7, <1>8, Zenon DEF LifeInv

(* A new connection has a name of its own, and connectEstablished() before it. *)
LEMMA AcceptedLife ==
  ASSUME TypeOK, TypeOK', PointerInv, numThreads_' = numThreads_, LifeInv, ~reused',
         NEW c \in Conns, NEW io \in Loops, Accepted(c, io)
  PROVE  LifeInv'
PROOF
  <1>0. /\ OpenInv /\ EstablishedInv /\ DestroyedInv /\ RemoveInv /\ SendInv
        /\ c \notin Used /\ server = "up" /\ server' = "up" /\ connections_[nextConnId_] = NULL
        /\ late' = late
    BY Zenon DEF LifeInv, Accepted
  <1>1. /\ \A d \in Used : /\ d # c /\ state_'[d] = state_[d]
                           /\ loop_'[d] = loop_[d] /\ id_'[d] = id_[d]
        /\ loop_'[c] = io /\ id_'[c] = nextConnId_ /\ nextConnId_ \in Ids
        /\ connections_'[nextConnId_] = c
        /\ \A i \in Ids : i # nextConnId_ => connections_'[i] = connections_[i]
        /\ Used' \subseteq Used \cup {c}
        /\ \A d \in Used : id_[d] \in Ids
        /\ state_'[c] = IF io = 0 THEN "kConnected" ELSE "kConnecting"
    <2>1. /\ connections_' = [connections_ EXCEPT ![nextConnId_] = c]
          /\ loop_' = [loop_ EXCEPT ![c] = io]
          /\ id_' = [id_ EXCEPT ![c] = nextConnId_]
          /\ state_' = [state_ EXCEPT ![c] = IF io = 0 THEN "kConnected" ELSE "kConnecting"]
      BY Zenon DEF Accepted
    <2> QED
      BY <1>0, <2>1 DEF TypeOK, Used
  <1>2. \A d \in Used : connections_[id_[d]] = d => connections_'[id_'[d]] = d
    BY <1>0, <1>1 DEF Used, NULL, Conns
  <1>3. OpenInv'
    BY <1>0, <1>1, <1>2, Zenon DEF OpenInv, Open
  <1>4. \A l \in Loops : Goes(l, {}) \/ (Goes(l, {<<"connectEstablished", c>>}) /\ l = io /\ l # 0)
    BY GoesOn, Zenon DEF Accepted
  <1>5. DestroyedInv'
    <2>1. \A l \in Loops : \E new : /\ Goes(l, new)
                                    /\ \A d \in Conns : <<"connectDestroyed", d>> \in new => loop_'[d] = l
      BY <1>4
    <2> QED
      BY <1>0, <1>1, <2>1, DestroyedKept, Zenon
  <1>6. RemoveInv'
    <2>1. \A l \in Loops : \E new : Goes(l, new) /\ \A d : <<"removeConnectionInLoop", d>> \notin new
      BY <1>4
    <2> QED
      BY <1>0, <1>1, <1>2, <2>1, RemoveKept, Zenon
  <1>7. SendInv'
    <2>1. \A l \in Loops : \E new : Goes(l, new) /\ \A d : <<"sendInLoop", d>> \notin new
      BY <1>4
    <2> QED
      BY <1>0, <1>1, <1>2, <2>1, SendKept, Zenon
  <1>8. EstablishedInv'
    <2>1. CASE io = 0
      <3>1. \A l \in Loops : \E new : Goes(l, new) /\ \A d : <<"connectEstablished", d>> \notin new
        BY <1>4, <2>1
      <3> QED
        BY <1>0, <1>1, <3>1, EstablishedKept, Zenon
    <2>2. CASE io # 0
      <3> SUFFICES ASSUME NEW l \in Loops, NEW i \in DOMAIN queue(l)', NEW d \in Conns,
                          queue(l)'[i] = <<"connectEstablished", d>>
                   PROVE  /\ l # 0 /\ loop_'[d] = l /\ state_'[d] = "kConnecting"
                          /\ \A j \in DOMAIN queue(l)' :
                               /\ queue(l)'[j] = <<"connectEstablished", d>> => j = i
                               /\ queue(l)'[j] = <<"connectDestroyed", d>> => i < j
        BY Zenon DEF EstablishedInv
      <3>1. CASE l # io
        <4>1. queue(l)' = queue(l)
          BY <2>2, <3>1, Zenon DEF Accepted, Same
        <4>2. d \in Used
          BY <4>1 DEF PointerInv
        <4>3. /\ l # 0 /\ loop_[d] = l /\ state_[d] = "kConnecting"
              /\ \A j \in DOMAIN queue(l) :
                   /\ queue(l)[j] = <<"connectEstablished", d>> => j = i
                   /\ queue(l)[j] = <<"connectDestroyed", d>> => i < j
          BY <1>0, <4>1 DEF EstablishedInv
        <4> QED
          BY <1>1, <4>1, <4>2, <4>3
      <3>2. CASE l = io
        <4>1. WithLast(queue(l), queue(l)', <<"connectEstablished", c>>)
          BY <2>2, <3>2, Zenon DEF Accepted, Appended
        <4>2. \A j \in DOMAIN queue(l)' : \/ j \in DOMAIN queue(l) /\ queue(l)'[j] = queue(l)[j]
                                          \/ j > Len(queue(l)) /\ queue(l)'[j] = <<"connectEstablished", c>>
          BY <4>1, QueueTypeNext DEF WithLast, Follows
        <4>3. \A j \in DOMAIN queue(l) : queue(l)[j][2] # c
          BY <1>0 DEF PointerInv
        <4>4. DOMAIN queue(l) = 1 .. Len(queue(l)) /\ Len(queue(l)) \in Nat /\ DOMAIN queue(l)' \subseteq Nat
          BY QueueType, QueueTypeNext
        <4>5. CASE i \in DOMAIN queue(l) /\ queue(l)'[i] = queue(l)[i]
          <5>1. d \in Used /\ d # c
            BY <1>0, <4>5 DEF PointerInv
          <5>2. \A j \in DOMAIN queue(l)' : j \in DOMAIN queue(l) => queue(l)'[j] = queue(l)[j]
            BY <4>2, <4>4
          <5>3. \A j \in DOMAIN queue(l)' : j \notin DOMAIN queue(l) =>
                  queue(l)'[j] = <<"connectEstablished", c>>
            BY <4>2, Zenon
          <5>4. /\ l # 0 /\ loop_[d] = l /\ state_[d] = "kConnecting"
                /\ \A j \in DOMAIN queue(l) :
                     /\ queue(l)[j] = <<"connectEstablished", d>> => j = i
                     /\ queue(l)[j] = <<"connectDestroyed", d>> => i < j
            BY <1>0, <4>5 DEF EstablishedInv
          <5> QED
            BY <1>1, <5>1, <5>2, <5>3, <5>4
        <4>6. CASE i > Len(queue(l)) /\ queue(l)'[i] = <<"connectEstablished", c>>
          <5>1. d = c
            BY <4>6
          <5>2. ASSUME NEW j \in DOMAIN queue(l)'
                PROVE  /\ queue(l)'[j] = <<"connectEstablished", d>> => j = i
                       /\ queue(l)'[j] # <<"connectDestroyed", d>>
            <6>1. i <= Len(queue(l)) + 1 /\ j <= Len(queue(l)) + 1
              BY <4>1, Zenon DEF WithLast
            <6>2. j > Len(queue(l)) => j = i
              BY <4>4, <4>6, <6>1
            <6> QED
              BY <4>2, <4>3, <5>1, <6>2
          <5> QED
            BY <1>1, <2>2, <3>2, <5>1, <5>2
        <4> QED
          BY <4>2, <4>5, <4>6
      <3> QED
        BY <3>1, <3>2
    <2> QED
      BY <2>1, <2>2
  <1> QED
    BY <1>3, <1>5, <1>6, <1>7, <1>8, Zenon DEF LifeInv

(* A connection is not in the map under the name of another. *)
LEMMA NamesDiffer ==
  ASSUME TypeOK, NEW c \in Conns, NEW d \in Conns, c # d,
         connections_[id_[c]] = c, connections_[id_[d]] = d,
         connections_' = [connections_ EXCEPT ![id_[c]] = NULL]
  PROVE  connections_'[id_[d]] = d
PROOF
  BY DEF TypeOK

(* A connection closed in the base loop leaves the map at once. *)
LEMMA ClosedHereLife ==
  ASSUME TypeOK, TypeOK', PointerInv, numThreads_' = numThreads_, LifeInv,
         NEW c \in Conns, ClosedHere(c)
  PROVE  LifeInv'
PROOF
  <1>0. /\ OpenInv /\ EstablishedInv /\ DestroyedInv /\ RemoveInv /\ SendInv
        /\ server' = server /\ late' = late /\ loop_' = loop_ /\ id_' = id_
        /\ loop_[c] = 0 /\ state_[c] = "kConnected"
        /\ connections_' = [connections_ EXCEPT ![id_[c]] = NULL]
    BY Zenon DEF LifeInv, ClosedHere
  <1>1. /\ c \in Used /\ Used' = Used
        /\ state_'[c] = "kDisconnected" /\ \A d \in Conns : d # c => state_'[d] = state_[d]
    <2>1. state_' = [state_ EXCEPT ![c] = "kDisconnected"]
      BY Zenon DEF ClosedHere
    <2> QED
      BY <1>0, <2>1 DEF TypeOK, Used
  <1>2. \A d \in Used : server = "up" /\ d # c /\ connections_[id_[d]] = d =>
          connections_'[id_'[d]] = d
    <2>1. server = "up" => connections_[id_[c]] = c
      BY <1>0, <1>1, Zenon DEF OpenInv, Open
    <2> QED
      BY <1>0, <1>1, <2>1, NamesDiffer, Zenon DEF Used
  <1>3. OpenInv'
    <2> SUFFICES ASSUME NEW d \in Used, Open(d)'
                 PROVE  IF server = "up" THEN connections_'[id_'[d]] = d ELSE numThreads_ > 0
      BY <1>0, <1>1, Zenon DEF OpenInv
    <2>1. d # c /\ Open(d)
      BY <1>1 DEF Open, Used
    <2> QED
      BY <1>0, <1>2, <2>1, Zenon DEF OpenInv
  <1>4. \A l \in Loops : Goes(l, {}) \/ (Goes(l, {<<"connectDestroyed", c>>}) /\ l = 0)
    BY GoesOn, Zenon DEF ClosedHere
  <1>5. EstablishedInv'
    <2>1. \A l \in Loops : \E new : Goes(l, new) /\ \A d : <<"connectEstablished", d>> \notin new
      BY <1>4
    <2>2. \A d \in Used : state_[d] = "kConnecting" => state_'[d] = "kConnecting"
      BY <1>0, <1>1 DEF Used
    <2> QED
      BY <1>0, <2>1, <2>2, EstablishedKept, Zenon
  <1>6. DestroyedInv'
    <2>1. \A l \in Loops : \E new : /\ Goes(l, new)
                                    /\ \A d \in Conns : <<"connectDestroyed", d>> \in new => loop_'[d] = l
      BY <1>0, <1>4
    <2> QED
      BY <1>0, <2>1, DestroyedKept, Zenon
  <1>7. RemoveInv'
    <2>1. \A l \in Loops : \E new : Goes(l, new) /\ \A d : <<"removeConnectionInLoop", d>> \notin new
      BY <1>4
    <2>2. \A d \in Used : state_[d] = "kDisconnected" => d # c /\ state_'[d] = "kDisconnected"
      BY <1>0, <1>1 DEF Used
    <2> QED
      BY <1>0, <1>2, <2>1, <2>2, RemoveKept, Zenon
  <1>8. SendInv'
    <2>1. \A l \in Loops : \E new : Goes(l, new) /\ \A d : <<"sendInLoop", d>> \notin new
      BY <1>4
    <2>2. \A l \in Loops : loop_[c] = l => Appended(l, <<"connectDestroyed", c>>)
      BY <1>0, Zenon DEF ClosedHere
    <2> QED
      BY <1>0, <1>2, <2>1, <2>2, SendKept, Zenon
  <1> QED
    BY <1>3, <1>5, <1>6, <1>7, <1>8, Zenon DEF LifeInv

(* A connection closed in its loop waits in the map for its removal. *)
LEMMA ClosedElsewhereLife ==
  ASSUME TypeOK, TypeOK', PointerInv, numThreads_' = numThreads_, LifeInv,
         NEW c \in Conns, ClosedElsewhere(c)
  PROVE  LifeInv'
PROOF
  <1>0. /\ OpenInv /\ EstablishedInv /\ DestroyedInv /\ RemoveInv /\ SendInv
        /\ server' = server /\ late' = late /\ loop_' = loop_ /\ id_' = id_
        /\ loop_[c] # 0 /\ state_[c] = "kConnected" /\ connections_' = connections_
    BY Zenon DEF LifeInv, ClosedElsewhere
  <1>1. /\ c \in Used /\ Used' = Used
        /\ state_'[c] = "kDisconnected" /\ \A d \in Conns : d # c => state_'[d] = state_[d]
    <2>1. state_' = [state_ EXCEPT ![c] = "kDisconnected"]
      BY Zenon DEF ClosedElsewhere
    <2> QED
      BY <1>0, <2>1 DEF TypeOK, Used
  <1>3. OpenInv'
    <2> SUFFICES ASSUME NEW d \in Used, Open(d)'
                 PROVE  IF server = "up" THEN connections_'[id_'[d]] = d ELSE numThreads_ > 0
      BY <1>0, <1>1, Zenon DEF OpenInv
    <2>1. Open(d)
      BY <1>1 DEF Open, Used
    <2> QED
      BY <1>0, <2>1, Zenon DEF OpenInv
  <1>4. \A l \in Loops : Goes(l, {}) \/ Goes(l, {<<"removeConnectionInLoop", c>>})
    BY GoesOn, Zenon DEF ClosedElsewhere
  <1>5. EstablishedInv'
    <2>1. \A l \in Loops : \E new : Goes(l, new) /\ \A d : <<"connectEstablished", d>> \notin new
      BY <1>4
    <2>2. \A d \in Used : state_[d] = "kConnecting" => state_'[d] = "kConnecting"
      BY <1>0, <1>1 DEF Used
    <2> QED
      BY <1>0, <2>1, <2>2, EstablishedKept, Zenon
  <1>6. DestroyedInv'
    <2>1. \A l \in Loops : \E new : /\ Goes(l, new)
                                    /\ \A d \in Conns : <<"connectDestroyed", d>> \in new => loop_'[d] = l
      BY <1>4
    <2> QED
      BY <1>0, <2>1, DestroyedKept, Zenon
  <1>7. SendInv'
    <2>1. \A l \in Loops : \E new : Goes(l, new) /\ \A d : <<"sendInLoop", d>> \notin new
      BY <1>4
    <2> QED
      BY <1>0, <2>1, SendKept, Zenon
  <1>8. RemoveInv'
    <2> SUFFICES ASSUME NEW l \in Loops, NEW i \in DOMAIN queue(l)', NEW d \in Conns,
                        queue(l)'[i] = <<"removeConnectionInLoop", d>>
                 PROVE  /\ l = 0 /\ loop_'[d] # 0 /\ state_'[d] = "kDisconnected"
                        /\ server' = "up" => connections_'[id_'[d]] = d
                        /\ \A j \in DOMAIN queue(l)' :
                             queue(l)'[j] = <<"removeConnectionInLoop", d>> => j = i
      BY Zenon DEF RemoveInv
    <2>1. \A n \in DOMAIN queue(l) : queue(l)[n] # <<"removeConnectionInLoop", c>>
      BY <1>0 DEF RemoveInv
    <2>2. CASE l # 0
      <3>1. queue(l)' = queue(l)
        BY <2>2, Zenon DEF ClosedElsewhere, Same
      <3> QED
        BY <1>0, <2>2, <3>1 DEF RemoveInv
    <2>3. CASE l = 0
      <3>1. WithLast(queue(l), queue(l)', <<"removeConnectionInLoop", c>>)
        BY <2>3, Zenon DEF ClosedElsewhere, Appended
      <3>2. \A j \in DOMAIN queue(l)' :
              \/ j \in DOMAIN queue(l) /\ queue(l)'[j] = queue(l)[j]
              \/ j > Len(queue(l)) /\ queue(l)'[j] = <<"removeConnectionInLoop", c>>
        BY <3>1, QueueTypeNext DEF WithLast, Follows
      <3>3. /\ DOMAIN queue(l) = 1 .. Len(queue(l)) /\ Len(queue(l)) \in Nat
            /\ DOMAIN queue(l)' \subseteq Nat
        BY QueueType, QueueTypeNext
      <3>4. CASE i \in DOMAIN queue(l) /\ queue(l)'[i] = queue(l)[i]
        <4>1. /\ loop_[d] # 0 /\ state_[d] = "kDisconnected"
              /\ server = "up" => connections_[id_[d]] = d
              /\ \A j \in DOMAIN queue(l) : queue(l)[j] = <<"removeConnectionInLoop", d>> => j = i
          BY <1>0, <3>4 DEF RemoveInv
        <4>2. d # c
          BY <1>0, <4>1
        <4>3. ASSUME NEW j \in DOMAIN queue(l)', queue(l)'[j] = <<"removeConnectionInLoop", d>>
              PROVE  j = i
          BY <3>2, <4>1, <4>2, <4>3
        <4> QED
          BY <1>0, <1>1, <2>3, <4>1, <4>2, <4>3
      <3>5. CASE i > Len(queue(l)) /\ queue(l)'[i] = <<"removeConnectionInLoop", c>>
        <4>1. d = c
          BY <3>5
        <4>2. server = "up" => connections_[id_[c]] = c
          BY <1>0, <1>1, Zenon DEF OpenInv, Open
        <4>3. ASSUME NEW j \in DOMAIN queue(l)', queue(l)'[j] = <<"removeConnectionInLoop", c>>
              PROVE  j = i
          <5>1. j > Len(queue(l))
            BY <2>1, <3>2, <4>3
          <5>2. i <= Len(queue(l)) + 1 /\ j <= Len(queue(l)) + 1
            BY <3>1, Zenon DEF WithLast
          <5> QED
            BY <3>3, <3>5, <5>1, <5>2
        <4> QED
          BY <1>0, <1>1, <2>3, <4>1, <4>2, <4>3
      <3> QED
        BY <3>2, <3>4, <3>5
    <2> QED
      BY <2>2, <2>3
  <1> QED
    BY <1>3, <1>5, <1>6, <1>7, <1>8, Zenon DEF LifeInv

(* The destructor closes what lives in the base loop, and tells the others. *)
LEMMA ToldLife ==
  ASSUME TypeOK, TypeOK', PointerInv, PoolInv, numThreads_' = numThreads_, LifeInv, Told
  PROVE  LifeInv'
PROOF
  <1>0. /\ OpenInv /\ EstablishedInv /\ DestroyedInv /\ RemoveInv
        /\ server = "up" /\ server' # "up" /\ loop_' = loop_ /\ id_' = id_
    BY Zenon DEF LifeInv, Told
  <1>1. \A d \in Conns :
          IF loop_[d] = 0 /\ \E i \in Ids : connections_[i] = d
          THEN state_'[d] = "kDisconnected"
          ELSE state_'[d] = state_[d]
    BY Zenon DEF Told
  <1>2. \A l \in Loops : \E new :
          /\ Goes(l, new)
          /\ \A f \in new : \E c \in Used : f = <<"connectDestroyed", c>> /\ loop_[c] = l
    BY Zenon DEF Told
  <1>3. OpenInv'
    <2> SUFFICES ASSUME NEW d \in Conns, Open(d)'
                 PROVE  numThreads_ > 0
      BY <1>0, Zenon DEF OpenInv, Used
    <2>1. state_'[d] = state_[d] /\ d \in Used /\ Open(d)
      BY <1>1 DEF Open, Used
    <2>2. connections_[id_[d]] = d /\ id_[d] \in Ids
      BY <1>0, <2>1 DEF OpenInv, TypeOK
    <2>3. loop_[d] # 0
      BY <1>1, <2>1, <2>2 DEF Open
    <2>4. numThreads_ # 0
      BY <2>1, <2>3, Zenon DEF PoolInv
    <2> QED
      BY <2>4, LoopsRange DEF PoolInv
  <1>4. EstablishedInv'
    <2>1. \A l \in Loops : \E new : Goes(l, new) /\ \A d : <<"connectEstablished", d>> \notin new
      <3> SUFFICES ASSUME NEW l \in Loops
                   PROVE  \E new : Goes(l, new) /\ \A d : <<"connectEstablished", d>> \notin new
        OBVIOUS
      <3>1. PICK new : /\ Goes(l, new)
                       /\ \A f \in new : \E c \in Used : f = <<"connectDestroyed", c>> /\ loop_[c] = l
        BY <1>2
      <3>2. ASSUME NEW d, <<"connectEstablished", d>> \in new
            PROVE  FALSE
        <4>1. PICK c \in Used : <<"connectEstablished", d>> = <<"connectDestroyed", c>>
          BY <3>1, <3>2
        <4> QED
          BY <4>1
      <3> QED
        BY <3>1, <3>2
    <2>2. ASSUME NEW d \in Used, state_[d] = "kConnecting", state_'[d] # "kConnecting",
                 NEW l \in Loops, NEW i \in DOMAIN queue(l)',
                 queue(l)'[i] = <<"connectEstablished", d>>
          PROVE  FALSE
      <3>1. loop_[d] = 0 /\ d \in Conns
        BY <1>1, <2>2 DEF Used
      <3>2. PICK new : Goes(l, new) /\ \A e : <<"connectEstablished", e>> \notin new
        BY <2>1
      <3>3. PICK k \in Nat : Follows(queue(l), k, queue(l)', new)
        BY <3>2 DEF Goes
      <3>4. i + k \in DOMAIN queue(l) /\ queue(l)[i + k] = <<"connectEstablished", d>>
        BY <2>2, <3>2, <3>3 DEF Follows
      <3> QED
        BY <1>0, <3>1, <3>4 DEF EstablishedInv
    <2> QED
      BY <1>0, <2>1, <2>2, EstablishedKept, Zenon
  <1>5. DestroyedInv'
    <2>1. \A l \in Loops : \E new : /\ Goes(l, new)
                                    /\ \A d \in Conns : <<"connectDestroyed", d>> \in new => loop_'[d] = l
      <3> SUFFICES ASSUME NEW l \in Loops
                   PROVE  \E new : /\ Goes(l, new)
                                   /\ \A d \in Conns : <<"connectDestroyed", d>> \in new => loop_'[d] = l
        OBVIOUS
      <3>1. PICK new : /\ Goes(l, new)
                       /\ \A f \in new : \E c \in Used : f = <<"connectDestroyed", c>> /\ loop_[c] = l
        BY <1>2
      <3>2. ASSUME NEW d \in Conns, <<"connectDestroyed", d>> \in new
            PROVE  loop_'[d] = l
        <4>1. PICK c \in Used : <<"connectDestroyed", d>> = <<"connectDestroyed", c>> /\ loop_[c] = l
          BY <3>1, <3>2
        <4> QED
          BY <1>0, <4>1
      <3> QED
        BY <3>1, <3>2
    <2> QED
      BY <1>0, <2>1, DestroyedKept, Zenon
  <1>6. RemoveInv'
    <2>1. \A l \in Loops : \E new : Goes(l, new) /\ \A d : <<"removeConnectionInLoop", d>> \notin new
      <3> SUFFICES ASSUME NEW l \in Loops
                   PROVE  \E new : Goes(l, new) /\ \A d : <<"removeConnectionInLoop", d>> \notin new
        OBVIOUS
      <3>1. PICK new : /\ Goes(l, new)
                       /\ \A f \in new : \E c \in Used : f = <<"connectDestroyed", c>> /\ loop_[c] = l
        BY <1>2
      <3>2. ASSUME NEW d, <<"removeConnectionInLoop", d>> \in new
            PROVE  FALSE
        <4>1. PICK c \in Used : <<"removeConnectionInLoop", d>> = <<"connectDestroyed", c>>
          BY <3>1, <3>2
        <4> QED
          BY <4>1
      <3> QED
        BY <3>1, <3>2
    <2>2. \A d \in Used : state_[d] = "kDisconnected" => state_'[d] = "kDisconnected"
      BY <1>1 DEF Used
    <2> QED
      BY <1>0, <2>1, <2>2, RemoveKept, Zenon
  <1>7. SendInv'
    BY <1>0, Zenon DEF SendInv
  <1> QED
    BY <1>3, <1>4, <1>5, <1>6, <1>7, Zenon DEF LifeInv

(* A functor that has run does not change what it is not about. *)
LEMMA RanEstablishedLife ==
  ASSUME TypeOK, TypeOK', PointerInv, numThreads_' = numThreads_, LifeInv,
         NEW l \in Loops, NEW c \in Conns, RanEstablished(l, c)
  PROVE  LifeInv'
PROOF
  <1>0. /\ OpenInv /\ EstablishedInv /\ DestroyedInv /\ RemoveInv /\ SendInv
        /\ server' = server /\ late' = late /\ loop_' = loop_ /\ id_' = id_
        /\ connections_' = connections_
    BY Zenon DEF LifeInv, RanEstablished
  <1>1. /\ 1 \in DOMAIN queue(l) /\ queue(l)[1] = <<"connectEstablished", c>>
        /\ Follows(queue(l), 1, queue(l)', {})
    BY Zenon DEF RanEstablished, Taken, WithoutFirst
  <1>2. loop_[c] = l /\ state_[c] = "kConnecting" /\ c \in Used
    BY <1>0, <1>1 DEF EstablishedInv, Used
  <1>3. /\ Used' = Used
        /\ state_'[c] = "kConnected" /\ \A d \in Conns : d # c => state_'[d] = state_[d]
    <2>1. state_' = [state_ EXCEPT ![c] = "kConnected"]
      BY Zenon DEF RanEstablished
    <2> QED
      BY <1>2, <2>1 DEF TypeOK, Used
  <1>4. \A m \in Loops : Goes(m, {})
    BY GoesOn, Zenon DEF RanEstablished
  <1>5. \A m \in Loops : \E new : Goes(m, new) /\ \A fn, d : <<fn, d>> \notin new
    BY <1>4
  <1>6. OpenInv'
    <2> SUFFICES ASSUME NEW d \in Used, Open(d)'
                 PROVE  IF server = "up" THEN connections_[id_[d]] = d ELSE numThreads_ > 0
      BY <1>0, <1>3, Zenon DEF OpenInv
    <2>1. Open(d)
      BY <1>2, <1>3 DEF Open, Used
    <2> QED
      BY <1>0, <2>1, Zenon DEF OpenInv
  <1>7. EstablishedInv'
    <2>1. ASSUME NEW m \in Loops, NEW i \in DOMAIN queue(m)', queue(m)'[i] = <<"connectEstablished", c>>
          PROVE  FALSE
      <3>1. CASE m = l
        <4>1. i + 1 \in DOMAIN queue(l) /\ queue(l)[i + 1] = <<"connectEstablished", c>>
          BY <1>1, <2>1, <3>1 DEF Follows
        <4>2. i + 1 = 1
          BY <1>0, <1>1, <4>1 DEF EstablishedInv
        <4> QED
          BY <2>1, <4>2, QueueTypeNext
      <3>2. CASE m # l
        <4>1. queue(m)' = queue(m)
          BY <3>2, Zenon DEF RanEstablished, Same
        <4>2. loop_[c] = m
          BY <1>0, <2>1, <4>1 DEF EstablishedInv
        <4> QED
          BY <1>2, <3>2, <4>2
      <3> QED
        BY <3>1, <3>2
    <2>2. \A d \in Used : d # c => state_'[d] = state_[d]
      BY <1>3 DEF Used
    <2> QED
      BY <1>0, <1>5, <2>1, <2>2, EstablishedKept, Zenon
  <1>8. DestroyedInv'
    BY <1>0, <1>5, DestroyedKept, Zenon
  <1>9. RemoveInv'
    <2>1. \A d \in Used : state_[d] = "kDisconnected" => state_'[d] = "kDisconnected"
      BY <1>2, <1>3 DEF Used
    <2> QED
      BY <1>0, <1>5, <2>1, RemoveKept, Zenon
  <1>10. SendInv'
    BY <1>0, <1>5, SendKept, Zenon
  <1> QED
    BY <1>6, <1>7, <1>8, <1>9, <1>10, Zenon DEF LifeInv

(* connectDestroyed() closes a connection for good. *)
LEMMA RanDestroyedLife ==
  ASSUME TypeOK, TypeOK', PointerInv, numThreads_' = numThreads_, LifeInv,
         NEW l \in Loops, NEW c \in Conns, RanDestroyed(l, c)
  PROVE  LifeInv'
PROOF
  <1>0. /\ OpenInv /\ EstablishedInv /\ DestroyedInv /\ RemoveInv /\ SendInv
        /\ server' = server /\ late' = late /\ loop_' = loop_ /\ id_' = id_
        /\ connections_' = connections_
    BY Zenon DEF LifeInv, RanDestroyed
  <1>1. 1 \in DOMAIN queue(l) /\ queue(l)[1] = <<"connectDestroyed", c>>
    BY Zenon DEF RanDestroyed, Taken, WithoutFirst
  <1>2. loop_[c] = l /\ c \in Used
    BY <1>0, <1>1 DEF DestroyedInv, PointerInv
  <1>3. /\ Used' = Used
        /\ state_'[c] = "kDisconnected" /\ \A d \in Conns : d # c => state_'[d] = state_[d]
    <2>1. state_' = [state_ EXCEPT ![c] = "kDisconnected"]
      BY Zenon DEF RanDestroyed
    <2> QED
      BY <1>2, <2>1 DEF TypeOK, Used
  <1>4. \A m \in Loops : Goes(m, {})
    BY GoesOn, Zenon DEF RanDestroyed
  <1>5. \A m \in Loops : \E new : Goes(m, new) /\ \A fn, d : <<fn, d>> \notin new
    BY <1>4
  <1>6. OpenInv'
    <2> SUFFICES ASSUME NEW d \in Used, Open(d)'
                 PROVE  IF server = "up" THEN connections_[id_[d]] = d ELSE numThreads_ > 0
      BY <1>0, <1>3, Zenon DEF OpenInv
    <2>1. Open(d)
      BY <1>3 DEF Open, Used
    <2> QED
      BY <1>0, <2>1, Zenon DEF OpenInv
  <1>7. EstablishedInv'
    <2>1. ASSUME NEW m \in Loops, NEW i \in DOMAIN queue(m)', queue(m)'[i] = <<"connectEstablished", c>>
          PROVE  FALSE
      <3>1. PICK k \in Nat : Follows(queue(m), k, queue(m)', {})
        BY <1>4 DEF Goes
      <3>2. i + k \in DOMAIN queue(m) /\ queue(m)[i + k] = <<"connectEstablished", c>>
        BY <2>1, <3>1 DEF Follows
      <3>3. m = l
        BY <1>0, <1>2, <3>2 DEF EstablishedInv
      <3>4. i + k < 1
        BY <1>0, <1>1, <3>2, <3>3 DEF EstablishedInv
      <3> QED
        BY <3>1, <3>4, QueueTypeNext
    <2>2. \A d \in Used : d # c => state_'[d] = state_[d]
      BY <1>3 DEF Used
    <2> QED
      BY <1>0, <1>5, <2>1, <2>2, EstablishedKept, Zenon
  <1>8. DestroyedInv'
    BY <1>0, <1>5, DestroyedKept, Zenon
  <1>9. RemoveInv'
    <2>1. \A d \in Used : state_[d] = "kDisconnected" => state_'[d] = "kDisconnected"
      BY <1>3 DEF Used
    <2> QED
      BY <1>0, <1>5, <2>1, RemoveKept, Zenon
  <1>10. SendInv'
    BY <1>0, <1>5, SendKept, Zenon
  <1> QED
    BY <1>6, <1>7, <1>8, <1>9, <1>10, Zenon DEF LifeInv

(* Functors only go. *)
LEMMA RanSendLife ==
  ASSUME TypeOK, TypeOK', PointerInv, numThreads_' = numThreads_, LifeInv,
         NEW l \in Loops, NEW c \in Conns, RanSend(l, c) \/ Ended(l)
  PROVE  LifeInv'
PROOF
  <1>0. /\ OpenInv /\ EstablishedInv /\ DestroyedInv /\ RemoveInv /\ SendInv
        /\ server' = server /\ late' = late /\ loop_' = loop_ /\ id_' = id_
        /\ connections_' = connections_ /\ state_' = state_
    BY Zenon DEF LifeInv, RanSend, Ended
  <1>1. \A m \in Loops : Goes(m, {})
    <2>1. CASE RanSend(l, c)
      BY <2>1, GoesOn, Zenon DEF RanSend
    <2>2. CASE Ended(l)
      <3>1. queue(l)' = <<>> /\ Len(queue(l)) \in Nat /\ DOMAIN queue(l) = 1 .. Len(queue(l))
        BY <2>2, QueueType DEF Ended
      <3>2. Follows(queue(l), Len(queue(l)), queue(l)', {})
        BY <3>1 DEF Follows
      <3>3. Goes(l, {})
        BY <3>1, <3>2 DEF Goes
      <3> QED
        BY <2>2, <3>3, GoesOn, Zenon DEF Ended
    <2> QED
      BY <2>1, <2>2
  <1>2. \A m \in Loops : \E new : Goes(m, new) /\ \A fn, d : <<fn, d>> \notin new
    BY <1>1
  <1>3. OpenInv'
    BY <1>0, Zenon DEF OpenInv, Open, Used
  <1>4. EstablishedInv'
    BY <1>0, <1>2, EstablishedKept, Zenon
  <1>5. DestroyedInv'
    BY <1>0, <1>2, DestroyedKept, Zenon
  <1>6. RemoveInv'
    BY <1>0, <1>2, RemoveKept, Zenon
  <1>7. SendInv'
    BY <1>0, <1>2, SendKept, Zenon
  <1> QED
    BY <1>3, <1>4, <1>5, <1>6, <1>7, Zenon DEF LifeInv

(* removeConnectionInLoop() takes the entry and queues connectDestroyed(). *)
LEMMA RanRemoveLife ==
  ASSUME TypeOK, TypeOK', PointerInv, numThreads_' = numThreads_, LifeInv,
         NEW k \in Loops, NEW c \in Conns, RanRemove(k, c)
  PROVE  LifeInv'
PROOF
  <1>0. /\ OpenInv /\ EstablishedInv /\ DestroyedInv /\ RemoveInv /\ SendInv
        /\ server' = server /\ late' = late /\ loop_' = loop_ /\ id_' = id_
        /\ state_' = state_ /\ k = loop_[c] /\ 0 \in Loops
        /\ connections_' = [connections_ EXCEPT ![id_[c]] = NULL]
    BY LoopsRange, Zenon DEF LifeInv, RanRemove
  <1>1. /\ 1 \in DOMAIN queue(0) /\ queue(0)[1] = <<"removeConnectionInLoop", c>>
        /\ Follows(queue(0), 1, queue(0)', {})
    BY Zenon DEF RanRemove, Taken, WithoutFirst
  <1>2. /\ state_[c] = "kDisconnected" /\ (server = "up" => connections_[id_[c]] = c)
        /\ c \in Used
    BY <1>0, <1>1 DEF RemoveInv, Used
  <1>3. \A d \in Used : server = "up" /\ d # c /\ connections_[id_[d]] = d =>
          connections_'[id_'[d]] = d
    BY <1>0, <1>2, NamesDiffer, Zenon DEF Used
  <1>4. OpenInv'
    <2> SUFFICES ASSUME NEW d \in Used, Open(d)
                 PROVE  IF server = "up" THEN connections_'[id_'[d]] = d ELSE numThreads_ > 0
      BY <1>0, Zenon DEF OpenInv, Open, Used
    <2>1. d # c
      BY <1>2 DEF Open
    <2> QED
      BY <1>0, <1>3, <2>1, Zenon DEF OpenInv
  <1>5. \A m \in Loops : Goes(m, {}) \/ (Goes(m, {<<"connectDestroyed", c>>}) /\ m = k)
    BY GoesOn, Zenon DEF RanRemove
  <1>6. EstablishedInv'
    <2>1. \A m \in Loops : \E new : Goes(m, new) /\ \A d : <<"connectEstablished", d>> \notin new
      BY <1>5
    <2> QED
      BY <1>0, <2>1, EstablishedKept, Zenon
  <1>7. DestroyedInv'
    <2>1. \A m \in Loops : \E new : /\ Goes(m, new)
                                    /\ \A d \in Conns : <<"connectDestroyed", d>> \in new => loop_'[d] = m
      BY <1>0, <1>5
    <2> QED
      BY <1>0, <2>1, DestroyedKept, Zenon
  <1>8. RemoveInv'
    <2>1. \A m \in Loops : \E new : Goes(m, new) /\ \A d : <<"removeConnectionInLoop", d>> \notin new
      BY <1>5
    <2>2. ASSUME NEW m \in Loops, NEW i \in DOMAIN queue(m)',
                 queue(m)'[i] = <<"removeConnectionInLoop", c>>
          PROVE  FALSE
      <3>1. CASE m = 0
        <4>1. i + 1 \in DOMAIN queue(0) /\ queue(0)[i + 1] = <<"removeConnectionInLoop", c>>
          BY <1>1, <2>2, <3>1 DEF Follows
        <4>2. i + 1 = 1
          BY <1>0, <1>1, <4>1 DEF RemoveInv
        <4> QED
          BY <2>2, <4>2, QueueTypeNext
      <3>2. CASE m # 0
        <4>1. PICK new : Goes(m, new) /\ \A d : <<"removeConnectionInLoop", d>> \notin new
          BY <2>1
        <4>2. PICK n \in Nat : Follows(queue(m), n, queue(m)', new)
          BY <4>1 DEF Goes
        <4>3. i + n \in DOMAIN queue(m) /\ queue(m)[i + n] = <<"removeConnectionInLoop", c>>
          BY <2>2, <4>1, <4>2 DEF Follows
        <4> QED
          BY <1>0, <3>2, <4>3 DEF RemoveInv
      <3> QED
        BY <3>1, <3>2
    <2> QED
      BY <1>0, <1>3, <2>1, <2>2, RemoveKept, Zenon
  <1>9. SendInv'
    <2>1. \A m \in Loops : \E new : Goes(m, new) /\ \A d : <<"sendInLoop", d>> \notin new
      BY <1>5
    <2>2. \A m \in Loops : loop_[c] = m => Appended(m, <<"connectDestroyed", c>>)
      BY Zenon DEF RanRemove
    <2> QED
      BY <1>0, <1>3, <2>1, <2>2, SendKept, Zenon
  <1> QED
    BY <1>4, <1>6, <1>7, <1>8, <1>9, Zenon DEF LifeInv

(* send() queues its functor in front of any later connectDestroyed(). *)
LEMMA SentLife ==
  ASSUME TypeOK, TypeOK', PointerInv, numThreads_' = numThreads_, LifeInv,
         NEW l \in Loops, NEW c \in Conns, Sent(c, l)
  PROVE  LifeInv'
PROOF
  <1>0. /\ OpenInv /\ EstablishedInv /\ DestroyedInv /\ RemoveInv /\ SendInv
        /\ server' = server /\ loop_' = loop_ /\ id_' = id_
        /\ connections_' = connections_ /\ state_' = state_ /\ l = loop_[c]
        /\ ~late' => ~late /\ state_[c] = "kConnected"
    BY Zenon DEF LifeInv, Sent
  <1>1. \A m \in Loops : Goes(m, {}) \/ Goes(m, {<<"sendInLoop", c>>})
    BY GoesOn, Zenon DEF Sent
  <1>3. OpenInv'
    BY <1>0, Zenon DEF OpenInv, Open, Used
  <1>4. EstablishedInv'
    <2>1. \A m \in Loops : \E new : Goes(m, new) /\ \A d : <<"connectEstablished", d>> \notin new
      BY <1>1
    <2> QED
      BY <1>0, <2>1, EstablishedKept, Zenon
  <1>5. DestroyedInv'
    <2>1. \A m \in Loops : \E new : /\ Goes(m, new)
                                    /\ \A d \in Conns : <<"connectDestroyed", d>> \in new => loop_'[d] = m
      BY <1>1
    <2> QED
      BY <1>0, <2>1, DestroyedKept, Zenon
  <1>6. RemoveInv'
    <2>1. \A m \in Loops : \E new : Goes(m, new) /\ \A d : <<"removeConnectionInLoop", d>> \notin new
      BY <1>1
    <2> QED
      BY <1>0, <2>1, RemoveKept, Zenon
  <1>7. SendInv'
    <2> SUFFICES ASSUME ~late', server' = "up",
                        NEW m \in Loops, NEW i \in DOMAIN queue(m)', NEW d \in Conns,
                        queue(m)'[i] = <<"sendInLoop", d>>
                 PROVE  /\ loop_'[d] = m
                        /\ \/ connections_'[id_'[d]] = d
                           \/ \E j \in DOMAIN queue(m)' :
                                i < j /\ queue(m)'[j] = <<"connectDestroyed", d>>
      BY Zenon DEF SendInv
    <2>1. ~late /\ server = "up" /\ state_[c] = "kConnected"
      BY <1>0, Zenon
    <2>2. connections_[id_[c]] = c
      BY <1>0, <2>1 DEF OpenInv, Open, Used
    <2>3. CASE m # l
      <3>1. queue(m)' = queue(m)
        BY <2>3, Zenon DEF Sent, Same
      <3>2. /\ loop_[d] = m
            /\ \/ connections_[id_[d]] = d
               \/ \E j \in DOMAIN queue(m) : i < j /\ queue(m)[j] = <<"connectDestroyed", d>>
        BY <1>0, <2>1, <3>1 DEF SendInv
      <3> QED
        BY <1>0, <3>1, <3>2
    <2>4. CASE m = l
      <3>1. WithLast(queue(m), queue(m)', <<"sendInLoop", c>>)
        BY <2>4, Zenon DEF Sent, Appended
      <3>2. /\ \A j \in DOMAIN queue(m)' : \/ j \in DOMAIN queue(m) /\ queue(m)'[j] = queue(m)[j]
                                           \/ queue(m)'[j] = <<"sendInLoop", c>>
            /\ \A j \in DOMAIN queue(m) : j \in DOMAIN queue(m)' /\ queue(m)'[j] = queue(m)[j]
        BY <3>1, QueueType, QueueTypeNext DEF WithLast, Follows
      <3>3. CASE i \in DOMAIN queue(m) /\ queue(m)'[i] = queue(m)[i]
        <4>1. /\ loop_[d] = m
              /\ \/ connections_[id_[d]] = d
                 \/ \E j \in DOMAIN queue(m) : i < j /\ queue(m)[j] = <<"connectDestroyed", d>>
          BY <1>0, <2>1, <3>3 DEF SendInv
        <4> QED
          BY <1>0, <3>2, <4>1
      <3>4. CASE queue(m)'[i] = <<"sendInLoop", c>>
        BY <1>0, <2>2, <2>4, <3>4
      <3> QED
        BY <3>2, <3>3, <3>4
    <2> QED
      BY <2>3, <2>4
  <1> QED
    BY <1>3, <1>4, <1>5, <1>6, <1>7, Zenon DEF LifeInv

--------------------------------------------------------------------------------
(* Which step is of which kind *)

(* The functor at the head of what a loop has taken *)
LEMMA HeadOfBatch ==
  ASSUME TypeOK, NEW l \in Loops, batch[l] # <<>>
  PROVE  \E fn, c : /\ c \in Conns /\ <<fn, c>> \in Functors
                    /\ Head(batch[l]) = <<fn, c>> /\ fn = Head(batch[l])[1] /\ c = Head(batch[l])[2]
                    /\ 1 \in DOMAIN queue(l) /\ queue(l)[1] = <<fn, c>>
PROOF
  <1>1. batch[l] \in Seq(Functors) /\ pending[l] \in Seq(Functors)
    BY QueueType
  <1>2. PICK f : f = Head(batch[l])
    OBVIOUS
  <1>3. f \in Functors
    BY <1>1, <1>2
  <1>4. f = <<f[1], f[2]>> /\ f[2] \in Conns
    BY <1>3 DEF Functors
  <1>5. 1 \in DOMAIN queue(l) /\ queue(l)[1] = f
    BY <1>1, <1>2, TailIsWithoutFirst DEF queue, WithoutFirst
  <1> QED
    BY <1>2, <1>3, <1>4, <1>5, Zenon

(* A client is accepted. *)
LEMMA AcceptKind ==
  ASSUME TypeOK, CountInv, PoolInv, accept
  PROVE  \/ Quiet /\ UNCHANGED <<next_, nextConnId_>>
         \/ \E c \in Conns, io \in Loops :
              /\ Accepted(c, io) /\ io = getNextLoop /\ next_' = nextAfter
              /\ Used = 1 .. c - 1 /\ c + backlog' <= arrived'
              /\ started_ /\ nextConnId_' = (nextConnId_ + 1) % IdRange
PROOF
  <1>1. PICK outcome \in acceptOutcomes(connFds) :
          /\ handleRead(outcome)
          /\ IF outcome = "ok"
             THEN newConnection(1 + Cardinality({c \in Conns : state_[c] # "none"}))
             ELSE UNCHANGED <<next_, connVars, pending, reused>>
    BY Zenon DEF accept
  <1>2. /\ server = "up" /\ server' = "up" /\ late' = late /\ batch' = batch /\ backlog > 0
        /\ numThreads_' = numThreads_ /\ started_' = started_ /\ listenning_
        /\ arrived' = arrived
    BY <1>1, Zenon DEF accept, userVars, handleRead
  <1>3. CASE outcome # "ok"
    BY <1>1, <1>2, <1>3, Zenon DEF Quiet, connVars, queue
  <1>4. CASE outcome = "ok"
    <2>0. backlog' = backlog - 1
      BY <1>1, <1>4, Zenon DEF handleRead
    <2>1. PICK c \in Conns : /\ newConnection(c) /\ c \notin Used /\ Used = 1 .. c - 1
                             /\ c + (backlog - 1) <= arrived
      BY <1>1, <1>2, <1>4, NewConnectionIsNew, Zenon
    <2>2. started_
      BY <1>2, Zenon DEF PoolInv
    <2>3. PICK io : io = getNextLoop
      OBVIOUS
    <2>4. io \in Loops /\ (io = 0 => numThreads_ = 0)
      <3>1. numThreads_ \in Nat /\ next_ \in Nat /\ \A n \in 0 .. numThreads_ : n \in Loops
        BY LoopsRange DEF TypeOK, PoolInv
      <3>2. loops_ = 1 .. numThreads_
        BY <2>2, Zenon DEF loops_
      <3>3. loops_ = {} <=> numThreads_ = 0
        BY <3>1, <3>2
      <3>4. numThreads_ # 0 => next_ < numThreads_
        BY Zenon DEF PoolInv
      <3> QED
        BY <2>3, <3>1, <3>3, <3>4 DEF getNextLoop
    <2>5. /\ next_' = nextAfter
          /\ reused' = (reused \/ connections_[nextConnId_] # NULL)
          /\ connections_' = [connections_ EXCEPT ![nextConnId_] = c]
          /\ loop_' = [loop_ EXCEPT ![c] = io]
          /\ id_' = [id_ EXCEPT ![c] = nextConnId_]
          /\ state_' = [state_ EXCEPT ![c] = IF io = 0 THEN "kConnected" ELSE "kConnecting"]
          /\ io = 0 => pending' = pending
          /\ io # 0 => queueInLoop(io, "connectEstablished", c)
          /\ nextConnId_' = (nextConnId_ + 1) % IdRange
      BY <2>1, <2>3, Zenon DEF newConnection
    <2>6. io = 0 => \A l \in Loops : Same(l)
      BY <1>2, <2>5, Zenon DEF Same, queue
    <2>7. <<"connectEstablished", c>> \in Functors
      BY DEF Functors
    <2>8. io # 0 => /\ Appended(io, <<"connectEstablished", c>>)
                    /\ \A l \in Loops \ {io} : Same(l)
      BY <1>2, <2>4, <2>5, <2>7, AppendedBy, Zenon
    <2>9. Accepted(c, io)
      BY <1>2, <2>1, <2>4, <2>5, <2>6, <2>8, Zenon DEF Accepted
    <2>10. c + backlog' <= arrived'
      BY <1>2, <2>0, <2>1
    <2> QED
      BY <2>1, <2>2, <2>3, <2>4, <2>5, <2>9, <2>10, Zenon
  <1> QED
    BY <1>3, <1>4

(* A connection is closed in its loop. *)
LEMMA CloseKind ==
  ASSUME TypeOK, NEW c \in Conns, handleClose(c)
  PROVE  ClosedHere(c) \/ ClosedElsewhere(c)
PROOF
  <1>1. /\ state_[c] = "kConnected" /\ batch' = batch
        /\ server' = server /\ loop_' = loop_ /\ id_' = id_ /\ late' = late
        /\ state_' = [state_ EXCEPT ![c] = "kDisconnected"]
        /\ loop_[c] = 0 => /\ connections_' = [connections_ EXCEPT ![id_[c]] = NULL]
                           /\ queueInLoop(0, "connectDestroyed", c)
        /\ loop_[c] # 0 => /\ connections_' = connections_
                           /\ queueInLoop(0, "removeConnectionInLoop", c)
    BY Zenon DEF handleClose, removeConnectionInLoop, userVars
  <1>2. 0 \in Loops /\ <<"connectDestroyed", c>> \in Functors
        /\ <<"removeConnectionInLoop", c>> \in Functors
    BY LoopsRange DEF Functors
  <1>3. /\ loop_[c] = 0 => /\ Appended(0, <<"connectDestroyed", c>>)
                           /\ \A l \in Loops \ {0} : Same(l)
        /\ loop_[c] # 0 => /\ Appended(0, <<"removeConnectionInLoop", c>>)
                           /\ \A l \in Loops \ {0} : Same(l)
    BY <1>1, <1>2, AppendedBy, Zenon
  <1> QED
    BY <1>1, <1>3, Zenon DEF ClosedHere, ClosedElsewhere

(* The server tells its connections that it goes. *)
LEMMA DestructorKind ==
  ASSUME TypeOK, PointerInv, destructor
  PROVE  Told
PROOF
  <1> DEFINE inMap(l) == {c \in Conns : loop_[c] = l /\ \E i \in Ids : connections_[i] = c}
             made(s) == [i \in DOMAIN s |-> <<"connectDestroyed", s[i]>>]
  <1>1. PICK told : /\ \A l \in Loops : told[l] \in SetToSeqs(inMap(l))
                    /\ pending' = [l \in Loops |->
                         IF l = 0 THEN pending[l] ELSE pending[l] \o made(told[l])]
    BY Zenon DEF destructor
  <1>2. /\ server = "up" /\ server' # "up" /\ loop_' = loop_ /\ id_' = id_ /\ late' = late
        /\ connections_' = [i \in Ids |-> NULL] /\ batch' = batch
        /\ state_' = [c \in Conns |-> IF c \in inMap(0) THEN "kDisconnected" ELSE state_[c]]
    <2>1. server' = IF loops_ = {} THEN "gone" ELSE "joining"
      BY Zenon DEF destructor
    <2>2. server' # "up"
      BY <2>1
    <2> QED
      BY <2>2, Zenon DEF destructor, userVars
  <1>3. \A i \in Ids : connections_'[i] = NULL
    BY <1>2
  <1>4. \A c \in Conns :
          IF loop_[c] = 0 /\ \E i \in Ids : connections_[i] = c
          THEN state_'[c] = "kDisconnected"
          ELSE state_'[c] = state_[c]
    BY <1>2
  <1>5. ASSUME NEW l \in Loops
        PROVE  \E new : /\ Goes(l, new)
                        /\ \A f \in new : \E c \in Used : f = <<"connectDestroyed", c>> /\ loop_[c] = l
    <2>0. batch[l] \in Seq(Functors) /\ pending[l] \in Seq(Functors) /\ batch'[l] = batch[l]
      BY <1>2, QueueType
    <2>1. CASE l = 0
      <3>1. Same(l)
        BY <1>1, <2>0, <2>1 DEF Same, queue
      <3> QED
        BY <3>1, GoesOn
    <2>2. CASE l # 0
      <3>1. told[l] \in [1 .. Cardinality(inMap(l)) -> inMap(l)]
        BY <1>1 DEF SetToSeqs
      <3>2. Cardinality(inMap(l)) \in Nat
        <4>1. IsFiniteSet(Conns) /\ inMap(l) \subseteq Conns
          BY serverAssumption, FS_Interval DEF Conns
        <4> QED
          BY <4>1, FS_Subset, FS_CardinalityType
      <3>3. \A d \in inMap(l) : <<"connectDestroyed", d>> \in Functors
        BY DEF Functors
      <3>4. made(told[l]) \in Seq(Functors)
        <4> HIDE DEF inMap
        <4> QED
          BY <3>1, <3>2, <3>3, MadeSeq
      <3>5. \A d \in inMap(l) : d \in Used /\ loop_[d] = l
        BY DEF PointerInv, NULL, Conns
      <3>6. \A f \in Range(made(told[l])) : \E c \in Used : f = <<"connectDestroyed", c>> /\ loop_[c] = l
        <4> HIDE DEF inMap
        <4> QED
          BY <3>1, <3>5 DEF Range
      <3>7. PICK s : s = made(told[l])
        OBVIOUS
      <3> HIDE DEF made, inMap
      <3>8. queue(l) = batch[l] \o pending[l] /\ queue(l)' = batch[l] \o (pending[l] \o s)
        BY <1>1, <2>0, <2>2, <3>7 DEF queue
      <3>9. Follows(batch[l] \o pending[l], 0, batch[l] \o (pending[l] \o s), Range(s))
        BY <2>0, <3>4, <3>7, FollowsConcat
      <3>10. Goes(l, Range(s))
        BY <3>8, <3>9 DEF Goes
      <3> QED
        BY <3>6, <3>7, <3>10, Zenon
    <2> QED
      BY <2>1, <2>2
  <1> QED
    BY <1>2, <1>3, <1>4, <1>5, Zenon DEF Told

(* A loop goes from its handlers to its functors. *)
LEMMA DoPendingKind ==
  ASSUME TypeOK, PhaseInv, NEW l \in Loops, doPendingFunctors(l)
  PROVE  Quiet
PROOF
  <1>1. /\ UNCHANGED <<state_, connections_, id_, loop_, late, reused, server>>
        /\ batch' = [batch EXCEPT ![l] = pending[l]]
        /\ pending' = [pending EXCEPT ![l] = <<>>]
        /\ pc[l] = "poll"
    BY Zenon DEF doPendingFunctors, connVars, userVars
  <1>2. batch[l] = <<>> /\ pending[l] \in Seq(Functors)
    BY <1>1, QueueType DEF PhaseInv
  <1>3. /\ batch'[l] = pending[l] /\ pending'[l] = <<>>
        /\ \A m \in Loops \ {l} : batch'[m] = batch[m] /\ pending'[m] = pending[m]
    BY <1>1 DEF TypeOK
  <1>4. <<>> \o pending[l] = pending[l] \o <<>>
    BY <1>2, ConcatSwap
  <1>5. queue(l)' = queue(l)
    BY <1>2, <1>3, <1>4, Zenon DEF queue
  <1>6. \A m \in Loops \ {l} : queue(m)' = queue(m)
    BY <1>3, Zenon DEF queue
  <1> QED
    BY <1>1, <1>5, <1>6, Zenon DEF Quiet

(* An iteration ends, and the loop with it if the server goes. *)
LEMMA IterationKind ==
  ASSUME TypeOK, PhaseInv, NEW l \in Loops, iterationEnds(l)
  PROVE  \/ Quiet /\ UNCHANGED server /\ pc' = [pc EXCEPT ![l] = "poll"]
         \/ Ended(l) /\ pc' = [pc EXCEPT ![l] = "ended"]
PROOF
  <1>1. /\ UNCHANGED <<state_, connections_, id_, loop_, late, reused, server>>
        /\ batch' = batch /\ batch[l] = <<>>
        /\ \/ pending' = pending /\ pc' = [pc EXCEPT ![l] = "poll"]
           \/ /\ quit_[l] \/ server = "gone"
              /\ pending' = [pending EXCEPT ![l] = <<>>]
              /\ pc' = [pc EXCEPT ![l] = "ended"]
    BY Zenon DEF iterationEnds, connVars, userVars
  <1>2. CASE pending' = pending /\ pc' = [pc EXCEPT ![l] = "poll"]
    BY <1>1, <1>2, Zenon DEF Quiet, queue
  <1>3. CASE /\ quit_[l] \/ server = "gone"
             /\ pending' = [pending EXCEPT ![l] = <<>>]
             /\ pc' = [pc EXCEPT ![l] = "ended"]
    <2>1. server # "up"
      BY <1>3 DEF PhaseInv
    <2>2. pending'[l] = <<>> /\ \A m \in Loops \ {l} : pending'[m] = pending[m]
      BY <1>3 DEF TypeOK
    <2>3. <<>> \o <<>> = <<>>
      BY ConcatEmptySeq
    <2>4. queue(l)' = <<>> /\ \A m \in Loops \ {l} : Same(m)
      BY <1>1, <2>2, <2>3, Zenon DEF queue, Same
    <2> QED
      BY <1>1, <1>3, <2>1, <2>4, Zenon DEF Ended
  <1> QED
    BY <1>1, <1>2, <1>3

(* A functor is run. *)
LEMMA RunKind ==
  ASSUME TypeOK, RemoveInv, NEW l \in Loops, runFunctor(l)
  PROVE  \E c \in Conns : \/ RanEstablished(l, c) \/ RanDestroyed(l, c) \/ RanSend(l, c)
                          \/ \E k \in Loops : RanRemove(k, c)
PROOF
  <1>0. batch[l] # <<>> /\ batch' = [batch EXCEPT ![l] = Tail(@)]
    BY Zenon DEF runFunctor
  <1>1. PICK fn, c : /\ c \in Conns /\ <<fn, c>> \in Functors
                     /\ Head(batch[l]) = <<fn, c>> /\ fn = Head(batch[l])[1] /\ c = Head(batch[l])[2]
                     /\ 1 \in DOMAIN queue(l) /\ queue(l)[1] = <<fn, c>>
    BY <1>0, HeadOfBatch, Zenon
  <1>2. /\ UNCHANGED <<server, loop_, id_, late>>
        /\ \/ /\ fn = "connectEstablished"
              /\ state_' = [state_ EXCEPT ![c] = "kConnected"]
              /\ UNCHANGED <<connections_, pending>>
           \/ /\ fn = "connectDestroyed"
              /\ state_' = [state_ EXCEPT ![c] = "kDisconnected"]
              /\ UNCHANGED <<connections_, pending>>
           \/ /\ fn = "removeConnectionInLoop"
              /\ connections_' = [connections_ EXCEPT ![id_[c]] = NULL]
              /\ queueInLoop(loop_[c], "connectDestroyed", c)
              /\ UNCHANGED state_
           \/ /\ fn = "sendInLoop"
              /\ UNCHANGED <<state_, connections_, pending>>
    BY <1>1, Zenon DEF runFunctor, removeConnectionInLoop, userVars
  <1>3. pending' = pending => Taken(l, <<fn, c>>) /\ \A m \in Loops \ {l} : Same(m)
    BY <1>0, <1>1, TakenBy, Zenon
  <1>4. CASE fn = "removeConnectionInLoop"
    <2>1. /\ connections_' = [connections_ EXCEPT ![id_[c]] = NULL]
          /\ queueInLoop(loop_[c], "connectDestroyed", c)
          /\ UNCHANGED state_
      BY <1>2, <1>4
    <2>2. l = 0 /\ loop_[c] # 0
      BY <1>1, <1>4, Zenon DEF RemoveInv
    <2>3. loop_[c] \in Loops /\ <<"connectDestroyed", c>> \in Functors
      BY <1>1 DEF TypeOK, Functors
    <2>4. /\ Taken(l, <<fn, c>>) /\ Appended(loop_[c], <<"connectDestroyed", c>>)
          /\ \A m \in Loops \ {loop_[c], l} : Same(m)
      BY <1>0, <1>1, <2>1, <2>2, <2>3, TakenAndAppended, Zenon
    <2>5. \A m \in Loops \ {0, loop_[c]} : Same(m)
      BY <2>2, <2>4, Zenon
    <2>6. RanRemove(loop_[c], c)
      BY <1>2, <1>4, <2>1, <2>2, <2>4, <2>5, Zenon DEF RanRemove
    <2>7. PICK k \in Loops : k = loop_[c]
      BY <2>3
    <2>8. RanRemove(k, c)
      BY <2>6, <2>7, Zenon
    <2> QED
      BY <1>1, <2>7, <2>8, Zenon
  <1>5. CASE fn = "connectEstablished"
    BY <1>1, <1>2, <1>3, <1>5 DEF RanEstablished
  <1>6. CASE fn = "connectDestroyed"
    BY <1>1, <1>2, <1>3, <1>6 DEF RanDestroyed
  <1>7. CASE fn = "sendInLoop"
    BY <1>1, <1>2, <1>3, <1>7 DEF RanSend
  <1> QED
    BY <1>2, <1>4, <1>5, <1>6, <1>7

(* send() hands a functor to the loop of the connection. *)
LEMMA SendKind ==
  ASSUME TypeOK, PointerInv, sendQueues
  PROVE  \E c \in Conns, l \in Loops : Sent(c, l) /\ c = user.holds
PROOF
  <1>1. PICK c : c = user.holds
    OBVIOUS
  <1>2. c \in Conns
    BY <1>1 DEF sendQueues, PointerInv, TypeOK
  <1>3. PICK l \in Loops : l = loop_[c]
    BY <1>2 DEF TypeOK
  <1>4. /\ UNCHANGED <<server, loop_, id_, connections_, state_>> /\ batch' = batch
        /\ ~late' => ~late /\ state_[c] = "kConnected"
        /\ queueInLoop(l, "sendInLoop", c)
    BY <1>1, <1>3, Zenon DEF sendQueues, connVars
  <1>5. <<"sendInLoop", c>> \in Functors
    BY <1>2 DEF Functors
  <1>6. Appended(l, <<"sendInLoop", c>>) /\ \A m \in Loops \ {l} : Same(m)
    BY <1>4, <1>5, AppendedBy, Zenon
  <1> QED
    BY <1>1, <1>2, <1>3, <1>4, <1>6, Zenon DEF Sent

(* The other steps *)
LEMMA QuietKind ==
  ASSUME start \/ startElsewhere \/ emfile \/ join \/ userDrops \/ world
         \/ \E c \in Conns : sendTests(c)
  PROVE  Quiet
PROOF
  <1>1. /\ UNCHANGED <<state_, connections_, id_, loop_, late, reused, batch, pending>>
        /\ server' = server \/ (server = "joining" /\ server' = "gone")
    BY Zenon DEF start, startElsewhere, emfile, join, userDrops, world, sendTests,
       connVars, loopVars, userVars
  <1> QED
    BY <1>1, Zenon DEF Quiet, queue

(* No step changes the number of threads, and a name used twice stays so. *)
LEMMA Constant ==
  ASSUME Next
  PROVE  numThreads_' = numThreads_ /\ (reused => reused')
PROOF
  <1>1. accept => numThreads_' = numThreads_ /\ (reused => reused')
    BY Zenon DEF accept, newConnection
  <1>2. start \/ startElsewhere \/ emfile \/ join \/ userDrops \/ world
         \/ (\E c \in Conns : sendTests(c)) => numThreads_' = numThreads_ /\ reused' = reused
    BY Zenon DEF start, startElsewhere, emfile, join, userDrops, world, sendTests, poolVars
  <1>3. destructor \/ (\E c \in Conns : handleClose(c)) \/ sendQueues
         => numThreads_' = numThreads_ /\ reused' = reused
    BY Zenon DEF destructor, handleClose, sendQueues, poolVars
  <1>4. (\E l \in Loops : LoopStep(l)) => numThreads_' = numThreads_ /\ reused' = reused
    BY Zenon DEF LoopStep, doPendingFunctors, runFunctor, iterationEnds, poolVars
  <1>5. reused' = reused => (reused => reused')
    OBVIOUS
  <1> QED
    BY <1>1, <1>2, <1>3, <1>4, <1>5, Zenon DEF Next, User

(* The lives of the connections go on as they should while no name is used   *)
(* twice.                                                                    *)
LEMMA LifeStep ==
  ASSUME TypeOK, TypeOK', CountInv, PointerInv, PoolInv, PhaseInv, ~reused => LifeInv, Next
  PROVE  ~reused' => LifeInv'
PROOF
  <1> SUFFICES ASSUME ~reused' PROVE LifeInv'
    OBVIOUS
  <1>0. numThreads_' = numThreads_ /\ LifeInv /\ RemoveInv
    BY Constant, Zenon DEF LifeInv
  <1>1. Quiet => LifeInv'
    BY <1>0, QuietLife, Zenon
  <1>2. accept => LifeInv'
    BY <1>0, <1>1, AcceptKind, AcceptedLife, Zenon
  <1>3. (\E c \in Conns : handleClose(c)) => LifeInv'
    BY <1>0, CloseKind, ClosedHereLife, ClosedElsewhereLife, Zenon
  <1>4. destructor => LifeInv'
    BY <1>0, DestructorKind, ToldLife, Zenon
  <1>5. ASSUME NEW l \in Loops, doPendingFunctors(l)
        PROVE  LifeInv'
    BY <1>1, <1>5, DoPendingKind, Zenon
  <1>6. ASSUME NEW l \in Loops, runFunctor(l)
        PROVE  LifeInv'
    <2>1. PICK c \in Conns : \/ RanEstablished(l, c) \/ RanDestroyed(l, c) \/ RanSend(l, c)
                             \/ \E k \in Loops : RanRemove(k, c)
      BY <1>0, <1>6, RunKind, Zenon
    <2> QED
      BY <1>0, <2>1, RanEstablishedLife, RanDestroyedLife, RanSendLife, RanRemoveLife, Zenon
  <1>7. ASSUME NEW l \in Loops, iterationEnds(l)
        PROVE  LifeInv'
    <2>1. Quiet \/ Ended(l)
      BY <1>7, IterationKind, Zenon
    <2>2. CASE Quiet
      BY <1>1, <2>2, Zenon
    <2>3. CASE Ended(l)
      <3>1. CASE Conns = {}
        <4>1. Used' = {}
          BY <3>1 DEF Used
        <4> QED
          BY <3>1, <4>1, Zenon DEF LifeInv, OpenInv, EstablishedInv, DestroyedInv, RemoveInv, SendInv
      <3>2. CASE Conns # {}
        BY <1>0, <2>3, <3>2, RanSendLife, Zenon
      <3> QED
        BY <3>1, <3>2
    <2> QED
      BY <2>1, <2>2, <2>3
  <1>8. sendQueues => LifeInv'
    BY <1>0, SendKind, SentLife, Zenon
  <1>9. start \/ startElsewhere \/ emfile \/ join \/ userDrops \/ world
         \/ (\E c \in Conns : sendTests(c)) => LifeInv'
    BY <1>1, QuietKind, Zenon
  <1> QED
    BY <1>2, <1>3, <1>4, <1>5, <1>6, <1>7, <1>8, <1>9, Zenon DEF Next, LoopStep, User

--------------------------------------------------------------------------------
(* The connections that were made *)

(* A connection that was made stays so whatever its state becomes. *)
LEMMA UsedSame ==
  ASSUME TypeOK, NEW c \in Used, NEW s, s # "none",
         state_' = [state_ EXCEPT ![c] = s]
  PROVE  Used' = Used
PROOF
  BY DEF Used, TypeOK

(* Every connection pointed to by a functor was made. *)
LEMMA HeadIsUsed ==
  ASSUME TypeOK, PointerInv, NEW l \in Loops, batch[l] # <<>>
  PROVE  Head(batch[l])[2] \in Used
PROOF
  <1>1. PICK fn, c : /\ c = Head(batch[l])[2]
                     /\ 1 \in DOMAIN queue(l) /\ queue(l)[1] = <<fn, c>>
    BY HeadOfBatch, Zenon
  <1>2. queue(l)[1][2] \in Used
    BY <1>1, Zenon DEF PointerInv
  <1> QED
    BY <1>1, <1>2

(* Only accept() makes connections, and says where they live. *)
LEMMA UsedStep ==
  ASSUME TypeOK, PointerInv, Next
  PROVE  accept \/ (Used' = Used /\ loop_' = loop_ /\ id_' = id_ /\ next_' = next_)
PROOF
  <1>1. start \/ startElsewhere \/ emfile \/ join \/ userDrops \/ world
         \/ (\E c \in Conns : sendTests(c)) \/ sendQueues
         \/ (\E l \in Loops : doPendingFunctors(l) \/ iterationEnds(l))
         => UNCHANGED <<state_, loop_, id_, next_>>
    BY Zenon DEF start, startElsewhere, emfile, join, userDrops, world, sendTests, sendQueues,
       doPendingFunctors, iterationEnds, connVars, poolVars
  <1>2. UNCHANGED state_ => Used' = Used
    BY DEF Used
  <1>3. ASSUME NEW c \in Conns, handleClose(c)
        PROVE  Used' = Used /\ loop_' = loop_ /\ id_' = id_ /\ next_' = next_
    <2>1. /\ state_[c] = "kConnected" /\ state_' = [state_ EXCEPT ![c] = "kDisconnected"]
          /\ loop_' = loop_ /\ id_' = id_ /\ next_' = next_
      BY <1>3, Zenon DEF handleClose, poolVars
    <2>2. c \in Used
      BY <2>1 DEF Used
    <2> QED
      BY <2>1, <2>2, UsedSame
  <1>4. ASSUME destructor
        PROVE  Used' = Used /\ loop_' = loop_ /\ id_' = id_ /\ next_' = next_
    <2>1. loop_' = loop_ /\ id_' = id_ /\ next_' = next_
      BY <1>4, Zenon DEF destructor, poolVars
    <2>2. Told
      BY <1>4, DestructorKind, Zenon
    <2>3. \A c \in Conns : \/ state_'[c] = state_[c]
                           \/ state_'[c] = "kDisconnected" /\ \E i \in Ids : connections_[i] = c
      BY <2>2, Zenon DEF Told
    <2>4. \A c \in Conns : (\E i \in Ids : connections_[i] = c) => c \in Used
      BY DEF PointerInv, NULL, Conns
    <2>5. Used' = Used
      BY <2>3, <2>4 DEF Used
    <2> QED
      BY <2>1, <2>5
  <1>5. ASSUME NEW l \in Loops, runFunctor(l)
        PROVE  Used' = Used /\ loop_' = loop_ /\ id_' = id_ /\ next_' = next_
    <2>1. PICK c : c = Head(batch[l])[2]
      OBVIOUS
    <2>2. c \in Used
      BY <1>5, <2>1, HeadIsUsed, Zenon DEF runFunctor
    <2>3. /\ loop_' = loop_ /\ id_' = id_ /\ next_' = next_
          /\ \/ state_' = [state_ EXCEPT ![c] = "kConnected"]
             \/ state_' = [state_ EXCEPT ![c] = "kDisconnected"]
             \/ state_' = state_
      BY <1>5, <2>1, Zenon DEF runFunctor, poolVars
    <2> QED
      BY <1>2, <2>2, <2>3, UsedSame
  <1> QED
    BY <1>1, <1>2, <1>3, <1>4, <1>5, Zenon DEF Next, LoopStep, User

(* The connection accepted is one more. *)
LEMMA AcceptedUsed ==
  ASSUME TypeOK, NEW c \in Conns, NEW io, Accepted(c, io)
  PROVE  Used' = Used \cup {c} /\ c \notin Used /\ Conns \in SUBSET Nat
PROOF
  <1>1. c \notin Used /\ state_' = [state_ EXCEPT ![c] = IF io = 0 THEN "kConnected" ELSE "kConnecting"]
    BY Zenon DEF Accepted
  <1>2. Used' = Used \cup {c}
    BY <1>1 DEF Used, TypeOK
  <1> QED
    BY <1>1, <1>2, serverAssumption DEF Conns

(* The clients are the ones that wait and the ones that were accepted. *)
LEMMA CountStep ==
  ASSUME TypeOK, CountInv, PointerInv, PoolInv, Next
  PROVE  CountInv'
PROOF
  <1>0. /\ backlog \in Nat /\ arrived \in Nat /\ MaxClients \in Nat
        /\ \A n \in 0 .. MaxClients : n \in Nat
    BY serverAssumption DEF TypeOK, AcceptorTypeOK
  <1>1. PICK n \in 0 .. MaxClients : Used = 1 .. n /\ n + backlog <= arrived
    BY Zenon DEF CountInv
  <1>2. accepting = "closed" => backlog > 0
    BY Zenon DEF CountInv
  <1>3. CASE accept
    <2>0. /\ arrived' = arrived
          /\ backlog' = backlog - 1 \/ backlog' = backlog
          /\ accepting' = "closed" => backlog' = backlog
          /\ backlog > 0
      <3>1. PICK outcome : handleRead(outcome)
        BY <1>3, Zenon DEF accept
      <3>2. /\ arrived' = arrived /\ backlog > 0
            /\ backlog' = IF outcome \in {"ok", "aborted"} THEN backlog - 1 ELSE backlog
            /\ accepting' = IF outcome = "EMFILE" THEN "closed" ELSE "no"
        BY <3>1, Zenon DEF handleRead
      <3> QED
        BY <3>2
    <2>1. accepting' = "closed" => backlog' > 0
      BY <2>0
    <2>2. CASE Quiet
      <3>1. Used' = Used
        BY <2>2, Zenon DEF Quiet, Used
      <3>2. n + backlog' <= arrived'
        BY <1>0, <1>1, <2>0
      <3> QED
        BY <1>1, <2>1, <3>1, <3>2, Zenon DEF CountInv
    <2>3. CASE ~Quiet
      <3>1. PICK c \in Conns, io \in Loops : /\ Accepted(c, io) /\ Used = 1 .. c - 1
                                             /\ c + backlog' <= arrived'
        BY <1>3, <2>3, AcceptKind, Zenon
      <3>2. Used' = Used \cup {c}
        BY <3>1, AcceptedUsed, Zenon
      <3>3. c \in 0 .. MaxClients /\ c \in Nat /\ c > 0
        BY <1>0 DEF Conns
      <3>4. Used' = 1 .. c
        BY <3>1, <3>2, <3>3
      <3> QED
        BY <2>1, <3>1, <3>3, <3>4, Zenon DEF CountInv
    <2> QED
      BY <2>2, <2>3
  <1>4. CASE ~accept
    <2>1. Used' = Used
      BY <1>4, UsedStep, Zenon
    <2>2. \/ arrived' = arrived /\ backlog' = backlog /\ (accepting' = "closed" => accepting = "closed")
          \/ /\ arrived' = arrived + 1 /\ backlog' = backlog + 1
             /\ (accepting' = "closed" => accepting = "closed")
          \/ arrived' = arrived /\ backlog' = 0 /\ accepting' = "no"
          \/ /\ arrived' = arrived /\ backlog > 0 /\ accepting' # "closed"
             /\ backlog' = backlog - 1 \/ backlog' = backlog
      <3>1. startElsewhere \/ join \/ (\E c \in Conns : handleClose(c)) \/ (\E l \in Loops : LoopStep(l))
            \/ User => arrived' = arrived /\ backlog' = backlog /\ accepting' = accepting
        BY Zenon DEF startElsewhere, join, handleClose, LoopStep, User, doPendingFunctors, runFunctor,
           iterationEnds, sendQueues, sendTests, userDrops, acceptorVars
      <3>2. start => arrived' = arrived /\ backlog' = backlog /\ accepting' = accepting
        BY Zenon DEF start, listen
      <3>3. destructor => arrived' = arrived /\ backlog' = 0 /\ accepting' = "no"
        BY Zenon DEF destructor, destroyAcceptor, inBaseLoop
      <3>4. world => \/ arrived' = arrived /\ backlog' = backlog /\ accepting' = accepting
                     \/ arrived' = arrived + 1 /\ backlog' = backlog + 1 /\ accepting' = accepting
        BY Zenon DEF world, clientConnects, otherOpens, otherCloses
      <3>5. emfile => \/ /\ arrived' = arrived /\ backlog > 0 /\ accepting' # "closed"
                         /\ backlog' = backlog - 1 \/ backlog' = backlog
                      \/ arrived' = arrived /\ backlog' = backlog /\ accepting' # "closed"
        <4>1. emfileAccept(connFds) => accepting' # "closed" /\ backlog > 0 /\ arrived' = arrived
                                       /\ (backlog' = backlog - 1 \/ backlog' = backlog)
          BY <1>2, Zenon DEF emfileAccept
        <4>2. emfileClose \/ emfileOpen(connFds) =>
                accepting' # "closed" /\ backlog' = backlog /\ arrived' = arrived
          BY Zenon DEF emfileClose, emfileOpen
        <4> QED
          BY <4>1, <4>2, Zenon DEF emfile
      <3> QED
        BY <1>4, <3>1, <3>2, <3>3, <3>4, <3>5, Zenon DEF Next
    <2>3. n + backlog' <= arrived' /\ (accepting' = "closed" => backlog' > 0)
      BY <1>0, <1>1, <1>2, <2>2
    <2> QED
      BY <1>1, <2>1, <2>3, Zenon DEF CountInv
  <1> QED
    BY <1>3, <1>4

(* The base loop takes its first functor and queues one, in itself or not. *)
LEMMA FollowsBoth ==
  ASSUME NEW S, NEW b \in Seq(S), NEW p \in Seq(S), NEW f \in S, b # <<>>
  PROVE  Follows(b \o p, 1, Tail(b) \o Append(p, f), {f})
PROOF
  <1>1. PICK q, r, s : q = b \o p /\ r = Tail(b) \o p /\ s = Tail(b) \o Append(p, f)
    OBVIOUS
  <1>2. Tail(b) \in Seq(S) /\ Len(Tail(b)) = Len(b) - 1
    OBVIOUS
  <1>3. Follows(q, 1, r, {})
    BY <1>1, TailIsWithoutFirst, Zenon DEF WithoutFirst
  <1>4. Follows(r, 0, s, {f})
    BY <1>1, <1>2, AppendIsLast, Zenon DEF WithLast
  <1>5. /\ q \in Seq(S) /\ r \in Seq(S) /\ s \in Seq(S)
        /\ Len(q) = Len(r) + 1
    BY <1>1, <1>2
  <1>6. ASSUME NEW i \in DOMAIN s
        PROVE  \/ i + 1 \in DOMAIN q /\ s[i] = q[i + 1]
               \/ i + 1 > Len(q) /\ s[i] \in {f}
    <2>1. \/ i + 0 \in DOMAIN r /\ s[i] = r[i + 0]
          \/ i + 0 > Len(r) /\ s[i] \in {f}
      BY <1>4, Zenon DEF Follows
    <2>2. i \in Nat /\ Len(r) \in Nat /\ i + 0 = i
      BY <1>5
    <2>3. CASE i \in DOMAIN r /\ s[i] = r[i]
      <3>1. \/ i + 1 \in DOMAIN q /\ r[i] = q[i + 1]
            \/ i + 1 > Len(q) /\ r[i] \in {}
        BY <1>3, <2>3, Zenon DEF Follows
      <3> QED
        BY <2>3, <3>1
    <2>4. CASE i > Len(r) /\ s[i] \in {f}
      BY <1>5, <2>2, <2>4
    <2> QED
      BY <2>1, <2>2, <2>3, <2>4
  <1>7. ASSUME NEW j \in DOMAIN q, j > 1
        PROVE  j - 1 \in DOMAIN s /\ s[j - 1] = q[j]
    <2>1. j - 1 \in DOMAIN r /\ r[j - 1] = q[j]
      BY <1>3, <1>7, Zenon DEF Follows
    <2>2. j - 1 \in Nat /\ j - 1 > 0 /\ (j - 1) - 0 = j - 1
      BY <1>5, <1>7
    <2>3. (j - 1) - 0 \in DOMAIN s /\ s[(j - 1) - 0] = r[j - 1]
      BY <1>4, <2>1, <2>2, Zenon DEF Follows
    <2> QED
      BY <2>1, <2>2, <2>3
  <1>8. Follows(q, 1, s, {f})
    BY <1>6, <1>7, Zenon DEF Follows
  <1> QED
    BY <1>1, <1>8, Zenon

(* What is queued points to connections that were made. *)
Keeps(made) == \A l \in Loops : \E new : Goes(l, new) /\ \A f \in new : f[2] \in made

(* Pointers in the queues stay good if the new ones are. *)
LEMMA PointersKept ==
  ASSUME TypeOK, TypeOK', PointerInv, NEW made, Used \subseteq made, Keeps(made)
  PROVE  \A l \in Loops : \A i \in DOMAIN queue(l)' : queue(l)'[i][2] \in made
PROOF
  <1> SUFFICES ASSUME NEW l \in Loops, NEW i \in DOMAIN queue(l)'
               PROVE  queue(l)'[i][2] \in made
    OBVIOUS
  <1>0. PICK new : Goes(l, new) /\ \A f \in new : f[2] \in made
    BY Zenon DEF Keeps
  <1>1. PICK k \in Nat : Follows(queue(l), k, queue(l)', new)
    BY <1>0, Zenon DEF Goes
  <1>2. \A j \in DOMAIN queue(l) : queue(l)[j][2] \in made
    BY DEF PointerInv
  <1>3. \/ i + k \in DOMAIN queue(l) /\ queue(l)'[i] = queue(l)[i + k]
        \/ queue(l)'[i] \in new
    BY <1>1, Zenon DEF Follows
  <1> QED
    BY <1>0, <1>2, <1>3, Zenon

(* What a functor queues is about its own connection, *)
LEMMA RunKeeps ==
  ASSUME TypeOK, PointerInv, NEW l \in Loops, runFunctor(l)
  PROVE  Keeps(Used)
PROOF
  <1>0. batch[l] # <<>> /\ batch' = [batch EXCEPT ![l] = Tail(@)]
    BY Zenon DEF runFunctor
  <1>1. PICK fn, c : /\ c \in Conns /\ c = Head(batch[l])[2] /\ Head(batch[l]) = <<fn, c>>
    BY <1>0, HeadOfBatch, Zenon
  <1>2. c \in Used
    BY <1>0, <1>1, HeadIsUsed, Zenon
  <1>3. pending' = pending \/ queueInLoop(loop_[c], "connectDestroyed", c)
    BY <1>1, Zenon DEF runFunctor, removeConnectionInLoop
  <1>4. CASE pending' = pending
    <2>1. Taken(l, <<fn, c>>) /\ \A m \in Loops \ {l} : Same(m)
      BY <1>0, <1>1, <1>4, TakenBy, Zenon
    <2>2. \A m \in Loops : Goes(m, {})
      BY <2>1, GoesOn, Zenon
    <2> QED
      BY <2>2 DEF Keeps
  <1>5. CASE queueInLoop(loop_[c], "connectDestroyed", c)
    <2>1. loop_[c] \in Loops /\ <<"connectDestroyed", c>> \in Functors
      BY <1>1 DEF TypeOK, Functors
    <2>2. CASE loop_[c] # l
      <3>1. /\ Taken(l, Head(batch[l])) /\ Appended(loop_[c], <<"connectDestroyed", c>>)
            /\ \A m \in Loops \ {loop_[c], l} : Same(m)
        BY <1>0, <1>5, <2>1, <2>2, TakenAndAppended, Zenon
      <3>2. \A m \in Loops : Goes(m, {}) \/ Goes(m, {<<"connectDestroyed", c>>})
        BY <3>1, GoesOn, Zenon
      <3>3. \A f \in {<<"connectDestroyed", c>>} : f[2] \in Used
        BY <1>2
      <3> QED
        BY <3>2, <3>3 DEF Keeps
    <2>3. CASE loop_[c] = l
      <3>1. PICK f : f = <<"connectDestroyed", c>>
        OBVIOUS
      <3>2. pending' = [pending EXCEPT ![l] = Append(@, f)]
        BY <1>5, <2>3, <3>1, Zenon DEF queueInLoop
      <3>3. \A m \in Loops : batch[m] \in Seq(Functors) /\ pending[m] \in Seq(Functors)
        BY QueueType
      <3>4. /\ pending'[l] = Append(pending[l], f) /\ batch'[l] = Tail(batch[l])
            /\ \A m \in Loops \ {l} : pending'[m] = pending[m] /\ batch'[m] = batch[m]
        BY <1>0, <3>2 DEF TypeOK
      <3>5. f \in Functors /\ f[2] \in Used
        BY <1>2, <2>1, <3>1
      <3>6. /\ queue(l)' = Tail(batch[l]) \o Append(pending[l], f)
            /\ queue(l) = batch[l] \o pending[l]
        BY <3>4 DEF queue
      <3>7. Follows(batch[l] \o pending[l], 1, Tail(batch[l]) \o Append(pending[l], f), {f})
        BY <1>0, <3>3, <3>5, FollowsBoth
      <3>8. Goes(l, {f})
        BY <3>6, <3>7 DEF Goes
      <3>9. \A m \in Loops \ {l} : Same(m)
        BY <3>4, Zenon DEF Same, queue
      <3>10. \A m \in Loops : Goes(m, {}) \/ Goes(m, {f})
        BY <3>8, <3>9, GoesOn, Zenon
      <3> QED
        BY <3>5, <3>10 DEF Keeps
    <2> QED
      BY <2>2, <2>3
  <1> QED
    BY <1>3, <1>4, <1>5

(* and so it is for every other step that queues something. *)
LEMMA StepKeeps ==
  ASSUME TypeOK, PointerInv, PhaseInv, Next, ~accept
  PROVE  Keeps(Used)
PROOF
  <1>0. ASSUME Quiet
        PROVE  Keeps(Used)
    <2>1. \A l \in Loops : Goes(l, {})
      BY <1>0, GoesOn DEF Quiet, Same
    <2> QED
      BY <2>1 DEF Keeps
  <1>1. ASSUME NEW c \in Conns, handleClose(c)
        PROVE  Keeps(Used)
    <2>1. ClosedHere(c) \/ ClosedElsewhere(c)
      BY <1>1, CloseKind, Zenon
    <2>2. PICK f : /\ f = <<"connectDestroyed", c>> \/ f = <<"removeConnectionInLoop", c>>
                   /\ Appended(0, f) /\ \A l \in Loops \ {0} : Same(l)
      BY <2>1, Zenon DEF ClosedHere, ClosedElsewhere
    <2>3. c \in Used
      BY <1>1 DEF Used, handleClose
    <2>4. f[2] \in Used
      BY <2>2, <2>3
    <2>5. \A m \in Loops : Goes(m, {}) \/ Goes(m, {f})
      BY <2>2, GoesOn, Zenon
    <2> QED
      BY <2>4, <2>5 DEF Keeps
  <1>2. ASSUME destructor
        PROVE  Keeps(Used)
    <2>1. Told
      BY <1>2, DestructorKind, Zenon
    <2>2. ASSUME NEW l \in Loops
          PROVE  \E new : Goes(l, new) /\ \A f \in new : f[2] \in Used
      <3>1. PICK new : /\ Goes(l, new)
                       /\ \A f \in new : \E c \in Used : f = <<"connectDestroyed", c>> /\ loop_[c] = l
        BY <2>1, Zenon DEF Told
      <3>2. \A f \in new : f[2] \in Used
        BY <3>1
      <3> QED
        BY <3>1, <3>2, Zenon
    <2> QED
      BY <2>2, Zenon DEF Keeps
  <1>3. ASSUME sendQueues
        PROVE  Keeps(Used)
    <2>1. PICK c \in Conns, l \in Loops : Sent(c, l) /\ c = user.holds
      BY <1>3, SendKind, Zenon
    <2>2. PICK f : f = <<"sendInLoop", c>>
      OBVIOUS
    <2>3. f[2] \in Used
      BY <2>1, <2>2 DEF PointerInv, NULL, Conns
    <2>4. \A m \in Loops : Goes(m, {}) \/ Goes(m, {f})
      BY <2>1, <2>2, GoesOn, Zenon DEF Sent
    <2> QED
      BY <2>3, <2>4 DEF Keeps
  <1>4. ASSUME NEW l \in Loops, iterationEnds(l)
        PROVE  Keeps(Used)
    <2>1. Quiet \/ Ended(l)
      BY <1>4, IterationKind, Zenon
    <2>2. CASE Ended(l)
      <3>1. queue(l)' = <<>> /\ \A m \in Loops \ {l} : Same(m)
        BY <2>2, Zenon DEF Ended
      <3>2. Len(queue(l)) \in Nat /\ DOMAIN queue(l) = 1 .. Len(queue(l))
        BY QueueType
      <3>3. Follows(queue(l), Len(queue(l)), queue(l)', {})
        BY <3>1, <3>2 DEF Follows
      <3>4. Goes(l, {})
        BY <3>2, <3>3, Zenon DEF Goes
      <3>5. \A m \in Loops : Goes(m, {})
        BY <3>1, <3>4, GoesOn, Zenon
      <3> QED
        BY <3>5 DEF Keeps
    <2> QED
      BY <1>0, <2>1, <2>2
  <1> QED
    BY <1>0, <1>1, <1>2, <1>3, <1>4, RunKeeps, DoPendingKind, QuietKind, Zenon DEF Next, LoopStep, User

(* The map gets the new connection, or loses some. *)
LEMMA MapStep ==
  ASSUME TypeOK, Next, ~accept
  PROVE  \A i \in Ids : connections_'[i] = connections_[i] \/ connections_'[i] = NULL
PROOF
  <1>0. connections_ \in [Ids -> Conns \cup {NULL}]
    BY Zenon DEF TypeOK
  <1>1. \/ connections_' = connections_
        \/ connections_' = [i \in Ids |-> NULL]
        \/ \E n : connections_' = [connections_ EXCEPT ![n] = NULL]
    <2>1. start \/ startElsewhere \/ emfile \/ join \/ userDrops \/ world
          \/ (\E c \in Conns : sendTests(c)) \/ sendQueues
          \/ (\E l \in Loops : doPendingFunctors(l) \/ iterationEnds(l))
          => connections_' = connections_
      BY Zenon DEF start, startElsewhere, emfile, join, userDrops, world, sendTests, sendQueues,
         doPendingFunctors, iterationEnds, connVars
    <2>2. destructor => connections_' = [i \in Ids |-> NULL]
      BY Zenon DEF destructor
    <2>3. \A c \in Conns : handleClose(c) =>
            \/ connections_' = connections_
            \/ \E n : connections_' = [connections_ EXCEPT ![n] = NULL]
      BY Zenon DEF handleClose, removeConnectionInLoop
    <2>4. \A l \in Loops : runFunctor(l) =>
            \/ connections_' = connections_
            \/ \E n : connections_' = [connections_ EXCEPT ![n] = NULL]
      BY Zenon DEF runFunctor, removeConnectionInLoop
    <2> QED
      BY <2>1, <2>2, <2>3, <2>4, Zenon DEF Next, LoopStep, User
  <1> QED
    BY <1>0, <1>1

(* The user thread holds a connection that was made. *)
LEMMA UserStep ==
  ASSUME TypeOK, PointerInv, Next
  PROVE  /\ user'.holds # NULL => user'.holds \in Used
         /\ user'.sending => user'.holds # NULL
PROOF
  <1>0. /\ user.holds # NULL => user.holds \in Used
        /\ user.sending => user.holds # NULL
        /\ user \in [holds : Conns \cup {NULL}, sending : BOOLEAN]
    BY Zenon DEF PointerInv, TypeOK
  <1>1. \/ user' = user
        \/ user' = [user EXCEPT !.sending = FALSE]
        \/ user' = [user EXCEPT !.holds = NULL] /\ ~user.sending
        \/ \E c \in Conns : user' = [holds |-> c, sending |-> TRUE] /\ state_[c] = "kConnected"
    <2>1. start \/ startElsewhere \/ emfile \/ join \/ world \/ accept \/ destructor
          \/ (\E c \in Conns : handleClose(c)) \/ (\E l \in Loops : LoopStep(l))
          => user' = user
      BY Zenon DEF start, startElsewhere, emfile, join, world, accept, destructor, handleClose,
         LoopStep, doPendingFunctors, runFunctor, iterationEnds, userVars
    <2>2. User => \/ user' = [user EXCEPT !.sending = FALSE]
                  \/ user' = [user EXCEPT !.holds = NULL] /\ ~user.sending
                  \/ \E c \in Conns : user' = [holds |-> c, sending |-> TRUE]
                                      /\ state_[c] = "kConnected"
      BY Zenon DEF User, sendTests, sendQueues, userDrops
    <2> QED
      BY <2>1, <2>2, Zenon DEF Next
  <1>2. CASE user' = user
    BY <1>0, <1>2
  <1>3. CASE user' = [user EXCEPT !.sending = FALSE]
    <2>1. user'.holds = user.holds /\ user'.sending = FALSE
      BY <1>0, <1>3
    <2> QED
      BY <1>0, <2>1
  <1>4. CASE user' = [user EXCEPT !.holds = NULL] /\ ~user.sending
    <2>1. user'.holds = NULL /\ user'.sending = user.sending
      BY <1>0, <1>4
    <2> QED
      BY <1>4, <2>1
  <1>5. ASSUME NEW c \in Conns, user' = [holds |-> c, sending |-> TRUE], state_[c] = "kConnected"
        PROVE  user'.holds \in Used /\ user'.holds # NULL
    <2>1. user'.holds = c
      BY <1>5
    <2>2. c \in Used /\ c # NULL
      BY <1>5 DEF Used, NULL, Conns
    <2> QED
      BY <2>1, <2>2
  <1> QED
    BY <1>1, <1>2, <1>3, <1>4, <1>5

(* Every pointer stays good. *)
LEMMA PointerStep ==
  ASSUME TypeOK, TypeOK', CountInv, PointerInv, PoolInv, PhaseInv, Next
  PROVE  PointerInv'
PROOF
  <1>0. \A i \in Ids : connections_[i] # NULL =>
          connections_[i] \in Used /\ id_[connections_[i]] = i
    BY Zenon DEF PointerInv
  <1>1. /\ user'.holds # NULL => user'.holds \in Used
        /\ user'.sending => user'.holds # NULL
    BY UserStep, Zenon
  <1>2. ASSUME Used' = Used, id_' = id_, Keeps(Used),
               \A i \in Ids : connections_'[i] = connections_[i] \/ connections_'[i] = NULL
        PROVE  PointerInv'
    <2>1. \A i \in Ids : connections_'[i] # NULL =>
            connections_'[i] \in Used' /\ id_'[connections_'[i]] = i
      BY <1>0, <1>2, Zenon
    <2>2. \A l \in Loops : \A i \in DOMAIN queue(l)' : queue(l)'[i][2] \in Used'
      BY <1>2, PointersKept
    <2>3. user'.holds # NULL => user'.holds \in Used'
      BY <1>1, <1>2, Zenon
    <2> QED
      BY <1>1, <2>1, <2>2, <2>3, Zenon DEF PointerInv
  <1>3. CASE ~accept
    <2>1. Used' = Used /\ id_' = id_ /\ Keeps(Used)
      BY <1>3, UsedStep, StepKeeps, Zenon
    <2> QED
      BY <1>2, <1>3, <2>1, MapStep, Zenon
  <1>4. CASE accept /\ Quiet
    <2>1. \A l \in Loops : Goes(l, {})
      BY <1>4, GoesOn DEF Quiet, Same
    <2>2. Keeps(Used)
      BY <2>1 DEF Keeps
    <2>3. Used' = Used /\ id_' = id_ /\ connections_' = connections_
      BY <1>4, Zenon DEF Quiet, Used
    <2> QED
      BY <1>2, <2>2, <2>3, Zenon
  <1>5. CASE accept /\ ~Quiet
    <2>1. PICK c \in Conns, io \in Loops : Accepted(c, io)
      BY <1>5, AcceptKind, Zenon
    <2>2. Used' = Used \cup {c} /\ c \notin Used
      BY <2>1, AcceptedUsed, Zenon
    <2>3. /\ connections_' = [connections_ EXCEPT ![nextConnId_] = c]
          /\ id_' = [id_ EXCEPT ![c] = nextConnId_]
      BY <2>1, Zenon DEF Accepted
    <2>4. \A i \in Ids : connections_'[i] # NULL =>
            connections_'[i] \in Used' /\ id_'[connections_'[i]] = i
      <3> SUFFICES ASSUME NEW i \in Ids, connections_'[i] # NULL
                   PROVE  connections_'[i] \in Used' /\ id_'[connections_'[i]] = i
        OBVIOUS
      <3>1. CASE i = nextConnId_
        <4>1. connections_'[i] = c /\ id_'[c] = i
          BY <2>3, <3>1 DEF TypeOK
        <4> QED
          BY <2>2, <4>1
      <3>2. CASE i # nextConnId_
        <4>1. connections_'[i] = connections_[i]
          BY <2>3, <3>2 DEF TypeOK
        <4>2. connections_[i] \in Used /\ id_[connections_[i]] = i
          BY <1>0, <4>1, Zenon
        <4>3. id_'[connections_[i]] = i
          BY <2>2, <2>3, <4>2 DEF TypeOK, Used
        <4> QED
          BY <2>2, <4>1, <4>2, <4>3
      <3> QED
        BY <3>1, <3>2
    <2>5. PICK f : f = <<"connectEstablished", c>>
      OBVIOUS
    <2>6. \A l \in Loops : Goes(l, {}) \/ Goes(l, {f})
      BY <2>1, <2>5, GoesOn, Zenon DEF Accepted
    <2>7. f[2] \in Used'
      BY <2>2, <2>5
    <2>8. PICK made : made = Used'
      OBVIOUS
    <2>9. Keeps(made)
      BY <2>6, <2>7, <2>8 DEF Keeps
    <2>10. \A l \in Loops : \A i \in DOMAIN queue(l)' : queue(l)'[i][2] \in Used'
      BY <2>2, <2>8, <2>9, PointersKept
    <2>11. user'.holds # NULL => user'.holds \in Used'
      BY <1>1, <2>2
    <2> QED
      BY <1>1, <2>4, <2>10, <2>11, Zenon DEF PointerInv
  <1> QED
    BY <1>3, <1>4, <1>5

--------------------------------------------------------------------------------
(* The loops of the pool *)

(* A loop has finitely many connections. *)
LEMMA LoadIsNat == \A l : load(l) \in Nat
PROOF
  <1> SUFFICES ASSUME NEW l PROVE load(l) \in Nat
    OBVIOUS
  <1>1. IsFiniteSet(Conns) /\ {c \in Conns : state_[c] # "none" /\ loop_[c] = l} \subseteq Conns
    BY serverAssumption, FS_Interval DEF Conns
  <1> QED
    BY <1>1, FS_Subset, FS_CardinalityType DEF load

(* The loop of the connection accepted has one more, the others as many. *)
LEMMA LoadAccepted ==
  ASSUME TypeOK, NEW c \in Conns, NEW io \in Loops, Accepted(c, io), NEW l \in Loops
  PROVE  load(l)' = IF l = io THEN load(l) + 1 ELSE load(l)
PROOF
  <1> DEFINE S == {d \in Conns : state_[d] # "none" /\ loop_[d] = l}
  <1>1. /\ c \notin Used
        /\ loop_' = [loop_ EXCEPT ![c] = io]
        /\ state_' = [state_ EXCEPT ![c] = IF io = 0 THEN "kConnected" ELSE "kConnecting"]
    BY Zenon DEF Accepted
  <1>2. state_'[c] # "none" /\ loop_'[c] = io /\ state_[c] = "none"
    BY <1>1 DEF TypeOK, Used
  <1>3. \A d \in Conns \ {c} : state_'[d] = state_[d] /\ loop_'[d] = loop_[d]
    BY <1>1 DEF TypeOK
  <1>4. IsFiniteSet(S)
    <2>1. IsFiniteSet(Conns) /\ S \subseteq Conns
      BY serverAssumption, FS_Interval DEF Conns
    <2> QED
      BY <2>1, FS_Subset
  <1>5. CASE l = io
    <2>1. S' = S \cup {c} /\ c \notin S
      BY <1>2, <1>3, <1>5
    <2>2. Cardinality(S \cup {c}) = Cardinality(S) + 1
      BY <1>4, <2>1, FS_AddElement
    <2> QED
      BY <1>5, <2>1, <2>2 DEF load
  <1>6. CASE l # io
    <2>1. S' = S
      BY <1>2, <1>3, <1>6
    <2> QED
      BY <1>6, <2>1 DEF load
  <1> QED
    BY <1>5, <1>6

(* Who turns listenning_ on starts the pool. *)
LEMMA StartedStep ==
  ASSUME TypeOK, Next
  PROVE  started_' \/ (~started_ /\ (listenning_' => listenning_))
PROOF
  <1>1. start \/ startElsewhere => started_'
    BY Zenon DEF start, startElsewhere
  <1>2. emfile \/ world \/ join \/ destructor \/ accept => started_' = started_
    BY Zenon DEF emfile, world, join, destructor, accept, poolVars
  <1>3. (\E c \in Conns : handleClose(c)) \/ (\E l \in Loops : LoopStep(l)) \/ User
        => started_' = started_ /\ listenning_' = listenning_
    BY Zenon DEF handleClose, LoopStep, User, doPendingFunctors, runFunctor, iterationEnds,
       sendTests, sendQueues, userDrops, poolVars, acceptorVars
  <1>4. emfile \/ world \/ join \/ accept => listenning_' = listenning_
    BY Zenon DEF emfile, world, join, accept, acceptorVars, handleRead, emfileAccept, emfileClose,
       emfileOpen, clientConnects, otherOpens, otherCloses
  <1>5. destructor => listenning_' = FALSE
    BY Zenon DEF destructor, destroyAcceptor
  <1>6. /\ listenning_ \in BOOLEAN /\ started_ \in BOOLEAN
    BY Zenon DEF TypeOK, AcceptorTypeOK
  <1>7. \/ started_'
        \/ started_' = started_ /\ (listenning_' = listenning_ \/ listenning_' = FALSE)
    BY <1>1, <1>2, <1>3, <1>4, <1>5, Zenon DEF Next
  <1> QED
    BY <1>6, <1>7

(* The loops get connections in turn. *)
LEMMA PoolStep ==
  ASSUME TypeOK, TypeOK', CountInv, PointerInv, PoolInv, Next
  PROVE  PoolInv'
PROOF
  <1>0. /\ numThreads_ \in ThreadNums /\ numThreads_ \in Nat /\ next_ \in Nat
        /\ 1 .. numThreads_ \subseteq Loops
    BY LoopsRange DEF PoolInv, TypeOK
  <1>1. /\ IF numThreads_ = 0 THEN next_ = 0 ELSE next_ < numThreads_
        /\ ~started_ => ~listenning_ /\ Used = {} /\ next_ = 0
        /\ \A c \in Used : loop_[c] = 0 <=> numThreads_ = 0
        /\ \A k, l \in 1 .. numThreads_ : load(k) - extra(k) = load(l) - extra(l)
    BY Zenon DEF PoolInv
  <1>2. numThreads_' = numThreads_
    BY Constant, Zenon
  <1>3. ASSUME Used' = Used, loop_' = loop_, next_' = next_
        PROVE  PoolInv'
    <2>1. \A l : load(l)' = load(l)
      <3>1. \A l : load(l) = Cardinality({c \in Used : loop_[c] = l})
        <4>1. \A l : {c \in Conns : state_[c] # "none" /\ loop_[c] = l} = {c \in Used : loop_[c] = l}
          BY DEF Used
        <4> QED
          BY <4>1, Zenon DEF load
      <3>2. \A l : load(l)' = Cardinality({c \in Used' : loop_'[c] = l})
        <4>1. \A l : {c \in Conns : state_'[c] # "none" /\ loop_'[c] = l} = {c \in Used' : loop_'[c] = l}
          BY DEF Used
        <4> QED
          BY <4>1, Zenon DEF load
      <3> QED
        BY <1>3, <3>1, <3>2
    <2>2. \A l : extra(l)' = extra(l)
      BY <1>3 DEF extra
    <2>3. \A k, l \in 1 .. numThreads_' : load(k)' - extra(k)' = load(l)' - extra(l)'
      BY <1>1, <1>2, <2>1, <2>2, Zenon
    <2>4. ~started_' => ~listenning_' /\ Used' = {} /\ next_' = 0
      BY <1>1, <1>3, StartedStep
    <2> QED
      BY <1>0, <1>1, <1>2, <1>3, <2>3, <2>4, Zenon DEF PoolInv
  <1>4. CASE ~accept
    BY <1>3, <1>4, UsedStep, Zenon
  <1>5. CASE accept
    <2>1. CASE Quiet /\ UNCHANGED next_
      <3>1. Used' = Used /\ loop_' = loop_
        BY <2>1, Zenon DEF Quiet, Used
      <3> QED
        BY <1>3, <2>1, <3>1, Zenon
    <2>2. CASE ~(Quiet /\ UNCHANGED next_)
      <3>1. PICK c \in Conns, io \in Loops :
              Accepted(c, io) /\ io = getNextLoop /\ next_' = nextAfter /\ started_
        BY <1>5, <2>2, AcceptKind, Zenon
      <3>2. loops_ = 1 .. numThreads_ /\ started_' = started_
        BY <1>5, <3>1, Zenon DEF loops_, accept
      <3>3. \A l \in Loops : /\ load(l) \in Nat
                             /\ load(l)' = IF l = io THEN load(l) + 1 ELSE load(l)
        BY <3>1, LoadIsNat, LoadAccepted
      <3>4. /\ numThreads_ = 0 => io = 0 /\ next_' = next_
            /\ numThreads_ # 0 => /\ io = next_ + 1
                                  /\ next_' = IF next_ + 1 >= numThreads_ THEN 0 ELSE next_ + 1
        <4>1. loops_ = {} <=> numThreads_ = 0
          BY <1>0, <3>2
        <4> QED
          BY <3>1, <4>1, Zenon DEF getNextLoop, nextAfter
      <3>5. IF numThreads_' = 0 THEN next_' = 0 ELSE next_' < numThreads_'
        BY <1>0, <1>1, <1>2, <3>4
      <3>6. \A d \in Used' : loop_'[d] = 0 <=> numThreads_' = 0
        <4>1. Used' = Used \cup {c} /\ c \notin Used
          BY <3>1, AcceptedUsed, Zenon
        <4>2. loop_' = [loop_ EXCEPT ![c] = io]
          BY <3>1, Zenon DEF Accepted
        <4>3. \A d \in Used : loop_'[d] = loop_[d]
          BY <4>1, <4>2 DEF TypeOK, Used
        <4>4. loop_'[c] = io
          BY <4>2 DEF TypeOK
        <4>5. io = 0 <=> numThreads_ = 0
          BY <1>0, <3>4
        <4> QED
          BY <1>1, <1>2, <4>1, <4>3, <4>4, <4>5
      <3>7. ASSUME NEW k \in 1 .. numThreads_', NEW l \in 1 .. numThreads_'
            PROVE  load(k)' - extra(k)' = load(l)' - extra(l)'
        <4>1. k \in Nat /\ l \in Nat /\ k \in Loops /\ l \in Loops /\ k <= numThreads_ /\ l <= numThreads_
              /\ k >= 1 /\ l >= 1 /\ numThreads_ # 0
          BY <1>0, <1>2
        <4>2. /\ extra(k) = (IF k <= next_ THEN 1 ELSE 0) /\ extra(l) = (IF l <= next_ THEN 1 ELSE 0)
              /\ extra(k)' = (IF k <= next_' THEN 1 ELSE 0) /\ extra(l)' = (IF l <= next_' THEN 1 ELSE 0)
          BY Zenon DEF extra
        <4>3. load(k) - extra(k) = load(l) - extra(l)
          BY <1>1, <1>2, Zenon
        <4>4. next_ < numThreads_ /\ io = next_ + 1
              /\ next_' = IF next_ + 1 >= numThreads_ THEN 0 ELSE next_ + 1
          BY <1>1, <3>4, <4>1
        <4>5. /\ load(k) \in Nat /\ load(k)' = IF k = io THEN load(k) + 1 ELSE load(k)
              /\ load(l) \in Nat /\ load(l)' = IF l = io THEN load(l) + 1 ELSE load(l)
          BY <3>3, <4>1, Zenon
        <4> QED
          BY <1>0, <4>1, <4>2, <4>3, <4>4, <4>5
      <3> QED
        BY <1>0, <1>2, <3>1, <3>2, <3>5, <3>6, <3>7 DEF PoolInv
    <2> QED
      BY <2>1, <2>2
  <1> QED
    BY <1>4, <1>5

(* The phases of the loops and of the server *)
LEMMA PhaseStep ==
  ASSUME TypeOK, TypeOK', PointerInv, PhaseInv, Next
  PROVE  PhaseInv'
PROOF
  <1> DEFINE Batches == \A l \in Loops : pc[l] # "functors" => batch[l] = <<>>
             Quits == \A l \in Loops : quit_[l] \/ pc[l] = "ended" => server # "up"
             Map == server # "up" => \A i \in Ids : connections_[i] = NULL
             Off == ~started_ => \A l \in Loops \ {0} : pc[l] = "off"
  <1>0. /\ Batches /\ Quits /\ Map /\ Off /\ 0 \in Loops
        /\ Batches' /\ Quits' /\ Map' /\ Off' => PhaseInv'
    BY LoopsRange, Zenon DEF PhaseInv
  <1>1. ASSUME started_' = started_, pc' = pc
        PROVE  Off'
    <2>1. started_' \/ ~started_
      BY <1>1
    <2> QED
      BY <1>0, <1>1, <2>1, Zenon
  <1>2. ASSUME server' = server, NEW n, connections_' = [connections_ EXCEPT ![n] = NULL]
        PROVE  Map'
    <2>1. \A i \in Ids : connections_'[i] = connections_[i] \/ connections_'[i] = NULL
      BY <1>2 DEF TypeOK
    <2> QED
      BY <1>0, <1>2, <2>1, Zenon
  <1>3. ASSUME server' = server, connections_' = connections_
        PROVE  Map'
    BY <1>0, <1>3, Zenon
  <1>4. CASE start
    <2>1. /\ server = "up" /\ server' = "up" /\ ~started_ /\ started_' /\ quit_' = quit_
          /\ batch' = batch
          /\ pc' = [l \in Loops |-> IF l \in 1 .. numThreads_ THEN "poll" ELSE pc[l]]
      BY <1>4, Zenon DEF start
    <2>2. 0 \notin 1 .. numThreads_
      OBVIOUS
    <2>3. pc'[0] = pc[0] /\ \A l \in Loops : pc'[l] = pc[l] \/ (pc'[l] = "poll" /\ l # 0)
      BY <1>0, <2>1, <2>2
    <2>4. \A l \in Loops \ {0} : batch[l] = <<>>
      BY <1>0, <2>1
    <2>5. Batches'
      BY <1>0, <2>1, <2>3, <2>4
    <2>6. Quits'
      BY <1>0, <2>1, <2>3
    <2> QED
      BY <1>0, <2>1, <2>5, <2>6, Zenon
  <1>5. CASE startElsewhere
    <2>1. UNCHANGED <<pc, quit_, batch>> /\ server' = server /\ started_' /\ connections_' = connections_
      BY <1>5, Zenon DEF startElsewhere, loopVars, connVars
    <2> QED
      BY <1>0, <2>1, Zenon
  <1>6. CASE accept
    <2>1. UNCHANGED <<pc, quit_, batch>> /\ server = "up" /\ server' = server /\ started_' = started_
      BY <1>6, Zenon DEF accept
    <2>2. Off'
      BY <1>1, <2>1
    <2> QED
      BY <1>0, <2>1, <2>2, Zenon
  <1>7. CASE destructor
    <2>1. /\ UNCHANGED <<pc, quit_, batch>> /\ started_' = started_
          /\ connections_' = [i \in Ids |-> NULL]
      BY <1>7, Zenon DEF destructor, poolVars
    <2>2. server' # "up"
      BY <1>7, DestructorKind, Zenon DEF Told
    <2>3. Off'
      BY <1>1, <2>1
    <2>4. Map'
      BY <2>1
    <2>5. Batches' /\ Quits'
      BY <1>0, <2>1, <2>2, Zenon
    <2> QED
      BY <1>0, <2>3, <2>4, <2>5, Zenon
  <1>8. CASE join
    <2>1. /\ pc' = pc /\ batch' = batch /\ server = "joining" /\ server' # "up"
          /\ started_' = started_ /\ connections_' = connections_
      <3>1. server' = "gone" \/ server' = server
        BY <1>8, Zenon DEF join
      <3> QED
        BY <1>8, <3>1, Zenon DEF join, poolVars, connVars
    <2>2. Off'
      BY <1>1, <2>1
    <2>3. Batches' /\ Quits' /\ Map'
      BY <1>0, <2>1
    <2> QED
      BY <1>0, <2>2, <2>3, Zenon
  <1>9. ASSUME NEW l \in Loops, doPendingFunctors(l)
        PROVE  PhaseInv'
    <2>1. /\ pc[l] = "poll" /\ pc' = [pc EXCEPT ![l] = "functors"]
          /\ batch' = [batch EXCEPT ![l] = pending[l]]
          /\ quit_' = quit_ /\ server' = server /\ connections_' = connections_ /\ started_' = started_
      BY <1>9, Zenon DEF doPendingFunctors, connVars, poolVars
    <2>2. /\ pc'[l] = "functors"
          /\ \A m \in Loops \ {l} : pc'[m] = pc[m] /\ batch'[m] = batch[m]
      BY <2>1 DEF TypeOK
    <2>3. Batches' /\ Quits'
      BY <1>0, <2>1, <2>2
    <2>4. Off'
      <3>1. CASE started_
        BY <2>1, <3>1
      <3>2. CASE ~started_
        <4>1. l = 0
          BY <1>0, <2>1, <3>2
        <4> QED
          BY <1>0, <2>2, <3>2, <4>1
      <3> QED
        BY <3>1, <3>2
    <2> QED
      BY <1>0, <2>1, <2>3, <2>4, Zenon
  <1>10. ASSUME NEW l \in Loops, iterationEnds(l)
         PROVE  PhaseInv'
    <2>1. /\ pc[l] = "functors" /\ batch[l] = <<>> /\ batch' = batch
          /\ quit_' = quit_ /\ server' = server /\ connections_' = connections_ /\ started_' = started_
      BY <1>10, Zenon DEF iterationEnds, connVars, poolVars
    <2>2. \/ pc' = [pc EXCEPT ![l] = "poll"]
          \/ server # "up" /\ pc' = [pc EXCEPT ![l] = "ended"]
      BY <1>10, IterationKind, Zenon DEF Ended
    <2>3. /\ pc'[l] = "poll" \/ (server # "up" /\ pc'[l] = "ended")
          /\ \A m \in Loops \ {l} : pc'[m] = pc[m]
      BY <2>2 DEF TypeOK
    <2>4. Batches' /\ Quits'
      BY <1>0, <2>1, <2>3
    <2>5. Off'
      <3>1. CASE started_
        BY <2>1, <3>1
      <3>2. CASE ~started_
        <4>1. l = 0
          BY <1>0, <2>1, <3>2
        <4> QED
          BY <1>0, <2>3, <3>2, <4>1
      <3> QED
        BY <3>1, <3>2
    <2> QED
      BY <1>0, <2>1, <2>4, <2>5, Zenon
  <1>11. ASSUME NEW l \in Loops, runFunctor(l)
         PROVE  PhaseInv'
    <2>1. /\ pc[l] = "functors" /\ batch' = [batch EXCEPT ![l] = Tail(@)] /\ pc' = pc
          /\ quit_' = quit_ /\ server' = server /\ started_' = started_
      BY <1>11, Zenon DEF runFunctor, poolVars
    <2>2. \A m \in Loops \ {l} : batch'[m] = batch[m]
      BY <2>1 DEF TypeOK
    <2>3. Batches' /\ Quits'
      BY <1>0, <2>1, <2>2, Zenon
    <2>4. Off'
      BY <1>1, <2>1
    <2>5. Map'
      <3>1. \/ connections_' = connections_
            \/ \E n : connections_' = [connections_ EXCEPT ![n] = NULL]
        BY <1>11, Zenon DEF runFunctor, removeConnectionInLoop
      <3> QED
        BY <1>2, <1>3, <2>1, <3>1, Zenon
    <2> QED
      BY <1>0, <2>3, <2>4, <2>5, Zenon
  <1>12. ASSUME NEW c \in Conns, handleClose(c)
         PROVE  PhaseInv'
    <2>1. UNCHANGED <<pc, quit_, batch>> /\ server' = server /\ started_' = started_
      BY <1>12, Zenon DEF handleClose, poolVars
    <2>2. Off'
      BY <1>1, <2>1
    <2>3. Map'
      <3>1. \/ connections_' = connections_
            \/ \E n : connections_' = [connections_ EXCEPT ![n] = NULL]
        BY <1>12, Zenon DEF handleClose, removeConnectionInLoop
      <3> QED
        BY <1>2, <1>3, <2>1, <3>1, Zenon
    <2> QED
      BY <1>0, <2>1, <2>2, <2>3, Zenon
  <1>13. CASE emfile \/ world \/ User
    <2>1. UNCHANGED <<pc, quit_, batch>> /\ server' = server /\ started_' = started_
          /\ connections_' = connections_
      BY <1>13, Zenon DEF emfile, world, User, sendTests, sendQueues, userDrops, loopVars, connVars, poolVars
    <2>2. Off'
      BY <1>1, <2>1
    <2> QED
      BY <1>0, <2>1, <2>2, Zenon
  <1> QED
    BY <1>4, <1>5, <1>6, <1>7, <1>8, <1>9, <1>10, <1>11, <1>12, <1>13, Zenon DEF Next, LoopStep

(* What is in a concatenation is in one of its parts. *)
LEMMA ConcatParts ==
  ASSUME NEW S, NEW b \in Seq(S), NEW p \in Seq(S), NEW j \in DOMAIN (b \o p)
  PROVE  \/ \E i \in DOMAIN b : b[i] = (b \o p)[j]
         \/ \E i \in DOMAIN p : p[i] = (b \o p)[j]
PROOF
  <1>1. CASE j <= Len(b)
    <2>1. j \in DOMAIN b /\ b[j] = (b \o p)[j]
      BY <1>1
    <2> QED
      BY <2>1
  <1>2. CASE ~(j <= Len(b))
    <2>1. j - Len(b) \in DOMAIN p /\ p[j - Len(b)] = (b \o p)[j]
      BY <1>2
    <2> QED
      BY <2>1
  <1> QED
    BY <1>1, <1>2

--------------------------------------------------------------------------------
(* What ends the process *)

(* Every step needs a process that runs. *)
LEMMA StepRuns == Next => failed = "no"
PROOF
  <1>1. start \/ startElsewhere \/ accept \/ emfile \/ destructor \/ join \/ world => failed = "no"
    BY Zenon DEF start, startElsewhere, accept, emfile, destructor, join, world, inBaseLoop, running
  <1>2. (\E c \in Conns : handleClose(c)) \/ (\E l \in Loops : LoopStep(l)) => failed = "no"
    BY Zenon DEF handleClose, LoopStep, doPendingFunctors, runFunctor, iterationEnds, free, running
  <1>3. User => failed = "no"
    BY Zenon DEF User, sendTests, sendQueues, userDrops, running
  <1> QED
    BY <1>1, <1>2, <1>3, Zenon DEF Next

(* removeConnectionInLoop() in the base loop *)
LEMMA RemoveFails ==
  ASSUME TypeOK, NEW c \in Conns, removeConnectionInLoop(c), free(0), server' = server,
         server = "up" => connections_[id_[c]] = c,
         server = "gone" => numThreads_ > 0, numThreads_' = numThreads_
  PROVE  \/ failed' = "no"
         \/ failed' = "server" /\ server' # "up" /\ numThreads_' > 0
PROOF
  <1>1. failed' = CASE server = "gone" -> "server"
                    [] server # "gone" /\ connections_[id_[c]] = NULL -> "erase"
                    [] server # "gone" /\ connections_[id_[c]] # NULL -> "no"
    BY Zenon DEF removeConnectionInLoop
  <1>2. server \in {"up", "joining", "gone"} /\ server # "joining"
    BY DEF TypeOK, free
  <1>3. CASE server = "gone"
    BY <1>1, <1>3
  <1>4. CASE server = "up"
    <2>1. connections_[id_[c]] # NULL
      BY <1>4 DEF NULL, Conns
    <2> QED
      BY <1>1, <1>4, <2>1
  <1> QED
    BY <1>2, <1>3, <1>4

(* A functor is run. *)
LEMMA RunFails ==
  ASSUME TypeOK, PointerInv, PoolInv, LifeInv, failed = "no", NEW l \in Loops, runFunctor(l),
         numThreads_' = numThreads_
  PROVE  \/ failed' = "no"
         \/ failed' = "server" /\ server' # "up" /\ numThreads_' > 0
         \/ failed' = "send" /\ (late' \/ server' # "up")
PROOF
  <1>0. /\ batch[l] # <<>> /\ server' = server /\ late' = late /\ free(l)
        /\ EstablishedInv /\ RemoveInv /\ SendInv
    BY Zenon DEF runFunctor, userVars, LifeInv
  <1>1. PICK fn, c : /\ c \in Conns /\ <<fn, c>> \in Functors
                     /\ fn = Head(batch[l])[1] /\ c = Head(batch[l])[2]
                     /\ 1 \in DOMAIN queue(l) /\ queue(l)[1] = <<fn, c>>
    BY <1>0, HeadOfBatch, Zenon
  <1>2. \/ /\ fn = "connectEstablished"
           /\ failed' = IF state_[c] = "kConnecting" THEN "no" ELSE "established"
        \/ fn = "connectDestroyed" /\ failed' = failed
        \/ fn = "removeConnectionInLoop" /\ removeConnectionInLoop(c)
        \/ /\ fn = "sendInLoop"
           /\ failed' = IF referenced(c) THEN "no" ELSE "send"
           /\ batch' = [batch EXCEPT ![l] = Tail(@)]
    BY <1>1, Zenon DEF runFunctor
  <1>3. CASE fn = "connectEstablished"
    <2>0. queue(l)[1] = <<"connectEstablished", c>>
      BY <1>1, <1>3
    <2>1. state_[c] = "kConnecting"
      BY <1>0, <1>1, <2>0, Zenon DEF EstablishedInv
    <2> QED
      BY <1>2, <1>3, <2>1
  <1>4. CASE fn = "removeConnectionInLoop"
    <2>0. queue(l)[1] = <<"removeConnectionInLoop", c>>
      BY <1>1, <1>4
    <2>1. /\ l = 0 /\ loop_[c] # 0 /\ state_[c] = "kDisconnected"
          /\ server = "up" => connections_[id_[c]] = c
      BY <1>0, <1>1, <2>0, Zenon DEF RemoveInv
    <2>2. numThreads_ > 0
      <3>1. c \in Used
        BY <1>1, <2>1 DEF Used
      <3>2. numThreads_ # 0
        BY <2>1, <3>1, Zenon DEF PoolInv
      <3>3. numThreads_ \in Nat
        BY LoopsRange DEF PoolInv
      <3> QED
        BY <3>2, <3>3
    <2>3. removeConnectionInLoop(c)
      BY <1>2, <1>4
    <2> QED
      BY <1>0, <1>1, <2>1, <2>2, <2>3, RemoveFails, Zenon
  <1>5. CASE fn = "sendInLoop"
    <2>0. queue(l)[1] = <<"sendInLoop", c>>
      BY <1>1, <1>5
    <2>1. failed' = IF referenced(c) THEN "no" ELSE "send"
      BY <1>2, <1>5
    <2>2. ASSUME ~late, server = "up"
          PROVE  referenced(c)
      <3>1. \/ connections_[id_[c]] = c
            \/ \E j \in DOMAIN queue(l) : queue(l)[j] = <<"connectDestroyed", c>>
        BY <1>0, <1>1, <2>0, <2>2, Zenon DEF SendInv
      <3>2. CASE connections_[id_[c]] = c
        <4>1. id_[c] \in Ids
          BY <1>1 DEF TypeOK
        <4> QED
          BY <3>2, <4>1, Zenon DEF referenced
      <3>3. ASSUME NEW j \in DOMAIN queue(l), queue(l)[j] = <<"connectDestroyed", c>>
            PROVE  referenced(c)
        <4>1. batch[l] \in Seq(Functors) /\ pending[l] \in Seq(Functors)
          BY QueueType
        <4>2. \/ \E i \in DOMAIN batch[l] : batch[l][i] = queue(l)[j]
              \/ \E i \in DOMAIN pending[l] : pending[l][i] = queue(l)[j]
          <5>1. PICK b, p : b = batch[l] /\ p = pending[l]
            OBVIOUS
          <5>2. b \in Seq(Functors) /\ p \in Seq(Functors) /\ queue(l) = b \o p /\ j \in DOMAIN (b \o p)
            BY <4>1, <5>1 DEF queue
          <5>3. \/ \E i \in DOMAIN b : b[i] = (b \o p)[j]
                \/ \E i \in DOMAIN p : p[i] = (b \o p)[j]
            BY <5>2, ConcatParts
          <5> QED
            BY <5>1, <5>2, <5>3, Zenon
        <4>3. PICK f : f = <<"connectDestroyed", c>>
          OBVIOUS
        <4>4. f \in ToSet(pending[l]) \cup ToSet(batch[l])
          BY <3>3, <4>2, <4>3 DEF ToSet
        <4>5. f[2] = c /\ f[1] # "sendInLoop"
          BY <4>3
        <4> QED
          BY <4>4, <4>5, Zenon DEF referenced
      <3> QED
        BY <3>1, <3>2, <3>3
    <2> QED
      BY <1>0, <2>1, <2>2, Zenon
  <1>6. CASE fn = "connectDestroyed"
    BY <1>2, <1>6
  <1> QED
    BY <1>2, <1>3, <1>4, <1>5, <1>6

(* A step ends the process only as FailedInv says. *)
LEMMA FailedStep ==
  ASSUME TypeOK, TypeOK', CountInv, PointerInv, PoolInv, PhaseInv, ~reused => LifeInv, Next
  PROVE  FailedInv'
PROOF
  <1>0. failed = "no" /\ numThreads_' = numThreads_ /\ (reused => reused')
    BY StepRuns, Constant, Zenon
  <1>1. failed' \in {"no", "start", "accept"} => FailedInv'
    BY DEF FailedInv
  <1>2. CASE reused'
    BY <1>2, Zenon DEF FailedInv
  <1>3. CASE ~reused'
    <2>0. LifeInv /\ OpenInv
      BY <1>0, <1>3, Zenon DEF LifeInv
    <2>1. failed' = "server" /\ server' # "up" /\ numThreads_' > 0 => FailedInv'
      BY DEF FailedInv
    <2>2. failed' = "send" /\ (late' \/ server' # "up") => FailedInv'
      BY DEF FailedInv
    <2>3. failed' = "loop" /\ server' # "up" => FailedInv'
      BY DEF FailedInv
    <2>4. ASSUME NEW c \in Conns, handleClose(c)
          PROVE  FailedInv'
      <3>1. /\ state_[c] = "kConnected" /\ server' = server
            /\ \/ loop_[c] = 0 /\ removeConnectionInLoop(c) /\ free(loop_[c])
               \/ failed' = failed
        BY <2>4, Zenon DEF handleClose
      <3>2. c \in Used /\ Open(c)
        BY <3>1 DEF Used, Open
      <3>3. IF server = "up" THEN connections_[id_[c]] = c ELSE numThreads_ > 0
        BY <2>0, <3>2, Zenon DEF OpenInv
      <3>4. CASE loop_[c] = 0 /\ removeConnectionInLoop(c) /\ free(loop_[c])
        <4>1. free(0)
          BY <3>4
        <4>2. server = "gone" => numThreads_ > 0
          BY <3>3
        <4> QED
          BY <1>0, <1>1, <2>1, <3>1, <3>3, <3>4, <4>1, <4>2, RemoveFails
      <3>5. CASE failed' = failed
        BY <1>0, <1>1, <3>5
      <3> QED
        BY <3>1, <3>4, <3>5
    <2>5. ASSUME NEW l \in Loops, runFunctor(l)
          PROVE  FailedInv'
      BY <1>0, <1>1, <2>0, <2>1, <2>2, <2>5, RunFails
    <2>6. ASSUME sendQueues
          PROVE  FailedInv'
      <3>1. PICK c \in Conns : c = user.holds
        BY <2>6, SendKind, Zenon
      <3>2. /\ failed' = IF pc[loop_[c]] = "ended" THEN "loop" ELSE "no"
            /\ server' = server
        BY <2>6, <3>1, Zenon DEF sendQueues
      <3>3. loop_[c] \in Loops
        BY DEF TypeOK
      <3>4. pc[loop_[c]] = "ended" => server # "up"
        BY <3>3, Zenon DEF PhaseInv
      <3> QED
        BY <1>1, <2>3, <3>2, <3>4
    <2>7. start \/ emfile \/ destructor \/ join \/ world \/ userDrops
          \/ (\E c \in Conns : sendTests(c))
          \/ (\E l \in Loops : doPendingFunctors(l) \/ iterationEnds(l)) => failed' = failed
      BY Zenon DEF start, emfile, destructor, join, world, userDrops, sendTests,
         doPendingFunctors, iterationEnds
    <2>8. accept \/ startElsewhere => failed' \in {"no", "start", "accept"}
      BY Zenon DEF accept, startElsewhere
    <2>9. failed' = failed => FailedInv'
      BY <1>0, <1>1
    <2> QED
      BY <1>1, <2>4, <2>5, <2>6, <2>7, <2>8, <2>9, Zenon DEF Next, LoopStep, User
  <1> QED
    BY <1>2, <1>3

--------------------------------------------------------------------------------
(* The invariant *)

(* The constructors establish the invariant, *)
LEMMA InvInit == Init => Inv
PROOF
  <1> SUFFICES ASSUME Init PROVE Inv
    OBVIOUS
  <1>1. TypeOK
    BY TypeInit
  <1>2. /\ backlog = 0 /\ arrived = 0 /\ accepting = "no" /\ ~listenning_ /\ server = "up"
        /\ numThreads_ \in ThreadNums /\ next_ = 0
        /\ connections_ = [i \in Ids |-> NULL] /\ state_ = [c \in Conns |-> "none"]
        /\ pc = [l \in Loops |-> IF l = 0 THEN "poll" ELSE "off"]
        /\ quit_ = [l \in Loops |-> FALSE]
        /\ pending = [l \in Loops |-> <<>>] /\ batch = [l \in Loops |-> <<>>]
        /\ user = [holds |-> NULL, sending |-> FALSE] /\ failed = "no"
    BY Zenon DEF Init, AcceptorInit
  <1>3. Used = {}
    BY <1>2 DEF Used
  <1>4. CountInv
    <2>1. Used = 1 .. 0 /\ 0 \in 0 .. MaxClients /\ 0 + backlog <= arrived
      BY <1>2, <1>3, serverAssumption
    <2> QED
      BY <1>2, <2>1 DEF CountInv
  <1>5. \A l \in Loops : queue(l) = <<>> /\ DOMAIN queue(l) = {}
    <2>1. <<>> \o <<>> = <<>> /\ DOMAIN <<>> = {}
      BY ConcatEmptySeq
    <2>2. \A l \in Loops : pending[l] = <<>> /\ batch[l] = <<>>
      BY <1>2
    <2> QED
      BY <2>1, <2>2, Zenon DEF queue
  <1>6. PointerInv
    BY <1>2, <1>5 DEF PointerInv
  <1>7. PoolInv
    <2>1. numThreads_ \in Nat
      BY <1>2, LoopsRange
    <2>2. \A l \in 1 .. numThreads_ : load(l) = 0 /\ extra(l) = 0
      <3>1. \A l : {c \in Conns : state_[c] # "none" /\ loop_[c] = l} = {}
        BY <1>2
      <3>2. \A l : load(l) = 0
        BY <3>1, FS_EmptySet DEF load
      <3>3. \A l \in 1 .. numThreads_ : extra(l) = 0
        BY <1>2, <2>1 DEF extra
      <3> QED
        BY <3>2, <3>3
    <2>3. \A k, l \in 1 .. numThreads_ : load(k) - extra(k) = load(l) - extra(l)
      BY <2>2
    <2>4. IF numThreads_ = 0 THEN next_ = 0 ELSE next_ < numThreads_
      BY <1>2, <2>1
    <2> QED
      BY <1>2, <1>3, <2>3, <2>4, Zenon DEF PoolInv
  <1>8. PhaseInv
    BY <1>2 DEF PhaseInv
  <1>9. LifeInv
    BY <1>3, <1>5, Zenon DEF LifeInv, OpenInv, EstablishedInv, DestroyedInv, RemoveInv, SendInv
  <1>10. FailedInv
    BY <1>2 DEF FailedInv
  <1> QED
    BY <1>1, <1>4, <1>6, <1>7, <1>8, <1>9, <1>10, Zenon DEF Inv

(* and every step keeps it. *)
LEMMA InvStep == Inv /\ [Next]_vars => Inv'
PROOF
  <1> SUFFICES ASSUME Inv, [Next]_vars PROVE Inv'
    OBVIOUS
  <1>1. TypeOK /\ CountInv /\ PointerInv /\ PoolInv /\ PhaseInv /\ (~reused => LifeInv)
    BY Zenon DEF Inv
  <1>2. CASE Next
    <2>1. TypeOK'
      BY <1>1, <1>2, TypeStep
    <2>2. CountInv'
      BY <1>1, <1>2, CountStep
    <2>3. PointerInv'
      BY <1>1, <1>2, <2>1, PointerStep
    <2>4. PoolInv'
      BY <1>1, <1>2, <2>1, PoolStep
    <2>5. PhaseInv'
      BY <1>1, <1>2, <2>1, PhaseStep
    <2>6. ~reused' => LifeInv'
      BY <1>1, <1>2, <2>1, LifeStep
    <2>7. FailedInv'
      BY <1>1, <1>2, <2>1, FailedStep
    <2> QED
      BY <2>1, <2>2, <2>3, <2>4, <2>5, <2>6, <2>7, Zenon DEF Inv
  <1>3. CASE UNCHANGED vars
    <2>1. UNCHANGED <<acceptorVars, server, poolVars, connVars, loopVars, userVars, reused, failed>>
      BY <1>3, Zenon DEF vars
    <2>2. TypeOK'
      <3>1. /\ AcceptorTypeOK' /\ PoolTypeOK' /\ ConnTypeOK' /\ LoopTypeOK' /\ UserTypeOK'
            /\ RestTypeOK'
        BY <1>1, <2>1, TypeKept, Zenon
      <3> QED
        BY <3>1, Zenon DEF TypeOK, PoolTypeOK, ConnTypeOK, LoopTypeOK, UserTypeOK, RestTypeOK
    <2>3. Quiet /\ Used' = Used /\ numThreads_' = numThreads_ /\ reused' = reused
      BY <2>1, Zenon DEF Quiet, Used, queue, connVars, loopVars, userVars, poolVars
    <2>4. CountInv' /\ PhaseInv'
      BY <1>1, <2>1, Zenon DEF CountInv, PhaseInv, Used, acceptorVars, connVars, loopVars, poolVars
    <2>5. PointerInv'
      BY <1>1, <2>1, Zenon DEF PointerInv, Used, queue, connVars, loopVars, userVars
    <2>6. PoolInv'
      <3>1. /\ numThreads_' = numThreads_ /\ next_' = next_ /\ started_' = started_
            /\ listenning_' = listenning_ /\ loop_' = loop_ /\ state_' = state_
        BY <2>1, Zenon DEF connVars, poolVars, acceptorVars
      <3>2. (\A l : load(l)' = load(l)) /\ (\A l : extra(l)' = extra(l))
        BY <3>1 DEF load, extra
      <3>3. \A k, l \in 1 .. numThreads_' : load(k)' - extra(k)' = load(l)' - extra(l)'
        BY <1>1, <3>1, <3>2, Zenon DEF PoolInv
      <3>4. ~started_' => ~listenning_' /\ Used' = {} /\ next_' = 0
        BY <1>1, <2>3, <3>1 DEF PoolInv
      <3> QED
        BY <1>1, <2>3, <3>1, <3>3, <3>4, Zenon DEF PoolInv
    <2>7. ~reused' => LifeInv'
      <3>1. reused' \/ ~reused
        BY <2>3
      <3> QED
        BY <1>1, <2>2, <2>3, <3>1, QuietLife, Zenon
    <2>8. FailedInv'
      <3>1. /\ server' = server /\ numThreads_' = numThreads_ /\ failed' = failed
            /\ reused' = reused /\ late' = late /\ FailedInv
        BY <2>1, Zenon DEF Inv, poolVars, userVars
      <3> QED
        BY <3>1 DEF FailedInv
    <2> QED
      BY <2>2, <2>4, <2>5, <2>6, <2>7, <2>8, Zenon DEF Inv
  <1> QED
    BY <1>2, <1>3

(* The invariant holds of every state of the server. *)
LEMMA Invariance == Spec => []Inv
PROOF
  BY InvInit, InvStep, PTL DEF Spec

--------------------------------------------------------------------------------
(* Theorems *)

(* Every variable keeps its type: functors and the map hold connections that *)
(* were accepted, next_ is a loop of the pool, nextConnId_ a number in range.*)
THEOREM ServerTypeCorrect == Spec => []TypeOK
PROOF
  <1>1. Inv => TypeOK
    BY Zenon DEF Inv
  <1> QED
    BY <1>1, Invariance, PTL

(* TcpServer, TcpConnection: as long as no name is used twice, erase() finds *)
(* its entry and connectEstablished() a connection that is being connected;  *)
(* a connection is destroyed open, or its removal finds the server gone,     *)
(* only when the server of a pool is destroyed; send() of another thread     *)
(* meets an ended loop, or a dangling pointer, only when the server is       *)
(* destroyed or the connection was closed during the call.                   *)
THEOREM ServerFailsOnlyAfter == Spec => []FailsOnlyAfter
PROOF
  <1>1. Inv => FailsOnlyAfter
    <2> SUFFICES ASSUME Inv, ~reused PROVE FailsOnlyAfter
      BY Zenon DEF FailsOnlyAfter
    <2>1. OpenInv /\ FailedInv /\ TypeOK
      BY Zenon DEF Inv, LifeInv
    <2>2. ASSUME NEW c \in Conns, state_[c] \in {"kConnecting", "kConnected"}, ~referenced(c)
          PROVE  server # "up" /\ numThreads_ > 0
      <3>1. c \in Used /\ Open(c)
        BY <2>2 DEF Used, Open
      <3>2. IF server = "up" THEN connections_[id_[c]] = c ELSE numThreads_ > 0
        BY <2>1, <3>1, Zenon DEF OpenInv
      <3>3. id_[c] \in Ids
        BY <2>1 DEF TypeOK
      <3>4. server # "up"
        BY <2>2, <3>2, <3>3, Zenon DEF referenced
      <3> QED
        BY <3>2, <3>4
    <2>3. destroyedOpen => server # "up" /\ numThreads_ > 0
      BY <2>2, Zenon DEF destroyedOpen
    <2> QED
      BY <2>1, <2>3, Zenon DEF FailsOnlyAfter, FailedInv
  <1> QED
    BY <1>1, Invariance, PTL

(* EventLoopThreadPool::getNextLoop(): while the server accepts connections, *)
(* no loop of the pool ever has two more than another.                       *)
THEOREM LoadsStayEven == Spec => []RoundRobin
PROOF
  <1>1. Inv => RoundRobin
    <2> SUFFICES ASSUME Inv, listenning_, NEW k \in getAllLoops, NEW l \in getAllLoops
                 PROVE  load(k) - load(l) \in {-1, 0, 1}
      BY Zenon DEF RoundRobin, load
    <2>1. PoolInv
      BY Zenon DEF Inv
    <2>2. started_ /\ numThreads_ \in Nat
      BY <2>1, LoopsRange DEF PoolInv
    <2>3. loops_ = 1 .. numThreads_
      BY <2>2, Zenon DEF loops_
    <2>4. load(k) \in Nat /\ load(l) \in Nat
      BY LoadIsNat
    <2>5. CASE loops_ = {}
      <3>1. k = 0 /\ l = 0
        BY <2>5 DEF getAllLoops
      <3> QED
        BY <2>4, <3>1
    <2>6. CASE loops_ # {}
      <3>1. k \in 1 .. numThreads_ /\ l \in 1 .. numThreads_
        BY <2>3, <2>6 DEF getAllLoops
      <3>2. load(k) - extra(k) = load(l) - extra(l)
        BY <2>1, <3>1, Zenon DEF PoolInv
      <3>3. extra(k) \in {0, 1} /\ extra(l) \in {0, 1}
        BY DEF extra
      <3> QED
        BY <2>4, <3>2, <3>3
    <2> QED
      BY <2>5, <2>6
  <1> QED
    BY <1>1, Invariance, PTL

================================================================================
