-------------------------------- MODULE Acceptor --------------------------------
(***************************************************************************)
(* Acceptor and the accept() of SocketsOps: clients wait in the backlog of  *)
(* the listening socket, and accepting one takes a descriptor.  idleFd_ is  *)
(* the spare one that is given up, when the process has none left, to       *)
(* accept a client and turn it away.  Other threads open and close          *)
(* descriptors meanwhile.  TcpServer has the rest of the process.           *)
(***************************************************************************)
EXTENDS Naturals

CONSTANTS MaxClients,  \* clients that ever connect
          MaxFds,      \* RLIMIT_NOFILE, less what is always open
          MaxOtherFds  \* descriptors that other threads have at a time

VARIABLES
  listenning_, \* Acceptor::listenning_
  arrived,     \* clients that have connected
  backlog,     \* clients that wait to be accepted
  idleFd_,     \* is the spare descriptor open?
  otherFds,    \* descriptors of other threads
  accepting,   \* how far the handling of EMFILE is
  stolen       \* history: another thread took the descriptor idleFd_ gave up

acceptorVars == <<listenning_, arrived, backlog, idleFd_, otherFds, accepting, stolen>>

AcceptorTypeOK ==
  /\ listenning_ \in BOOLEAN
  /\ arrived \in 0 .. MaxClients
  /\ backlog \in 0 .. arrived
  /\ idleFd_ \in BOOLEAN
  /\ otherFds \in 0 .. MaxOtherFds
  /\ accepting \in {"no", "closed", "accepted", "refused", "missed"}
  /\ stolen \in BOOLEAN

(* The constructor binds the socket and opens /dev/null. *)
AcceptorInit ==
  /\ listenning_ = FALSE
  /\ arrived = 0
  /\ backlog = 0
  /\ idleFd_ = TRUE
  /\ otherFds = 0
  /\ accepting = "no"
  /\ stolen = FALSE

(* listen(), and the enableReading() with it *)
listen ==
  /\ listenning_' = TRUE
  /\ UNCHANGED <<arrived, backlog, idleFd_, otherFds, accepting, stolen>>

(* The destructor: the channel is removed and both descriptors are closed. *)
destroyAcceptor ==
  /\ listenning_' = FALSE
  /\ backlog' = 0
  /\ idleFd_' = FALSE
  /\ UNCHANGED <<arrived, otherFds, accepting, stolen>>

(* Descriptors left when connections hold connFds of them; while the client  *)
(* that is turned away is open, it holds one too.                            *)
freeFds(connFds) ==
  MaxFds - (connFds + otherFds + (IF idleFd_ THEN 1 ELSE 0)
                    + (IF accepting = "accepted" THEN 1 ELSE 0))

(* The outcomes of ::accept4() for the client at the head of the backlog, as *)
(* the switch of sockets::accept() sorts them: "fatal" are the errors that   *)
(* end the process (ENFILE, ENOBUFS, ENOMEM and those it does not expect),   *)
(* "aborted" is ECONNABORTED, EPROTO or EPERM, which use up the client; after *)
(* EINTR and EAGAIN the loop comes back.                                     *)
acceptOutcomes(connFds) ==
  IF freeFds(connFds) = 0 THEN {"EMFILE", "fatal"} ELSE {"ok", "aborted", "fatal"}

(* handleRead() of the listening channel; what becomes of a client that is   *)
(* accepted is up to the new-connection callback.                            *)
handleRead(outcome) ==
  /\ listenning_
  /\ accepting = "no"
  /\ backlog > 0
  /\ backlog' = IF outcome \in {"ok", "aborted"} THEN backlog - 1 ELSE backlog
  /\ accepting' = IF outcome = "EMFILE" THEN "closed" ELSE "no"
  /\ idleFd_' = (outcome # "EMFILE" /\ idleFd_)
  /\ UNCHANGED <<listenning_, arrived, otherFds, stolen>>

(* The other system calls of the EMFILE branch, one by one. *)
emfileAccept(connFds) ==
  /\ accepting = "closed"
  /\ IF freeFds(connFds) > 0
     THEN accepting' = "accepted" /\ backlog' = backlog - 1
     ELSE accepting' = "missed" /\ UNCHANGED backlog
  /\ UNCHANGED <<listenning_, arrived, idleFd_, otherFds, stolen>>

emfileClose ==
  /\ accepting = "accepted"
  /\ accepting' = "refused"
  /\ UNCHANGED <<listenning_, arrived, backlog, idleFd_, otherFds, stolen>>

(* Mutant: /dev/null is not opened again. *)
Mutant_emfileOpen(connFds) ==
  /\ accepting \in {"refused", "missed"}
  /\ accepting' = "no"
  /\ UNCHANGED <<listenning_, arrived, backlog, idleFd_, otherFds, stolen>>

emfileOpen(connFds) ==
  /\ accepting \in {"refused", "missed"}
  /\ accepting' = "no"
  /\ idleFd_' = (freeFds(connFds) > 0)
  /\ UNCHANGED <<listenning_, arrived, backlog, otherFds, stolen>>

--------------------------------------------------------------------------------
(* The rest of the world.  Nobody looks at the descriptors that are left     *)
(* unless a client waits, so they change only then.                          *)
fdsMatter == backlog > 0 \/ accepting # "no"

clientConnects ==
  /\ listenning_
  /\ arrived < MaxClients
  /\ arrived' = arrived + 1
  /\ backlog' = backlog + 1
  /\ UNCHANGED <<listenning_, idleFd_, otherFds, accepting, stolen>>

otherOpens(connFds) ==
  /\ fdsMatter /\ otherFds < MaxOtherFds
  /\ freeFds(connFds) > 0
  /\ otherFds' = otherFds + 1
  /\ stolen' = (stolen \/ accepting # "no")
  /\ UNCHANGED <<listenning_, arrived, backlog, idleFd_, accepting>>

otherCloses ==
  /\ fdsMatter /\ otherFds > 0
  /\ otherFds' = otherFds - 1
  /\ UNCHANGED <<listenning_, arrived, backlog, idleFd_, accepting, stolen>>

================================================================================
