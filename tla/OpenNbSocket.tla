---------------------------- MODULE OpenNbSocket ----------------------------
(***************************************************************************)
(* open_nb_socket of dx_mqtt.c: the addresses of the broker's host are     *)
(* tried in the order getaddrinfo gives them, each by a sequence of system *)
(* calls that can fail, until one is connected without blocking.           *)
(***************************************************************************)
EXTENDS Integers, FiniteSets

CONSTANTS
  N,     \* bound: addresses getaddrinfo can return
  FDs    \* descriptors the process can be given

ASSUME SocketAssumption == N \in Nat /\ FDs \subseteq Nat

NoFd == -1

(***************************************************************************)
(* The system: what each address would answer.  The outcome names the call *)
(* at which the attempt fails; "now" and "later" are the two ways in which *)
(* it succeeds (connect returns 0, or EINPROGRESS and then completes).     *)
(***************************************************************************)
Outcomes == {"socket", "getfl", "setfl", "connect", "select", "getsockopt", "now", "later"}
Good == {"now", "later"}

VARIABLES
  outcome,    \* outcome[i] of the i-th address
  count,      \* number of addresses, 0 if getaddrinfo fails
  servinfo,   \* "none", "allocated" or "freed"
  nonblock,   \* open descriptors: is O_NONBLOCK set
  peer,       \* open descriptors: the address connected to, 0 if none
  last_error,
  pc, p, sockfd, ret

vars == <<outcome, count, servinfo, nonblock, peer, last_error, pc, p, sockfd, ret>>
world == <<outcome, count>>

Open == DOMAIN peer

TypeOK ==
  /\ count \in 0..N
  /\ outcome \in [1..N -> Outcomes]
  /\ servinfo \in {"none", "allocated", "freed"}
  /\ Open \subseteq FDs
  /\ nonblock \in [Open -> BOOLEAN] /\ peer \in [Open -> 0..N]
  /\ last_error \in BOOLEAN
  /\ pc \in {"getaddrinfo", "loop", "getfl", "setfl", "connect", "select", "getsockopt", "free", "done"}
  /\ p \in 1..N+1
  /\ sockfd \in FDs \cup {NoFd} /\ ret \in FDs \cup {NoFd}

Init ==
  /\ outcome \in [1..N -> Outcomes]
  /\ count \in 0..N
  /\ servinfo = "none"
  /\ nonblock = <<>> /\ peer = <<>>
  /\ last_error = FALSE
  /\ pc = "getaddrinfo"
  /\ p = 1
  /\ sockfd = NoFd /\ ret = NoFd

GetAddrInfo ==
  /\ pc = "getaddrinfo"
  /\ IF count > 0
       THEN servinfo' = "allocated" /\ pc' = "loop" /\ UNCHANGED last_error
       ELSE servinfo' = "none" /\ pc' = "done" /\ last_error' = TRUE
  /\ UNCHANGED <<world, nonblock, peer, p, sockfd, ret>>

\* The call `at` succeeds for this address, or does not.
Passes(at) == outcome[p] # at

Socket ==
  /\ pc = "loop"
  /\ p <= count
  /\ \/ /\ Passes("socket")
        /\ \E fd \in FDs \ Open :
             /\ sockfd' = fd
             /\ nonblock' = [f \in Open \cup {fd} |-> IF f = fd THEN FALSE ELSE nonblock[f]]
             /\ peer' = [f \in Open \cup {fd} |-> IF f = fd THEN 0 ELSE peer[f]]
        /\ pc' = "getfl"
        /\ UNCHANGED p
     \/ /\ ~Passes("socket")
        /\ sockfd' = NoFd
        /\ p' = p + 1
        /\ UNCHANGED <<nonblock, peer, pc>>
  /\ UNCHANGED <<world, servinfo, last_error, ret>>

\* Slip: the descriptor is forgotten, not closed.
ForgetAndContinue ==
  /\ sockfd' = NoFd
  /\ p' = p + 1
  /\ pc' = "loop"
  /\ UNCHANGED <<nonblock, peer>>

\* Slip: the same address is tried for ever.
TryAgain ==
  /\ nonblock' = [f \in Open \ {sockfd} |-> nonblock[f]]
  /\ peer' = [f \in Open \ {sockfd} |-> peer[f]]
  /\ sockfd' = NoFd
  /\ pc' = "loop"
  /\ UNCHANGED p

\* close(sockfd); sockfd = -1; continue;
CloseAndContinue ==
  /\ nonblock' = [f \in Open \ {sockfd} |-> nonblock[f]]
  /\ peer' = [f \in Open \ {sockfd} |-> peer[f]]
  /\ sockfd' = NoFd
  /\ p' = p + 1
  /\ pc' = "loop"

Kept == UNCHANGED <<nonblock, peer, sockfd, p>>

GetFlags ==
  /\ pc = "getfl"
  /\ IF Passes("getfl") THEN pc' = "setfl" /\ Kept ELSE CloseAndContinue
  /\ UNCHANGED <<world, servinfo, last_error, ret>>

SetNonBlocking ==
  /\ pc = "setfl"
  /\ IF Passes("setfl")
       THEN /\ pc' = "connect"
            /\ nonblock' = [nonblock EXCEPT ![sockfd] = TRUE]
            /\ UNCHANGED <<peer, sockfd, p>>
       ELSE CloseAndContinue
  /\ UNCHANGED <<world, servinfo, last_error, ret>>

\* Slip: connect is believed to have succeeded whenever it did not refuse.
ConnectNoWait ==
  /\ pc = "connect"
  /\ IF Passes("connect") THEN pc' = "free" /\ Kept ELSE CloseAndContinue
  /\ UNCHANGED <<world, servinfo, last_error, ret>>

\* connect returns 0, or -1 with EINPROGRESS, or -1 with another error.
Connect ==
  /\ pc = "connect"
  /\ CASE outcome[p] = "now" ->
            /\ peer' = [peer EXCEPT ![sockfd] = p]
            /\ pc' = "free"
            /\ UNCHANGED <<nonblock, sockfd, p>>
       [] outcome[p] = "connect" -> CloseAndContinue
       [] OTHER -> pc' = "select" /\ Kept
  /\ UNCHANGED <<world, servinfo, last_error, ret>>

\* At most 10 seconds: a timeout, a failure or an exceptional condition.
Select ==
  /\ pc = "select"
  /\ IF Passes("select") THEN pc' = "getsockopt" /\ Kept ELSE CloseAndContinue
  /\ UNCHANGED <<world, servinfo, last_error, ret>>

\* SO_ERROR tells whether the connection succeeded.
GetSockOpt ==
  /\ pc = "getsockopt"
  /\ IF Passes("getsockopt")
       THEN /\ peer' = [peer EXCEPT ![sockfd] = p]
            /\ pc' = "free"
            /\ UNCHANGED <<nonblock, sockfd, p>>
       ELSE CloseAndContinue
  /\ UNCHANGED <<world, servinfo, last_error, ret>>

AddressesExhausted ==
  /\ pc = "loop"
  /\ p > count
  /\ pc' = "free"
  /\ UNCHANGED <<world, servinfo, nonblock, peer, last_error, p, sockfd, ret>>

FreeAddrInfo ==
  /\ pc = "free"
  /\ servinfo' = "freed"
  /\ pc' = "done"
  /\ ret' = sockfd
  /\ last_error' = (last_error \/ sockfd = NoFd)
  /\ UNCHANGED <<world, nonblock, peer, p, sockfd>>

Done == pc = "done" /\ UNCHANGED vars

Step ==
  \/ GetAddrInfo \/ Socket \/ GetFlags \/ SetNonBlocking \/ Connect \/ Select
  \/ GetSockOpt \/ AddressesExhausted \/ FreeAddrInfo

Next == Step \/ Done

Spec == Init /\ [][Next]_vars /\ WF_vars(Step)

-----------------------------------------------------------------------------

\* Nothing but the socket being worked on is ever open, and after the call
\* nothing but the one returned: no failed attempt leaks its descriptor, and
\* the address list is freed exactly when there was one.
NothingLeaks ==
  /\ Open = {sockfd} \ {NoFd}
  /\ pc = "done" => ret = sockfd /\ servinfo = IF count > 0 THEN "freed" ELSE "none"

\* What is returned is the first address that answers: connected to it, not
\* blocking; or -1, with an error to read, when none does.
FirstGoodAddress ==
  pc = "done" =>
    LET good == {i \in 1..count : outcome[i] \in Good}
    IN IF good = {} THEN ret = NoFd /\ last_error
       ELSE /\ ret \in Open /\ nonblock[ret]
            /\ peer[ret] \in good /\ \A i \in good : peer[ret] <= i

\* Every attempt ends: the call returns for any mix of outcomes.
Returns == <>(pc = "done")
=============================================================================
