------------------------- MODULE OpenNbSocketProofs -------------------------
(***************************************************************************)
(* open_nb_socket for any number of addresses and any set of descriptors:  *)
(* nothing leaks, and the first address that answers is the one returned.  *)
(***************************************************************************)
EXTENDS OpenNbSocket, TLAPS

(***************************************************************************)
(* The strengthening: how far the attempt has come, and that every address *)
(* before it failed.                                                       *)
(***************************************************************************)
Trying == pc \in {"getfl", "setfl", "connect", "select", "getsockopt"}

\* The calls made so far for this address succeeded.
Progress ==
  /\ Trying => outcome[p] # "socket"
  /\ pc \in {"setfl", "connect", "select", "getsockopt"} => outcome[p] # "getfl"
  /\ pc \in {"connect", "select", "getsockopt"} => outcome[p] # "setfl" /\ nonblock[sockfd]
  /\ pc \in {"select", "getsockopt"} => outcome[p] \notin {"connect", "now"}
  /\ pc = "getsockopt" => outcome[p] # "select"

Descriptor ==
  /\ Open = {sockfd} \ {NoFd}
  /\ Trying => sockfd # NoFd /\ p <= count
  /\ pc \in {"getaddrinfo", "loop"} => sockfd = NoFd

AddressList ==
  /\ pc = "getaddrinfo" => servinfo = "none" /\ ret = NoFd
  /\ Trying \/ pc \in {"loop", "free"} => servinfo = "allocated" /\ count > 0
  /\ pc = "done" => ret = sockfd /\ servinfo = IF count > 0 THEN "freed" ELSE "none"

\* The address reached, when no more are tried.
Outcome ==
  pc \in {"free", "done"} =>
    IF sockfd = NoFd
      THEN (p > count \/ count = 0) /\ (pc = "done" => last_error)
      ELSE p <= count /\ outcome[p] \in Good /\ nonblock[sockfd] /\ peer[sockfd] = p

Earlier == \A i \in 1..N : i < p => outcome[i] \notin Good

IInv == TypeOK /\ Progress /\ Descriptor /\ AddressList /\ Outcome /\ Earlier

LEMMA Bounds == N \in Nat /\ FDs \subseteq Nat /\ NoFd \notin FDs /\ NoFd = -1
BY SocketAssumption DEF SocketAssumption, NoFd

LEMMA InitIInv == Init => IInv
<1> SUFFICES ASSUME Init PROVE IInv
  OBVIOUS
<1>1. Open = {} /\ nonblock \in [Open -> BOOLEAN] /\ peer \in [Open -> 0..N]
  BY DEF Init, Open
<1>2. TypeOK
  <2>1. /\ count \in 0..N /\ outcome \in [1..N -> Outcomes] /\ servinfo = "none"
        /\ last_error = FALSE /\ pc = "getaddrinfo" /\ p = 1 /\ sockfd = NoFd /\ ret = NoFd
    BY DEF Init
  <2>2. p \in 1..N+1
    BY <2>1, Bounds
  <2> QED
    BY <1>1, <2>1, <2>2 DEF TypeOK
<1>3. Progress /\ Descriptor /\ AddressList /\ Outcome
  BY <1>1 DEF Init, Progress, Descriptor, AddressList, Outcome, Trying
<1>4. Earlier
  BY Bounds DEF Init, Earlier
<1> QED
  BY <1>2, <1>3, <1>4 DEF IInv

LEMMA CloseStep ==
  ASSUME IInv, Trying, outcome[p] \notin Good, CloseAndContinue,
         UNCHANGED <<world, servinfo, last_error, ret>>
  PROVE  IInv'
<1> USE Bounds DEF world
<1>1. Open' = {}
  BY DEF CloseAndContinue, Open, IInv, Descriptor
<1>2. TypeOK'
  BY <1>1 DEF CloseAndContinue, Open, IInv, TypeOK, Descriptor, Trying
<1>3. Progress' /\ Descriptor' /\ AddressList' /\ Outcome'
  BY <1>1 DEF CloseAndContinue, IInv, Progress, Descriptor, AddressList, Outcome, Trying
<1>4. Earlier'
  BY DEF CloseAndContinue, IInv, TypeOK, Earlier
<1> QED
  BY <1>2, <1>3, <1>4 DEF IInv

LEMMA SocketStep == IInv /\ Socket => IInv'
<1> SUFFICES ASSUME IInv, Socket PROVE IInv'
  OBVIOUS
<1> USE Bounds DEF world
<1>1. p <= count /\ Open = {} /\ sockfd = NoFd /\ servinfo = "allocated" /\ count > 0 /\ pc = "loop"
  BY DEF Socket, IInv, Descriptor, AddressList
<1>2. CASE Passes("socket")
  <2>1. PICK fd \in FDs : 
          /\ sockfd' = fd
          /\ nonblock' = [f \in {fd} |-> FALSE]
          /\ peer' = [f \in {fd} |-> 0]
          /\ pc' = "getfl" /\ p' = p
          /\ UNCHANGED <<world, servinfo, last_error, ret>>
    <3>1. PICK fd \in FDs \ Open :
            /\ sockfd' = fd
            /\ nonblock' = [f \in Open \cup {fd} |-> IF f = fd THEN FALSE ELSE nonblock[f]]
            /\ peer' = [f \in Open \cup {fd} |-> IF f = fd THEN 0 ELSE peer[f]]
      BY <1>2 DEF Socket
    <3>2. pc' = "getfl" /\ p' = p /\ UNCHANGED <<world, servinfo, last_error, ret>>
      BY <1>2 DEF Socket
    <3>3. nonblock' = [f \in {fd} |-> FALSE] /\ peer' = [f \in {fd} |-> 0]
      BY <1>1, <3>1
    <3> QED
      BY <3>1, <3>2, <3>3
  <2>2. Open' = {fd} /\ fd # NoFd
    BY <2>1 DEF Open
  <2>3. TypeOK'
    BY <2>1, <2>2 DEF IInv, TypeOK
  <2>4. Progress' /\ Descriptor' /\ AddressList' /\ Outcome' /\ Earlier'
    BY <1>1, <1>2, <2>1, <2>2 DEF IInv, TypeOK, Progress, Descriptor, AddressList, Outcome, Earlier,
       Trying, Passes
  <2> QED
    BY <2>3, <2>4 DEF IInv
<1>3. CASE ~Passes("socket")
  <2>1. UNCHANGED <<world, servinfo, last_error, ret, nonblock, peer, pc, sockfd>> /\ p' = p + 1
    BY <1>1, <1>3 DEF Socket
  <2>2. TypeOK'
    BY <1>1, <2>1 DEF IInv, TypeOK, Open
  <2>3. Progress' /\ Descriptor' /\ AddressList' /\ Outcome'
    BY <1>1, <2>1 DEF IInv, Progress, Descriptor, AddressList, Outcome, Trying, Open
  <2>4. Earlier'
    BY <1>3, <2>1 DEF IInv, TypeOK, Earlier, Passes, Good
  <2> QED
    BY <2>2, <2>3, <2>4 DEF IInv
<1> QED
  BY <1>2, <1>3

\* A call that succeeds and leaves the attempt at the next one.
LEMMA AdvanceStep ==
  ASSUME IInv, Trying, Kept, UNCHANGED <<world, servinfo, last_error, ret>>,
         pc' \in {"setfl", "select", "getsockopt"}, Progress'
  PROVE  IInv'
<1> USE DEF world, Kept
<1>1. TypeOK'
  BY DEF IInv, TypeOK, Open
<1>2. Descriptor' /\ AddressList' /\ Outcome' /\ Earlier'
  BY DEF IInv, Descriptor, AddressList, Outcome, Earlier, Trying, Open
<1> QED
  BY <1>1, <1>2 DEF IInv

\* The address answered: the attempt ends with the descriptor connected to it.
LEMMA ConnectedStep ==
  ASSUME IInv, pc \in {"connect", "getsockopt"}, outcome[p] \in Good,
         peer' = [peer EXCEPT ![sockfd] = p], pc' = "free",
         UNCHANGED <<nonblock, sockfd, p, world, servinfo, last_error, ret>>
  PROVE  IInv'
<1> USE Bounds DEF world
<1>1. Trying /\ sockfd \in Open /\ p <= count
  BY DEF IInv, Descriptor, Trying
<1>2. Open' = Open /\ peer'[sockfd] = p /\ peer' \in [Open -> 0..N]
  BY <1>1 DEF IInv, TypeOK, Open
<1>3. TypeOK'
  BY <1>2 DEF IInv, TypeOK
<1>4. Progress' /\ Descriptor' /\ AddressList' /\ Outcome' /\ Earlier'
  BY <1>1, <1>2 DEF IInv, Progress, Descriptor, AddressList, Outcome, Earlier, Trying
<1> QED
  BY <1>3, <1>4 DEF IInv

LEMMA StepIInv == IInv /\ [Next]_vars => IInv'
<1> SUFFICES ASSUME IInv, [Next]_vars PROVE IInv'
  OBVIOUS
<1>1. CASE GetAddrInfo
  <2> USE <1>1, Bounds DEF GetAddrInfo, world
  <2>1. TypeOK'
    BY DEF IInv, TypeOK, Open
  <2>2. Progress' /\ Descriptor'
    BY DEF IInv, Progress, Descriptor, Trying, Open
  <2>3. AddressList'
    BY DEF IInv, AddressList, Descriptor, Trying
  <2>4. Outcome'
    BY DEF IInv, TypeOK, Outcome, Descriptor
  <2>5. Earlier'
    BY DEF IInv, Earlier
  <2> QED
    BY <2>1, <2>2, <2>3, <2>4, <2>5 DEF IInv
<1>2. CASE Socket
  BY <1>2, SocketStep
<1>3. CASE GetFlags
  <2>1. CASE Passes("getfl")
    <3>1. Progress'
      BY <1>3, <2>1 DEF IInv, GetFlags, Progress, Trying, Passes, Kept, world
    <3> QED
      BY <1>3, <2>1, <3>1, AdvanceStep DEF GetFlags, Trying
  <2>2. CASE ~Passes("getfl")
    BY <1>3, <2>2, CloseStep DEF GetFlags, Trying, Passes, Good
  <2> QED
    BY <2>1, <2>2
<1>4. CASE SetNonBlocking
  <2>1. CASE Passes("setfl")
    <3> USE <1>4, <2>1, Bounds DEF SetNonBlocking, world
    <3>1. Open' = Open /\ sockfd \in Open /\ nonblock' \in [Open -> BOOLEAN] /\ nonblock'[sockfd]
      BY DEF IInv, TypeOK, Open, Descriptor, Trying
    <3>2. TypeOK'
      BY <3>1 DEF IInv, TypeOK
    <3>3. Progress' /\ Descriptor' /\ AddressList' /\ Outcome' /\ Earlier'
      BY <3>1 DEF IInv, Progress, Descriptor, AddressList, Outcome, Earlier, Trying, Passes
    <3> QED
      BY <3>2, <3>3 DEF IInv
  <2>2. CASE ~Passes("setfl")
    BY <1>4, <2>2, CloseStep DEF SetNonBlocking, Trying, Passes, Good
  <2> QED
    BY <2>1, <2>2
<1>5. CASE Connect
  <2>1. CASE outcome[p] = "now"
    BY <1>5, <2>1, ConnectedStep DEF Connect, Good
  <2>2. CASE outcome[p] = "connect"
    BY <1>5, <2>2, CloseStep DEF Connect, Trying, Good
  <2>3. CASE outcome[p] \notin {"now", "connect"}
    <3>1. Progress'
      BY <1>5, <2>3 DEF IInv, Connect, Progress, Trying, Kept, world
    <3> QED
      BY <1>5, <2>3, <3>1, AdvanceStep DEF Connect, Trying
  <2> QED
    BY <2>1, <2>2, <2>3
<1>6. CASE Select
  <2>1. CASE Passes("select")
    <3>1. Progress'
      BY <1>6, <2>1 DEF IInv, Select, Progress, Trying, Passes, Kept, world
    <3> QED
      BY <1>6, <2>1, <3>1, AdvanceStep DEF Select, Trying
  <2>2. CASE ~Passes("select")
    BY <1>6, <2>2, CloseStep DEF Select, Trying, Passes, Good
  <2> QED
    BY <2>1, <2>2
<1>7. CASE GetSockOpt
  <2>1. CASE Passes("getsockopt")
    <3>1. outcome[p] \in Outcomes
      BY <1>7, Bounds DEF IInv, TypeOK, Descriptor, GetSockOpt, Trying
    <3>2. outcome[p] \in Good
      BY <1>7, <2>1, <3>1 DEF IInv, Progress, GetSockOpt, Passes, Good, Outcomes, Trying
    <3> QED
      BY <1>7, <2>1, <3>2, ConnectedStep DEF GetSockOpt
  <2>2. CASE ~Passes("getsockopt")
    BY <1>7, <2>2, CloseStep DEF GetSockOpt, Trying, Passes, Good
  <2> QED
    BY <2>1, <2>2
<1>8. CASE AddressesExhausted
  <2> USE <1>8, Bounds DEF AddressesExhausted, world
  <2>1. TypeOK'
    BY DEF IInv, TypeOK, Open
  <2>2. Progress' /\ Descriptor' /\ AddressList' /\ Outcome' /\ Earlier'
    BY DEF IInv, Progress, Descriptor, AddressList, Outcome, Earlier, Trying, Open
  <2> QED
    BY <2>1, <2>2 DEF IInv
<1>9. CASE FreeAddrInfo
  <2> USE <1>9, Bounds DEF FreeAddrInfo, world
  <2>1. TypeOK'
    BY DEF IInv, TypeOK, Open
  <2>2. Progress' /\ Descriptor' /\ AddressList' /\ Outcome' /\ Earlier'
    BY DEF IInv, TypeOK, Progress, Descriptor, AddressList, Outcome, Earlier, Trying, Open
  <2> QED
    BY <2>1, <2>2 DEF IInv
<1>10. CASE UNCHANGED vars
  BY <1>10 DEF IInv, TypeOK, Progress, Descriptor, AddressList, Outcome, Earlier, Trying, Open, vars
<1> QED
  BY <1>1, <1>2, <1>3, <1>4, <1>5, <1>6, <1>7, <1>8, <1>9, <1>10 DEF Next, Step, Done

THEOREM SocketInvariant == Spec => []IInv
BY InitIInv, StepIInv, PTL DEF Spec

\* open_nb_socket closes every descriptor it does not return, and frees the
\* address list when there is one, whichever calls fail for whichever address.
THEOREM NoLeak == Spec => []NothingLeaks
<1>1. IInv => NothingLeaks
  BY DEF IInv, Descriptor, AddressList, NothingLeaks
<1> QED
  BY <1>1, SocketInvariant, PTL

\* It returns the first address that answers, connected and non-blocking, or
\* -1 and an error.
THEOREM FirstAnswer == Spec => []FirstGoodAddress
<1>1. IInv => FirstGoodAddress
  <2> SUFFICES ASSUME IInv, pc = "done"
               PROVE  LET good == {i \in 1..count : outcome[i] \in Good}
                      IN IF good = {} THEN ret = NoFd /\ last_error
                         ELSE /\ ret \in Open /\ nonblock[ret]
                              /\ peer[ret] \in good /\ \A i \in good : peer[ret] <= i
    BY DEF FirstGoodAddress
  <2> DEFINE good == {i \in 1..count : outcome[i] \in Good}
  <2>0. ret = sockfd /\ Open = {sockfd} \ {NoFd} /\ count \in 0..N /\ p \in 1..N+1
    BY DEF IInv, AddressList, Descriptor, TypeOK
  <2>1. CASE sockfd = NoFd
    <3>1. last_error /\ (p > count \/ count = 0)
      BY <2>1 DEF IInv, Outcome
    <3>2. good = {}
      BY <2>0, <3>1, Bounds DEF IInv, Earlier
    <3> QED
      BY <2>0, <2>1, <3>1, <3>2
  <2>2. CASE sockfd # NoFd
    <3>1. p <= count /\ outcome[p] \in Good /\ nonblock[sockfd] /\ peer[sockfd] = p
      BY <2>2 DEF IInv, Outcome
    <3>2. p \in good
      BY <2>0, <3>1, Bounds
    <3>3. \A i \in good : p <= i
      BY <2>0, Bounds DEF IInv, Earlier
    <3> QED
      BY <2>0, <2>2, <3>1, <3>2, <3>3
  <2> QED
    BY <2>1, <2>2
<1> QED
  BY <1>1, SocketInvariant, PTL

\* Every variable of open_nb_socket keeps its type, for any list of addresses.
THEOREM SocketTypes == Spec => []TypeOK
<1>1. IInv => TypeOK
  BY DEF IInv
<1> QED
  BY <1>1, SocketInvariant, PTL
=============================================================================
