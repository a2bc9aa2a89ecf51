------------------------------ MODULE XSocket -------------------------------
(***************************************************************************)
(* What xSockApi and xSocket do with descriptors (net/sockapi.cpp,         *)
(* socket.cpp): the socket calls in their order, each of which may fail,   *)
(* and who closes the descriptor then.  A call that fails ends the         *)
(* operation, so a run of an operation is named by the call that fails     *)
(* (or "none").  A result is the descriptor returned, INVALID_SOCK after a *)
(* failure, and the descriptors that are open afterwards.                  *)
(***************************************************************************)
EXTENDS Naturals

INVALID_SOCK == 0

failed(R)         == R.fd = INVALID_SOCK
invalid(opened)   == [fd |-> INVALID_SOCK, open |-> opened]

\* Mutant: the descriptor is left open.
orLeave(R, fails) == IF fails THEN invalid(R.open) ELSE R

\* `if (the next call fails){ close(s); return XFNET_ERR; }`
orClose(R, fails) == IF fails THEN invalid(R.open \ {R.fd}) ELSE R

createSocket(opened, f, fails) ==
    IF fails = "socket" THEN invalid(opened)
    ELSE orClose([fd |-> f, open |-> opened \cup {f}], fails = "reuseAddr")

\* setBlock: fcntl is called twice.
setBlockFails(fails) == fails \in {"getfl", "setfl"}

\* connect() with EINPROGRESS counts as success on a non-blocking socket.
tcpConnect(opened, f, fails) ==
    LET created   == createSocket(opened, f, fails)
        prepared  == orClose(created, ~failed(created) /\ setBlockFails(fails))
        connected == orClose(prepared, ~failed(prepared) /\ fails = "connect")
    IN  orClose(connected, ~failed(connected) /\ fails = "getsockname")

ConnectCalls == {"none", "socket", "reuseAddr", "getfl", "setfl", "connect", "getsockname"}

\* xSocket::connectNonblock on behalf of a caller that will get descriptor f.
connectNonblock(opened, f) == {tcpConnect(opened, f, fails) : fails \in ConnectCalls}

\* The error pending on a socket, as a number.
getSocketError == {0, 1}
-----------------------------------------------------------------------------
(* Listening and accepting: the xSocket's methods throw when a call fails.  *)

ListenCalls == {"none", "socket", "reuseAddr", "reuseAddrAgain", "reusePort", "bind", "listen",
                "getfl", "setfl"}

createThrows(fails) == failed(createSocket({}, 1, fails))
optionFails(fails) == fails \in {"reuseAddrAgain", "reusePort"} \/ setBlockFails(fails)
bindFails(fails)   == fails \in {"bind", "listen"}

\* Whether create, setReuseAddr, setReusePort, bind, listen, setNonBlock end in
\* an exception.
listenThrows(fails) == createThrows(fails) \/ optionFails(fails) \/ bindFails(fails)

AcceptCalls == {"none", "accept", "getfl", "setfl"}

\* accept() is repeated after EINTR; setNonBlock in xConnection's constructor
\* may throw, and then the descriptor is closed with the xSocket.
tcpAccept(opened, f, fails) ==
    IF fails = "accept" THEN invalid(opened)
    ELSE orClose([fd |-> f, open |-> opened \cup {f}], setBlockFails(fails))
=============================================================================
