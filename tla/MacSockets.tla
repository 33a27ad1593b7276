----------------------------- MODULE MacSockets -----------------------------
(***************************************************************************)
(* The socket calls of src/loader_shims.c, in its POSIX and its Winsock    *)
(* half: the game's calls are passed to the host, and what the host says   *)
(* of a failure reaches the game through errno.  The game is a macOS       *)
(* binary: it compares errno with macOS numbers, and follows a             *)
(* non-blocking connect by calling connect again until errno says EISCONN. *)
(*                                                                         *)
(* On POSIX sockets and files share one descriptor space; on Windows a     *)
(* SOCKET and a C-runtime descriptor are different things that may have    *)
(* the same number.  Addresses and flags are converted by the operators of *)
(* Addresses; payloads are left out, and so is fcntl beyond the flags: the *)
(* POSIX half also passes on locks and F_DUPFD, which makes a second       *)
(* descriptor of one description; nothing says that the game uses them.    *)
(* The host's network stack is modelled from how the shims use it.         *)
(***************************************************************************)
EXTENDS Addresses, FiniteSets

CONSTANTS SockNums,      \* bound: numbers the host gives to sockets
          MaxBacklog,    \* bound: connections waiting at a listener
          Setups         \* hosts the game may run on: records of platform,
                         \* faults that may happen (see AllFaults) and
                         \* fileNums, the numbers the host gives to files

(* "no_socket":   socket() fails, the process has no descriptor left.       *)
(* "no_listen":   listen() fails, the address is in use.                    *)
(* "bad_address": the game passes an address Windows does not recognise.    *)
AllFaults == {"no_socket", "no_listen", "bad_address"}

ASSUME SocketAssumption ==
    /\ Setups \subseteq [platform : {"posix", "win32"}, faults : SUBSET AllFaults,
                          fileNums : SUBSET Nat]
    /\ MaxBacklog \in Nat /\ SockNums \subseteq Nat

Nums == SockNums \cup UNION {s.fileNums : s \in Setups}

(* A failure has a number on macOS and one on Linux; Winsock's are          *)
(* translated by mac_set_errno_from_wsa below.                              *)
Mac   == [EINPROGRESS |-> 36, EALREADY |-> 37, EISCONN |-> 56, EAGAIN |-> 35,
          ECONNREFUSED |-> 61, ECONNRESET |-> 54,
          EADDRINUSE |-> 48, EMFILE |-> 24, EAFNOSUPPORT |-> 47]
Linux == [EINPROGRESS |-> 115, EALREADY |-> 114, EISCONN |-> 106, EAGAIN |-> 11,
          ECONNREFUSED |-> 111, ECONNRESET |-> 104,
          EADDRINUSE |-> 98, EMFILE |-> 24, EAFNOSUPPORT |-> 97]
Failures == DOMAIN Mac

VARIABLES
    setup,      \* the host of this behaviour
    socks,      \* the host's sockets: what each number is, "none" if no socket
    flags,      \* the host's flags of each number, in Linux bits
    files,      \* the host's open files
    backlog,    \* connections waiting at each listening socket
    errno,
    failed,     \* why the last call failed, "none" if it did not
    passed,     \* the address of the last call, if it had one that was not
                \* cut: what its sender meant, what its receiver got
    waits,      \* the descriptor the game's call waits on, or NoOne
    wanted,     \* the flags the game has given each descriptor, in macOS bits,
                \* and O_NONBLOCK where listen gives it on POSIX
    heldSocks, heldFiles,   \* the game: the descriptors it has not closed
    conn        \* the game: what it knows of its connect on each socket

hostVars == <<socks, flags, files, backlog>>
gameVars == <<heldSocks, heldFiles, conn, wanted>>
vars == <<setup, hostVars, errno, failed, passed, waits, gameVars>>

NoOne == -1
NoAddress == [meant |-> <<"none", "cut">>, got |-> <<"none", "cut">>]

Platform == setup.platform
Faults   == setup.faults
FileNums == setup.fileNums

SockStates == {"none", "open", "listening", "connecting", "connected", "refused"}
ConnStates == {"idle", "waiting", "established", "refused"}

Init == /\ setup \in Setups
        /\ socks = [n \in Nums |-> "none"] /\ flags = [n \in Nums |-> {}] /\ files = {}
        /\ backlog = [n \in Nums |-> 0]
        /\ errno = 0 /\ failed = "none" /\ passed = NoAddress /\ waits = NoOne
        /\ wanted = [n \in Nums |-> {}]
        /\ heldSocks = {} /\ heldFiles = {}
        /\ conn = [n \in Nums |-> "idle"]

(* What Winsock calls the failure: WSAEWOULDBLOCK is both "in progress" and *)
(* "try again".                                                             *)
Wsa(f) == IF f \in {"EINPROGRESS", "EAGAIN"} THEN "WSAEWOULDBLOCK" ELSE f

(* What mac_set_errno_from_wsa stores for a code; EIO if it has no case.    *)
WsaCases ==
    [none |-> 0, EINPROGRESS |-> 36, EALREADY |-> 37, EISCONN |-> 56, ENOTCONN |-> 57,
     ECONNREFUSED |-> 61, ECONNRESET |-> 54, ECONNABORTED |-> 53, ETIMEDOUT |-> 60,
     EADDRINUSE |-> 48, EADDRNOTAVAIL |-> 49, ENETUNREACH |-> 51, EHOSTUNREACH |-> 65,
     ENOTSOCK |-> 38]
Stored(wsa) == IF wsa \in DOMAIN WsaCases THEN WsaCases[wsa] ELSE 5

(* mac_set_errno_from_wsa with a fault, for comparison: the connecting flag *)
(* is ignored.                                                              *)
WsaOneBlock(wsa, connecting) ==
    IF wsa = "WSAEWOULDBLOCK" THEN 35 ELSE Stored(wsa)

(* mac_set_errno_from_wsa with a fault, for comparison: two codes are mixed *)
(* up.                                                                      *)
WsaMixedUp(wsa, connecting) ==
    CASE wsa = "WSAEWOULDBLOCK" -> IF connecting THEN 36 ELSE 35
      [] wsa = "EALREADY"       -> Stored("EISCONN")
      [] OTHER                  -> Stored(wsa)

(* mac_set_errno_from_wsa with a fault, for comparison: WSAEISCONN has no   *)
(* case.                                                                    *)
WsaNoIsConn(wsa, connecting) ==
    CASE wsa = "WSAEWOULDBLOCK" -> IF connecting THEN 36 ELSE 35
      [] wsa = "EISCONN"        -> 5
      [] OTHER                  -> Stored(wsa)

(* For WSAEWOULDBLOCK the connecting flag of the call decides.              *)
mac_set_errno_from_wsa(wsa, connecting) ==
    IF wsa = "WSAEWOULDBLOCK" THEN (IF connecting THEN 36 ELSE 35) ELSE Stored(wsa)

(* A call that succeeds leaves errno alone; one that fails sets it in libc, *)
(* or, on Windows, where the shim translates; some paths there do not.      *)
Succeed == failed' = "none" /\ errno' = errno

Fail(f, connecting) ==
    /\ failed' = f
    /\ errno' = IF Platform = "posix" THEN Linux[f]
                ELSE mac_set_errno_from_wsa(Wsa(f), connecting)

FailSilently(f) ==
    /\ failed' = f
    /\ errno' = IF Platform = "posix" THEN Linux[f] ELSE errno

InUse == {n \in Nums : socks[n] # "none"} \cup
         (IF Platform = "posix" THEN files ELSE {})

(* Both kinds of descriptors have flags, all of them only on POSIX. *)
nonblock == {n \in Nums : LinuxNONBLOCK \in flags[n]}

-----------------------------------------------------------------------------
(* The game's calls. *)
Calls == waits = NoOne /\ UNCHANGED waits
NoPassed == passed' = NoAddress

mac_socket ==
    /\ Calls /\ NoPassed
    /\ \/ \E n \in SockNums \ InUse :
             /\ socks' = [socks EXCEPT ![n] = "open"]
             /\ flags' = [flags EXCEPT ![n] = {}]
             /\ heldSocks' = heldSocks \cup {n}
             /\ conn' = [conn EXCEPT ![n] = "idle"]
             /\ wanted' = [wanted EXCEPT ![n] = {}]
             /\ Succeed
             /\ UNCHANGED <<files, backlog, heldFiles>>
       \/ /\ "no_socket" \in Faults /\ FailSilently("EMFILE")
          /\ UNCHANGED <<hostVars, gameVars>>

OpenFile ==
    /\ Calls /\ NoPassed
    /\ \E n \in FileNums \ (files \cup (IF Platform = "posix" THEN InUse ELSE {})) :
          /\ files' = files \cup {n}
          /\ heldFiles' = heldFiles \cup {n}
          /\ flags' = IF Platform = "posix" THEN [flags EXCEPT ![n] = {}] ELSE flags
          /\ wanted' = IF Platform = "posix" THEN [wanted EXCEPT ![n] = {}] ELSE wanted
    /\ Succeed
    /\ UNCHANGED <<socks, backlog, heldSocks, conn>>

(* fcntl(F_GETFL): translated back on POSIX, always 0 on Windows. *)
GetFl(n) == IF Platform = "posix" THEN linux_flags_to_mac(flags[n]) ELSE {}

(* fcntl(F_SETFL): on Windows O_NONBLOCK is set or cleared by ioctlsocket,  *)
(* which means a socket; on what is none it changes nothing and succeeds.   *)
SetFl(n, mf) ==
    flags' = [flags EXCEPT ![n] =
                IF Platform = "posix" THEN mac_flags_to_linux(mf)
                ELSE IF socks[n] = "none" THEN @
                ELSE IF MacNONBLOCK \in mf THEN {LinuxNONBLOCK} ELSE {}]

(* The game reads the flags of a descriptor and writes them back with one   *)
(* changed: O_NONBLOCK, the only one it uses on Windows, or O_APPEND.       *)
mac_fcntl_impl(n, bit, on) ==
    /\ Calls /\ NoPassed
    /\ bit = MacAPPEND => Platform = "posix" /\ n \in files
    /\ SetFl(n, IF on THEN GetFl(n) \cup {bit} ELSE GetFl(n) \ {bit})
    /\ wanted' = [wanted EXCEPT ![n] = IF Platform = "win32" /\ socks[n] = "none" THEN @
                                       ELSE IF on THEN @ \cup {bit} ELSE @ \ {bit}]
    /\ Succeed
    /\ UNCHANGED <<socks, files, backlog, heldSocks, heldFiles, conn>>

(* The shims of a platform, and the families its host knows. *)
ToHost(platform, a) == IF platform = "posix" THEN mac_sa_to_linux(a) ELSE mac_sa_to_win(a)
ToGame(platform, h, buf_len) == IF platform = "posix" THEN linux_sa_to_mac(h, buf_len)
                                ELSE win_sa_to_mac(h, buf_len)
HostINET6(platform) == IF platform = "posix" THEN LinuxINET6 ELSE WinINET6

(* What an address means to the game, and to the host. *)
GameMeans(a) == <<CASE a.b1 = AF_INET -> "inet" [] a.b1 = MacINET6 -> "inet6"
                    [] a.b1 = AF_UNIX -> "unix" [] OTHER -> "other",
                  IF a.len >= Full(a) /\ (a.b1 = AF_UNIX /\ a.b0 > 2 => a.b0 >= Full(a))
                  THEN a.where ELSE "cut">>
HostMeans(platform, h) ==
    <<CASE h.family = AF_INET -> "inet" [] h.family = HostINET6(platform) -> "inet6"
        [] h.family = AF_UNIX -> "unix" [] OTHER -> "other", h.where>>

(* The addresses the game passes to bind and connect: the length byte may   *)
(* be left 0 or be off, the whole may be cut short, a path may be as long   *)
(* as macOS has room for.  What the shim cannot convert never reaches the   *)
(* host.                                                                    *)
GameAddrs ==
    {MacAddr(b0, family, "place", path, len) :
        b0 \in {0, 16, 28, 106}, family \in {AF_INET, MacINET6, AF_UNIX},
        path \in {14, 15, 104}, len \in {16, 17, 28, 106}}
Passable ==
    [platform \in {"posix", "win32"} |->
       {NoAddress} \cup
       {[meant |-> GameMeans(a), got |-> HostMeans(platform, ToHost(platform, a))] :
          a \in {b \in GameAddrs : /\ ToHost(platform, b) # Unrecognised
                                   /\ GameMeans(b)[2] # "cut"}}]
Passes == passed' \in Passable[Platform]
Unpassable == [platform \in {"posix", "win32"} |->
                 {a \in GameAddrs : ToHost(platform, a) = Unrecognised}]
Refuses == /\ "bad_address" \in Faults /\ Unpassable[Platform] # {}
           /\ NoPassed /\ FailSilently("EAFNOSUPPORT")

(* The addresses of peers that accept writes into the game's buffer. *)
Accepted ==
    [platform \in {"posix", "win32"} |->
       {IF family = AF_INET \/ buf_len = 28
        THEN [meant |-> HostMeans(platform, HostAddr(family, "place")),
              got |-> GameMeans(ToGame(platform, HostAddr(family, "place"), buf_len))]
        ELSE NoAddress :
          family \in {AF_INET, HostINET6(platform)}, buf_len \in {16, 28}}]

(* bind and listen; the POSIX shim makes every listener non-blocking, as    *)
(* the game would have it, the Winsock one leaves that to the game.         *)
mac_bind(n) ==
    /\ Calls /\ socks[n] = "open"
    /\ Refuses \/ (Passes /\ (Fail("EADDRINUSE", FALSE) \/ Succeed))
    /\ UNCHANGED <<hostVars, gameVars>>

mac_listen(n) ==
    /\ Calls /\ NoPassed /\ socks[n] = "open"
    /\ \/ /\ socks' = [socks EXCEPT ![n] = "listening"]
          /\ IF Platform = "posix"
             THEN /\ flags' = [flags EXCEPT ![n] = {LinuxNONBLOCK}]
                  /\ wanted' = [wanted EXCEPT ![n] = @ \cup {MacNONBLOCK}]
             ELSE UNCHANGED <<flags, wanted>>
          /\ Succeed
       \/ /\ "no_listen" \in Faults /\ FailSilently("EADDRINUSE")
          /\ UNCHANGED <<socks, flags, wanted>>
    /\ UNCHANGED <<files, backlog, heldSocks, heldFiles, conn>>

(* A call that cannot be answered yet: it fails on a non-blocking           *)
(* descriptor and waits on any other.                                       *)
NotYet(n, dontwait) ==
    /\ NoPassed
    /\ IF n \in nonblock \/ dontwait
       THEN Fail("EAGAIN", FALSE) /\ waits' = NoOne
       ELSE waits' = n /\ UNCHANGED <<errno, failed>>

(* accept: Linux gives the new socket flags of its own, Winsock the         *)
(* listener's.  The peer's address goes into a buffer of the game.  (The     *)
(* game of the model asks only while SockNums leaves a number to be given.)  *)
mac_accept(n) ==
    /\ waits \in {NoOne, n} /\ socks[n] = "listening"
    /\ \/ /\ backlog[n] > 0 /\ waits' = NoOne
          /\ \E m \in SockNums \ InUse :
                /\ socks' = [socks EXCEPT ![m] = "connected"]
                /\ flags' = [flags EXCEPT ![m] = IF Platform = "win32" THEN flags[n] ELSE {}]
                /\ heldSocks' = heldSocks \cup {m}
                /\ conn' = [conn EXCEPT ![m] = "established"]
                /\ wanted' = [wanted EXCEPT ![m] = {}]
          /\ passed' \in Accepted[Platform]
          /\ backlog' = [backlog EXCEPT ![n] = @ - 1]
          /\ Succeed
       \/ /\ backlog[n] = 0 /\ waits = NoOne /\ SockNums \ InUse # {}
          /\ NotYet(n, FALSE)
          /\ UNCHANGED <<socks, flags, backlog, heldSocks, conn, wanted>>
    /\ UNCHANGED <<files, heldFiles>>

(* recv and send on a connection: data moves, or would have to wait, or the *)
(* connection is lost, and the game gives it up; the game may ask not to    *)
(* wait in this call, which Winsock cannot.                                 *)
RecvSend(n, mf) ==
    /\ waits \in {NoOne, n} /\ socks[n] = "connected" /\ conn[n] = "established"
    /\ \/ Succeed /\ NoPassed /\ waits' = NoOne /\ UNCHANGED <<socks, conn>>
       \/ /\ waits = NoOne
          /\ NotYet(n, Platform = "posix" /\ LinuxMsg[MacDONTWAIT] \in mac_msg_to_linux(mf))
          /\ UNCHANGED <<socks, conn>>
       \/ /\ Fail("ECONNRESET", FALSE)
          /\ NoPassed /\ waits' = NoOne
          /\ socks' = [socks EXCEPT ![n] = "open"]
          /\ conn' = [conn EXCEPT ![n] = "idle"]
    /\ UNCHANGED <<flags, files, backlog, heldSocks, heldFiles, wanted>>

(* How the host answers connect: it starts a connection, is still at it,    *)
(* reports the outcome.  Linux reports success once by returning 0, Winsock *)
(* by EISCONN; after a refusal both may start over.                         *)
Answer(to, error) == [to |-> to, error |-> error]
HostConnect(n) ==
    CASE socks[n] \in {"open", "refused"} ->
           (IF n \in nonblock THEN {Answer("connecting", "EINPROGRESS")}
            ELSE {Answer("connected", "none"), Answer("open", "ECONNREFUSED")})
           \cup (IF socks[n] = "refused" THEN {Answer("open", "ECONNREFUSED")} ELSE {})
      [] socks[n] = "connecting" /\ n \in nonblock -> {Answer("connecting", "EALREADY")}
      [] socks[n] = "connected" ->
           {Answer("connected", IF Platform = "posix" THEN "none" ELSE "EISCONN")}
      [] OTHER -> {}

(* What the game concludes from connect's result and errno. *)
Concludes(answer, number) ==
    IF answer = "none" \/ number = Mac.EISCONN THEN "established"
    ELSE IF number = Mac.ECONNREFUSED THEN "refused" ELSE "waiting"

ConnectCall(n) ==
    /\ \E a \in HostConnect(n) :
          /\ socks' = [socks EXCEPT ![n] = a.to]
          /\ IF a.error = "none" THEN Succeed ELSE Fail(a.error, TRUE)
          /\ conn' = [conn EXCEPT ![n] = Concludes(a.error, errno')]
    /\ UNCHANGED <<flags, files, backlog, heldSocks, heldFiles, wanted>>

mac_connect(n) ==
    /\ Calls /\ conn[n] \in {"idle", "waiting"} /\ socks[n] # "listening"
    /\ \/ Passes /\ ConnectCall(n)
       \/ /\ Refuses /\ conn[n] = "idle"
          /\ conn' = [conn EXCEPT ![n] = Concludes("EAFNOSUPPORT", errno')]
          /\ UNCHANGED <<hostVars, heldSocks, heldFiles, wanted>>

(* mac_close with a fault, for comparison: every number is taken for a file. *)
mac_closeFileOnly(n) == /\ files' = files \ {n}
                        /\ UNCHANGED <<socks, flags, backlog>>

(* close: on Windows getsockopt(SO_TYPE) decides whether the number is a    *)
(* socket, whatever the game means by it.                                   *)
mac_close(n) ==
    IF socks[n] # "none" /\ (Platform = "win32" \/ n \notin files)
    THEN /\ socks' = [socks EXCEPT ![n] = "none"]
         /\ flags' = [flags EXCEPT ![n] = {}]
         /\ backlog' = [backlog EXCEPT ![n] = 0]
         /\ UNCHANGED files
    ELSE /\ files' = files \ {n}
         /\ UNCHANGED <<socks, flags, backlog>>

CloseSocket(n) == /\ Calls /\ NoPassed /\ mac_close(n) /\ Succeed
                  /\ wanted' = [wanted EXCEPT ![n] = {}]
                  /\ heldSocks' = heldSocks \ {n}
                  /\ conn' = [conn EXCEPT ![n] = "idle"]
                  /\ UNCHANGED heldFiles

CloseFile(n) == /\ Calls /\ NoPassed /\ mac_close(n) /\ Succeed
                /\ wanted' = IF Platform = "posix" THEN [wanted EXCEPT ![n] = {}] ELSE wanted
                /\ heldFiles' = heldFiles \ {n}
                /\ UNCHANGED <<heldSocks, conn>>

-----------------------------------------------------------------------------
(* The network. *)
Network(n) ==
    /\ \/ /\ socks[n] = "connecting"
          /\ \E s \in {"connected", "refused"} : socks' = [socks EXCEPT ![n] = s]
          /\ UNCHANGED backlog
       \/ /\ socks[n] = "listening" /\ backlog[n] < MaxBacklog
          /\ backlog' = [backlog EXCEPT ![n] = @ + 1]
          /\ UNCHANGED socks
    /\ UNCHANGED <<flags, files, errno, failed, passed, waits, gameVars>>

Next == /\ \/ mac_socket \/ OpenFile
           \/ \E n \in heldSocks \cup heldFiles, on \in BOOLEAN, bit \in {MacNONBLOCK, MacAPPEND} :
                 mac_fcntl_impl(n, bit, on)
           \/ \E n \in heldSocks : \/ mac_bind(n) \/ mac_listen(n)
                                   \/ mac_accept(n)
                                   \/ \E mf \in {{}, {MacDONTWAIT}} : RecvSend(n, mf)
                                   \/ mac_connect(n) \/ CloseSocket(n)
           \/ \E n \in heldFiles : CloseFile(n)
           \/ \E n \in Nums : Network(n)
        /\ UNCHANGED setup

Spec == Init /\ [][Next]_vars

(* A connection attempt ends, and a game that waits for one asks again.     *)
Asks(n) == /\ n \in heldSocks /\ conn[n] = "waiting"
           /\ mac_connect(n) /\ UNCHANGED setup
Fairness == \A n \in SockNums : /\ WF_vars(socks[n] = "connecting" /\ Network(n) /\ UNCHANGED setup)
                            /\ WF_vars(Asks(n))
FairSpec == Spec /\ Fairness

-----------------------------------------------------------------------------
(* On Windows the game finds in errno, after a call that failed, the macOS  *)
(* number of the reason; unless it was a failure of those in AllFaults,     *)
(* most of which leave errno as an older failure set it.                    *)
ErrnoIsMac ==
    Faults = {} /\ Platform = "win32" /\ failed # "none" => errno = Mac[failed]

(* An address means the same to its sender and its receiver: the game's to  *)
(* the host in bind and connect, the peer's to the game in accept, for IPv4 *)
(* and IPv6 on both hosts whatever the game has in the length byte, and for *)
(* UNIX sockets on the way to Linux.  One that does not fit the length it   *)
(* comes with is not vouched for, and nor is a path that does not fit the   *)
(* length byte, if that is filled in: macOS would ignore the byte, the shim *)
(* cuts the path there.                                                     *)
AddressesSurvive ==
    passed.got = passed.meant

(* No SOCKET on Windows has the number of a file. *)
DistinctNumbers == Platform = "posix" \/ SockNums \cap FileNums = {}

(* A game that has set O_NONBLOCK on a descriptor, and not cleared it, is   *)
(* never made to wait by a call on it; nor on POSIX is one that listens and *)
(* has not cleared it since, whether it has set it or not.  (Where numbers  *)
(* are distinct.)                                                           *)
NeverWaits ==
    waits # NoOne /\ DistinctNumbers => MacNONBLOCK \notin wanted[waits]

(* The game takes a connection for established only when it is, and never   *)
(* gives up one the host still has: the numbers it reads mean the same      *)
(* thing to both, although on POSIX they are not translated.                *)
GameKnowsConnection ==
    Platform = "posix" \/ Faults = {} =>
       \A n \in heldSocks \ FileNums :
          /\ conn[n] = "established" => socks[n] = "connected"
          /\ conn[n] = "refused" => socks[n] \in {"open", "listening"}

(* The descriptors the game has not closed are those the host has open: a   *)
(* close ends the descriptor that was meant and no other, where numbers     *)
(* are distinct.                                                            *)
DescriptorsAgree ==
    DistinctNumbers =>
       heldSocks = {n \in Nums : socks[n] # "none"} /\ heldFiles = files

(* Once the host has established the connection of a non-blocking connect,  *)
(* the game that asks again learns so, unless it closes the socket or waits *)
(* in another call, where numbers are distinct.  Of a connect that is       *)
(* refused or times out this says nothing: on POSIX the number the game     *)
(* reads then is none it knows, and it may ask for ever.                    *)
ConnectNoticed ==
    \A n \in SockNums : DistinctNumbers /\ conn[n] = "waiting" /\ socks[n] = "connected"
                           ~> conn[n] = "established" \/ n \notin heldSocks \/ waits # NoOne
=============================================================================
