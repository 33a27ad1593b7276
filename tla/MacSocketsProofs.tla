-------------------------- MODULE MacSocketsProofs --------------------------
(***************************************************************************)
(* Theorems about MacSockets, for any numbers of sockets and files, any    *)
(* backlog and any set of hosts.                                           *)
(*                                                                         *)
(* One invariant serves all of them.  What the last call told the game     *)
(* (Told) is settled by each call anew; that it does not wait rests on the *)
(* host's flags following the game's wishes, and that on a close never     *)
(* hitting another descriptor than the one meant.                          *)
(***************************************************************************)
EXTENDS MacSockets, TLAPS

SocketsType ==
    /\ setup \in Setups
    /\ socks \in [Nums -> SockStates] /\ flags \in [Nums -> SUBSET Int]
    /\ files \subseteq FileNums /\ backlog \in [Nums -> Nat]
    /\ waits \in Nums \cup {NoOne}
    /\ wanted \in [Nums -> SUBSET Int]
    /\ heldSocks \subseteq SockNums /\ heldFiles \subseteq FileNums
    /\ conn \in [Nums -> ConnStates]

(* Where numbers are distinct, none is a socket and a file at a time, and   *)
(* the host has each socket non-blocking that the game wants so.            *)
FlagsFollow ==
    DistinctNumbers =>
       /\ heldSocks \cap heldFiles = {}
       /\ \A n \in heldSocks : MacNONBLOCK \in wanted[n] => LinuxNONBLOCK \in flags[n]

(* The descriptors, and what the last call told the game.                   *)
Descriptors == SocketsType /\ DescriptorsAgree /\ FlagsFollow /\ GameKnowsConnection
Told == NeverWaits /\ ErrnoIsMac /\ AddressesSurvive

SocketsInv == Descriptors /\ Told

-----------------------------------------------------------------------------
LEMMA SetupFacts ==
    ASSUME setup \in Setups
    PROVE  /\ Platform \in {"posix", "win32"}
           /\ SockNums \subseteq Nums /\ FileNums \subseteq Nums /\ NoOne \notin Nums
<1>1. Setups \subseteq [platform : {"posix", "win32"}, faults : SUBSET AllFaults,
                         fileNums : SUBSET Nat]
  BY SocketAssumption
<1>2. Platform \in {"posix", "win32"}
  BY <1>1 DEF Platform
<1>3. FileNums \subseteq Nums
  BY DEF Nums, FileNums
<1>4. SockNums \subseteq Nums
  BY DEF Nums
<1>5. NoOne \notin Nums
  <2>1. \A s \in Setups : s.fileNums \subseteq Nat
    BY <1>1
  <2>2. Nums \subseteq Nat
    BY <2>1, SocketAssumption DEF Nums
  <2>3. QED BY <2>2 DEF NoOne
<1>6. QED BY <1>2, <1>3, <1>4, <1>5

(* Errno.  A call that succeeds tells no reason; one that fails where       *)
(* Winsock translates tells the right one.                                  *)
LEMMA SucceedTells == ASSUME Succeed PROVE ErrnoIsMac'
  BY DEF Succeed, ErrnoIsMac

LEMMA FailTells ==
    ASSUME setup \in Setups, UNCHANGED setup, NEW f, NEW connecting, Fail(f, connecting),
           \/ f \in {"EADDRINUSE", "EAGAIN", "ECONNRESET"} /\ connecting = FALSE
           \/ f \in {"EINPROGRESS", "EALREADY", "EISCONN", "ECONNREFUSED"} /\ connecting = TRUE
    PROVE  ErrnoIsMac'
<1> SUFFICES ASSUME Platform = "win32" PROVE errno' = Mac[f]
  BY DEF Fail, ErrnoIsMac, Platform
<1>1. errno' = mac_set_errno_from_wsa(Wsa(f), connecting)
  BY DEF Fail
<1>2. CASE f \in {"EAGAIN", "EINPROGRESS"}
  <2>1. Wsa(f) = "WSAEWOULDBLOCK"
    BY <1>2 DEF Wsa
  <2>2. errno' = IF connecting THEN 36 ELSE 35
    BY <1>1, <2>1 DEF mac_set_errno_from_wsa
  <2>3. QED BY <1>2, <2>2 DEF Mac
<1>3. CASE f \in {"EADDRINUSE", "EALREADY", "EISCONN", "ECONNREFUSED", "ECONNRESET"}
  <2>1. Wsa(f) = f
    BY <1>3 DEF Wsa
  <2>2. errno' = mac_set_errno_from_wsa(f, connecting)
    BY <1>1, <2>1
  <2>3. errno' = Stored(f) /\ f \in DOMAIN WsaCases
    BY <1>3, <2>2 DEF mac_set_errno_from_wsa, WsaCases
  <2>4. QED BY <1>3, <2>3 DEF Stored, WsaCases, Mac
<1>4. QED BY <1>2, <1>3

LEMMA SilenceTells ==
    ASSUME UNCHANGED setup, Faults # {}, NEW f, FailSilently(f) PROVE ErrnoIsMac'
  BY DEF ErrnoIsMac, Faults

(* Addresses.  The game's survive the conversion, if they are not cut.      *)
LEMMA GameAddrFacts ==
    ASSUME NEW a \in GameAddrs
    PROVE  /\ a.b1 \in {AF_INET, MacINET6, AF_UNIX} /\ a.b0 \in {0, 16, 28, 106}
           /\ a.path \in {14, 15, 104} /\ a.len \in {16, 17, 28, 106} /\ a.where = "place"
  BY DEF GameAddrs, MacAddr

(* As many bytes of a path are copied as it has, or more.                   *)
LEMMA PathCopied ==
    ASSUME NEW a \in GameAddrs, a.b1 = AF_UNIX, GameMeans(a)[2] # "cut"
    PROVE  PathBytes(a) >= a.path
<1>1. /\ a.b0 \in {0, 16, 28, 106} /\ a.path \in {14, 15, 104} /\ a.len \in {16, 17, 28, 106}
  BY GameAddrFacts
<1>2. Full(a) = 2 + a.path
  BY DEF Full, AF_UNIX, MacINET6
<1>3. a.len >= Full(a) /\ (a.b0 > 2 => a.b0 >= Full(a))
  BY DEF GameMeans
<1>4. QED BY <1>1, <1>2, <1>3 DEF PathBytes

LEMMA SentMeaning ==
    ASSUME NEW platform \in {"posix", "win32"}, NEW a \in GameAddrs,
           ToHost(platform, a) # Unrecognised, GameMeans(a)[2] # "cut"
    PROVE  HostMeans(platform, ToHost(platform, a)) = GameMeans(a)
<1> USE DEF AF_INET, AF_UNIX, AF_UNSPEC, MacINET6, LinuxINET6, WinINET6
<1>1. /\ a.b1 \in {2, 30, 1} /\ a.b0 \in {0, 16, 28, 106} /\ a.len \in {16, 17, 28, 106}
      /\ a.where = "place"
  BY GameAddrFacts
<1>2. Raw(a) = a.b0 + 256 * a.b1
  BY DEF Raw
<1>3. Raw(a) \notin {0, 1, 2, 10, 23}
  BY <1>1, <1>2
<1>4. GameMeans(a)[2] = "place" /\ a.len >= Full(a)
  BY <1>1 DEF GameMeans
<1>5. a.b1 = 30 => a.len >= 28
  BY <1>4 DEF Full
<1>6. Reads(a) = "place"
  BY <1>1, <1>5 DEF Reads
<1>7. GameMeans(a) = <<CASE a.b1 = 2 -> "inet" [] a.b1 = 30 -> "inet6" [] a.b1 = 1 -> "unix",
                       "place">>
  BY <1>1, <1>4 DEF GameMeans
<1>8. CASE platform = "posix"
  <2>1. a.b1 = 1 => PathBytes(a) >= a.path
    BY PathCopied
  <2>2. ToHost(platform, a) = HostAddr(CASE a.b1 = 2 -> 2 [] a.b1 = 30 -> 10 [] a.b1 = 1 -> 1,
                                       "place")
    BY <1>1, <1>3, <1>6, <1>8, <2>1 DEF ToHost, mac_sa_to_linux
  <2>3. QED BY <1>1, <1>7, <1>8, <2>2 DEF HostAddr, HostMeans, HostINET6
<1>9. CASE platform = "win32"
  <2>1. a.b1 # 1
    BY <1>1, <1>3, <1>9 DEF ToHost, mac_sa_to_win
  <2>2. ToHost(platform, a) = HostAddr(CASE a.b1 = 2 -> 2 [] a.b1 = 30 -> 23, "place")
    BY <1>1, <1>3, <1>6, <1>9, <2>1 DEF ToHost, mac_sa_to_win
  <2>3. QED BY <1>1, <1>7, <1>9, <2>1, <2>2 DEF HostAddr, HostMeans, HostINET6
<1>10. QED BY <1>8, <1>9

LEMMA ReceivedMeaning ==
    ASSUME NEW platform \in {"posix", "win32"}, NEW family \in {AF_INET, HostINET6(platform)},
           NEW buf_len \in {16, 28}, family = AF_INET \/ buf_len = 28
    PROVE  GameMeans(ToGame(platform, HostAddr(family, "place"), buf_len))
             = HostMeans(platform, HostAddr(family, "place"))
  BY DEF ToGame, GameMeans, HostMeans, HostINET6, Full, AF_INET, AF_UNIX, MacINET6,
         LinuxINET6, WinINET6, linux_sa_to_mac, win_sa_to_mac, Written, MacAddr, HostAddr

LEMMA NoPassedKeeps == ASSUME NoPassed PROVE AddressesSurvive'
  BY DEF NoPassed, NoAddress, AddressesSurvive

LEMMA PassesKeeps ==
    ASSUME setup \in Setups, Passes PROVE AddressesSurvive'
<1>1. CASE passed' = NoAddress
  BY <1>1, NoPassedKeeps DEF NoPassed
<1>2. CASE passed' # NoAddress
  <2>1. PICK a \in GameAddrs :
           /\ ToHost(Platform, a) # Unrecognised /\ GameMeans(a)[2] # "cut"
           /\ passed' = [meant |-> GameMeans(a), got |-> HostMeans(Platform, ToHost(Platform, a))]
    BY <1>2, SetupFacts DEF Passes, Passable
  <2>2. QED BY <2>1, SentMeaning, SetupFacts DEF AddressesSurvive
<1>3. QED BY <1>1, <1>2

LEMMA AcceptedKeeps ==
    ASSUME setup \in Setups, passed' \in Accepted[Platform] PROVE AddressesSurvive'
<1>1. PICK family \in {AF_INET, HostINET6(Platform)}, buf_len \in {16, 28} :
         passed' = IF family = AF_INET \/ buf_len = 28
                   THEN [meant |-> HostMeans(Platform, HostAddr(family, "place")),
                         got |-> GameMeans(ToGame(Platform, HostAddr(family, "place"), buf_len))]
                   ELSE NoAddress
  BY SetupFacts DEF Accepted
<1>2. CASE family = AF_INET \/ buf_len = 28
  BY <1>1, <1>2, ReceivedMeaning, SetupFacts DEF AddressesSurvive
<1>3. CASE ~(family = AF_INET \/ buf_len = 28)
  BY <1>1, <1>3, NoPassedKeeps DEF NoPassed
<1>4. QED BY <1>2, <1>3

-----------------------------------------------------------------------------
(* Waiting.  A call that is over waits on nothing; one that waits does so   *)
(* on a descriptor the game has not made non-blocking.                      *)
LEMMA CallsKeeps ==
    ASSUME waits' = NoOne PROVE NeverWaits'
  BY DEF NeverWaits

LEMMA NotYetTells ==
    ASSUME SocketsInv, UNCHANGED <<setup, flags, wanted>>, NEW n \in heldSocks,
           NEW dontwait, NotYet(n, dontwait)
    PROVE  Told' /\ waits' \in Nums \cup {NoOne}
<1>1. setup \in Setups /\ n \in Nums /\ NoOne \notin Nums /\ ErrnoIsMac
  BY SetupFacts DEF SocketsInv, Descriptors, SocketsType, Told
<1>2. AddressesSurvive'
  BY NoPassedKeeps DEF NotYet
<1>3. CASE n \in nonblock \/ dontwait
  <2>1. Fail("EAGAIN", FALSE) /\ waits' = NoOne
    BY <1>3 DEF NotYet
  <2>2. ErrnoIsMac'
    BY <1>1, <2>1, FailTells
  <2>3. QED BY <1>2, <2>1, <2>2, CallsKeeps DEF Told
<1>4. CASE ~(n \in nonblock \/ dontwait)
  <2>1. waits' = n /\ UNCHANGED <<errno, failed>>
    BY <1>4 DEF NotYet
  <2>2. LinuxNONBLOCK \notin flags[n]
    BY <1>1, <1>4 DEF nonblock
  <2>3. DistinctNumbers => MacNONBLOCK \notin wanted[n]
    BY <2>2 DEF SocketsInv, Descriptors, FlagsFollow
  <2>4. NeverWaits'
    BY <2>1, <2>3 DEF NeverWaits, DistinctNumbers, Platform, FileNums
  <2>5. ErrnoIsMac'
    BY <1>1, <2>1 DEF ErrnoIsMac, Faults, Platform
  <2>6. QED BY <1>1, <1>2, <2>1, <2>4, <2>5 DEF Told
<1>5. QED BY <1>3, <1>4

(* A call that changes no descriptor keeps what is known of them.           *)
LEMMA DescriptorsStay ==
    ASSUME Descriptors, UNCHANGED <<setup, hostVars, gameVars>>, waits' \in Nums \cup {NoOne}
    PROVE  Descriptors'
  BY DEF Descriptors, SocketsType, DescriptorsAgree, FlagsFollow, GameKnowsConnection,
         DistinctNumbers, Nums, Platform, Faults, FileNums, hostVars, gameVars

(* What every call starts from.                                             *)
LEMMA CallFacts ==
    ASSUME SocketsInv, UNCHANGED setup
    PROVE  /\ setup \in Setups /\ setup' = setup
           /\ Platform \in {"posix", "win32"}
           /\ SockNums \subseteq Nums /\ FileNums \subseteq Nums
           /\ Nums' = Nums /\ Platform' = Platform /\ Faults' = Faults
           /\ FileNums' = FileNums /\ DistinctNumbers' = DistinctNumbers
           /\ heldSocks \subseteq Nums /\ heldFiles \subseteq Nums
  BY SetupFacts DEF SocketsInv, Descriptors, SocketsType, Nums, Platform, Faults,
     FileNums, DistinctNumbers

(* No file where numbers are distinct has the number of a socket in use.    *)
LEMMA Distinct ==
    ASSUME SocketsInv, DistinctNumbers
    PROVE  /\ heldSocks = {n \in Nums : socks[n] # "none"} /\ heldFiles = files
           /\ heldSocks \cap heldFiles = {}
           /\ \A n \in heldSocks : MacNONBLOCK \in wanted[n] => LinuxNONBLOCK \in flags[n]
  BY DEF SocketsInv, Descriptors, DescriptorsAgree, FlagsFollow

-----------------------------------------------------------------------------
(* Each call, and the network, keeps the invariant.                         *)
LEMMA SocketStep == ASSUME SocketsInv, UNCHANGED setup, mac_socket PROVE SocketsInv'
<1>1. waits = NoOne /\ waits' = NoOne /\ NoPassed
  BY DEF mac_socket, Calls
<1>2. CASE "no_socket" \in Faults /\ FailSilently("EMFILE") /\ UNCHANGED <<hostVars, gameVars>>
  <2>1. Descriptors'
    BY <1>1, <1>2, DescriptorsStay DEF SocketsInv
  <2>2. ErrnoIsMac'
    BY <1>2, SilenceTells
  <2>3. QED BY <1>1, <2>1, <2>2, CallsKeeps, NoPassedKeeps DEF SocketsInv, Told
<1>3. CASE ~(/\ "no_socket" \in Faults /\ FailSilently("EMFILE")
             /\ UNCHANGED <<hostVars, gameVars>>)
  <2>1. PICK n \in SockNums \ InUse :
           /\ socks' = [socks EXCEPT ![n] = "open"]
           /\ flags' = [flags EXCEPT ![n] = {}]
           /\ heldSocks' = heldSocks \cup {n}
           /\ conn' = [conn EXCEPT ![n] = "idle"]
           /\ wanted' = [wanted EXCEPT ![n] = {}]
           /\ Succeed /\ UNCHANGED <<files, backlog, heldFiles>>
    BY <1>3 DEF mac_socket
  <2>2. n \in Nums /\ socks[n] = "none" /\ (Platform = "posix" => n \notin files)
    BY <2>1, CallFacts DEF InUse
  <2>3. SocketsType'
    BY <1>1, <2>1, <2>2, CallFacts
    DEF SocketsInv, Descriptors, SocketsType, SockStates, ConnStates
  <2>4. SocketsType
    BY DEF SocketsInv, Descriptors
  <2>5. DescriptorsAgree'
    BY <2>1, <2>2, <2>4, CallFacts, Distinct DEF DescriptorsAgree, SocketsType
  <2>6. FlagsFollow'
    <3>1. SUFFICES ASSUME DistinctNumbers PROVE FlagsFollow'
      BY CallFacts DEF FlagsFollow
    <3>2. n \notin heldFiles
      BY <2>1, <2>2, <2>4, <3>1, CallFacts, Distinct DEF DistinctNumbers, SocketsType
    <3>3. QED BY <2>1, <2>2, <2>4, <3>1, <3>2, Distinct DEF FlagsFollow, SocketsType
  <2>7. GameKnowsConnection'
    BY <2>1, <2>2, <2>4, CallFacts
    DEF SocketsInv, Descriptors, GameKnowsConnection, SocketsType
  <2>8. QED BY <1>1, <2>1, <2>3, <2>5, <2>6, <2>7, SucceedTells, CallsKeeps, NoPassedKeeps
            DEF SocketsInv, Descriptors, Told
<1>4. QED BY <1>2, <1>3

LEMMA OpenFileStep == ASSUME SocketsInv, UNCHANGED setup, OpenFile PROVE SocketsInv'
<1>1. /\ waits' = NoOne /\ NoPassed /\ Succeed
      /\ UNCHANGED <<socks, backlog, heldSocks, conn>>
  BY DEF OpenFile, Calls
<1>2. PICK n \in FileNums \ (files \cup (IF Platform = "posix" THEN InUse ELSE {})) :
         /\ files' = files \cup {n}
         /\ heldFiles' = heldFiles \cup {n}
         /\ flags' = IF Platform = "posix" THEN [flags EXCEPT ![n] = {}] ELSE flags
         /\ wanted' = IF Platform = "posix" THEN [wanted EXCEPT ![n] = {}] ELSE wanted
  BY DEF OpenFile
<1>3. SocketsType /\ n \in Nums /\ (Platform = "posix" => socks[n] = "none")
  BY <1>2, CallFacts DEF InUse, SocketsInv, Descriptors
<1>4. SocketsType'
  BY <1>1, <1>2, <1>3, CallFacts DEF SocketsType
<1>5. DescriptorsAgree'
  BY <1>1, <1>2, <1>3, CallFacts, Distinct DEF DescriptorsAgree
<1>6. FlagsFollow'
  <2>1. SUFFICES ASSUME DistinctNumbers PROVE FlagsFollow'
    BY CallFacts DEF FlagsFollow
  <2>2. n \notin heldSocks
    BY <1>2, <1>3, <2>1, Distinct, CallFacts DEF DistinctNumbers, SocketsType
  <2>3. \A m \in heldSocks : flags'[m] = flags[m] /\ wanted'[m] = wanted[m]
    BY <1>2, <1>3, <2>2, CallFacts DEF SocketsType
  <2>4. QED BY <1>1, <1>2, <2>1, <2>2, <2>3, Distinct DEF FlagsFollow
<1>7. GameKnowsConnection'
  BY <1>1, CallFacts DEF SocketsInv, Descriptors, GameKnowsConnection
<1>8. QED BY <1>1, <1>4, <1>5, <1>6, <1>7, SucceedTells, CallsKeeps, NoPassedKeeps
          DEF SocketsInv, Descriptors, Told

(* The flags the host has after F_SETFL: O_NONBLOCK if the game asked for   *)
(* it, on whatever it can be set.                                           *)
LEMMA SetFlFacts ==
    ASSUME SocketsType, NEW n \in Nums, NEW mf \in SUBSET Int, SetFl(n, mf)
    PROVE  /\ flags' \in [Nums -> SUBSET Int]
           /\ \A m \in Nums \ {n} : flags'[m] = flags[m]
           /\ MacNONBLOCK \in mf /\ (Platform = "posix" \/ socks[n] # "none") =>
                 LinuxNONBLOCK \in flags'[n]
<1>1. mac_flags_to_linux(mf) \subseteq Int
  <2>1. LinuxNONBLOCK \in Int /\ LinuxAPPEND \in Int
    BY DEF LinuxNONBLOCK, LinuxAPPEND
  <2>2. QED BY <2>1 DEF mac_flags_to_linux
<1>2. LinuxNONBLOCK \in Int /\ (MacNONBLOCK \in mf => LinuxNONBLOCK \in mac_flags_to_linux(mf))
  BY DEF mac_flags_to_linux, LinuxNONBLOCK
<1>3. flags \in [Nums -> SUBSET Int]
  BY DEF SocketsType
<1>4. PICK new \in SUBSET Int :
         /\ flags' = [flags EXCEPT ![n] = new]
         /\ MacNONBLOCK \in mf /\ (Platform = "posix" \/ socks[n] # "none") =>
               LinuxNONBLOCK \in new
  <2>1. CASE Platform = "posix"
    <3>1. flags' = [flags EXCEPT ![n] = mac_flags_to_linux(mf)]
      BY <2>1 DEF SetFl
    <3>2. QED BY <1>1, <1>2, <3>1
  <2>2. CASE Platform # "posix" /\ socks[n] = "none"
    <3>1. flags' = [flags EXCEPT ![n] = flags[n]]
      BY <2>2 DEF SetFl
    <3>2. QED BY <1>3, <2>2, <3>1
  <2>3. CASE Platform # "posix" /\ socks[n] # "none"
    <3>1. flags' = [flags EXCEPT ![n] = IF MacNONBLOCK \in mf THEN {LinuxNONBLOCK} ELSE {}]
      BY <2>3 DEF SetFl
    <3>2. (IF MacNONBLOCK \in mf THEN {LinuxNONBLOCK} ELSE {}) \in SUBSET Int
      BY <1>2
    <3>3. QED BY <3>1, <3>2
  <2>4. QED BY <2>1, <2>2, <2>3
<1>5. QED BY <1>3, <1>4

LEMMA FcntlStep ==
    ASSUME SocketsInv, UNCHANGED setup, NEW n \in heldSocks \cup heldFiles,
           NEW bit \in {MacNONBLOCK, MacAPPEND}, NEW on \in BOOLEAN,
           mac_fcntl_impl(n, bit, on)
    PROVE  SocketsInv'
<1> DEFINE mf == IF on THEN GetFl(n) \cup {bit} ELSE GetFl(n) \ {bit}
           wish == IF Platform = "win32" /\ socks[n] = "none" THEN wanted[n]
                   ELSE IF on THEN wanted[n] \cup {bit} ELSE wanted[n] \ {bit}
<1>1. /\ waits' = NoOne /\ NoPassed /\ Succeed /\ SetFl(n, mf)
      /\ bit = MacAPPEND => Platform = "posix"
      /\ wanted' = [wanted EXCEPT ![n] = wish]
      /\ UNCHANGED <<socks, files, backlog, heldSocks, heldFiles, conn>>
  BY DEF mac_fcntl_impl, Calls
<1>2. SocketsType /\ n \in Nums /\ bit \in Int
  BY CallFacts DEF SocketsInv, Descriptors, MacNONBLOCK, MacAPPEND
<1>3. GetFl(n) \in SUBSET Int /\ mf \in SUBSET Int
  BY <1>2 DEF GetFl, linux_flags_to_mac, SocketsType, MacNONBLOCK, MacAPPEND
<1>4. wish \in SUBSET Int
  BY <1>2 DEF SocketsType
<1>5. SocketsType'
  BY <1>1, <1>2, <1>3, <1>4, CallFacts, SetFlFacts DEF SocketsType
<1>6. DescriptorsAgree' /\ GameKnowsConnection'
  BY <1>1, CallFacts, Distinct
  DEF SocketsInv, Descriptors, DescriptorsAgree, GameKnowsConnection
<1>7. FlagsFollow'
  <2>1. SUFFICES ASSUME DistinctNumbers PROVE FlagsFollow'
    BY CallFacts DEF FlagsFollow
  <2>2. ASSUME NEW m \in heldSocks \ {n}
        PROVE  MacNONBLOCK \in wanted'[m] => LinuxNONBLOCK \in flags'[m]
    <3>1. flags'[m] = flags[m]
      BY <1>1, <1>2, <1>3, CallFacts, SetFlFacts
    <3>2. wanted'[m] = wanted[m]
      BY <1>1, <1>2, CallFacts DEF SocketsType
    <3>3. QED BY <2>1, <3>1, <3>2, Distinct
  <2>3. ASSUME n \in heldSocks, MacNONBLOCK \in wanted'[n] PROVE LinuxNONBLOCK \in flags'[n]
    <3>1. socks[n] # "none"
      BY <2>1, <2>3, Distinct
    <3>2. MacNONBLOCK \in wish /\ wish = IF on THEN wanted[n] \cup {bit} ELSE wanted[n] \ {bit}
      BY <1>1, <1>2, <2>3, <3>1 DEF SocketsType
    <3>3. MacNONBLOCK \in mf
      <4>1. CASE bit = MacNONBLOCK
        BY <3>2, <4>1
      <4>2. CASE bit # MacNONBLOCK
        <5>1. Platform = "posix" /\ MacNONBLOCK \in wanted[n]
          BY <1>1, <3>2, <4>2
        <5>2. LinuxNONBLOCK \in flags[n]
          BY <2>1, <2>3, <5>1, Distinct
        <5>3. MacNONBLOCK \in GetFl(n)
          BY <5>1, <5>2 DEF GetFl, linux_flags_to_mac
        <5>4. QED BY <4>2, <5>3
      <4>3. QED BY <4>1, <4>2
    <3>4. QED BY <1>2, <1>3, <1>1, <3>1, <3>3, SetFlFacts
  <2>4. QED BY <1>1, <2>1, <2>2, <2>3, Distinct DEF FlagsFollow
<1>8. QED BY <1>1, <1>5, <1>6, <1>7, SucceedTells, CallsKeeps, NoPassedKeeps
          DEF SocketsInv, Descriptors, Told

LEMMA BindStep ==
    ASSUME SocketsInv, UNCHANGED setup, NEW n \in heldSocks, mac_bind(n) PROVE SocketsInv'
<1>1. waits' = NoOne /\ UNCHANGED <<hostVars, gameVars>>
  BY DEF mac_bind, Calls
<1>2. Descriptors'
  BY <1>1, DescriptorsStay DEF SocketsInv
<1>3. ErrnoIsMac' /\ AddressesSurvive'
  <2>1. CASE Refuses
    <3>1. Faults # {} /\ FailSilently("EAFNOSUPPORT") /\ NoPassed
      BY <2>1 DEF Refuses
    <3>2. QED BY <3>1, SilenceTells, NoPassedKeeps
  <2>2. CASE Passes /\ Fail("EADDRINUSE", FALSE)
    BY <2>2, CallFacts, FailTells, PassesKeeps
  <2>3. CASE Passes /\ Succeed
    BY <2>3, CallFacts, SucceedTells, PassesKeeps
  <2>4. QED BY <2>1, <2>2, <2>3 DEF mac_bind
<1>4. QED BY <1>1, <1>2, <1>3, CallsKeeps DEF SocketsInv, Told

LEMMA ListenStep ==
    ASSUME SocketsInv, UNCHANGED setup, NEW n \in heldSocks, mac_listen(n) PROVE SocketsInv'
<1>1. /\ waits' = NoOne /\ NoPassed /\ socks[n] = "open"
      /\ UNCHANGED <<files, backlog, heldSocks, heldFiles, conn>>
  BY DEF mac_listen, Calls
<1>2. CASE "no_listen" \in Faults /\ FailSilently("EADDRINUSE") /\ UNCHANGED <<socks, flags, wanted>>
  <2>1. Descriptors'
    BY <1>1, <1>2, DescriptorsStay DEF SocketsInv, hostVars, gameVars
  <2>2. ErrnoIsMac'
    BY <1>2, SilenceTells
  <2>3. QED BY <1>1, <2>1, <2>2, CallsKeeps, NoPassedKeeps DEF SocketsInv, Told
<1>3. CASE /\ socks' = [socks EXCEPT ![n] = "listening"]
           /\ IF Platform = "posix"
              THEN /\ flags' = [flags EXCEPT ![n] = {LinuxNONBLOCK}]
                   /\ wanted' = [wanted EXCEPT ![n] = @ \cup {MacNONBLOCK}]
              ELSE UNCHANGED <<flags, wanted>>
           /\ Succeed
  <2>1. SocketsType /\ n \in Nums
    BY CallFacts DEF SocketsInv, Descriptors
  <2>2. {LinuxNONBLOCK} \subseteq Int /\ MacNONBLOCK \in Int
    BY DEF LinuxNONBLOCK, MacNONBLOCK
  <2>3. flags' \in [Nums -> SUBSET Int] /\ wanted' \in [Nums -> SUBSET Int]
    BY <1>3, <2>1, <2>2 DEF SocketsType
  <2>4. SocketsType'
    BY <1>1, <1>3, <2>1, <2>3, CallFacts DEF SocketsType, SockStates
  <2>5. DescriptorsAgree'
    BY <1>1, <1>3, <2>1, CallFacts, Distinct DEF DescriptorsAgree, SocketsType
  <2>6. FlagsFollow'
    <3>1. \A m \in heldSocks : \/ wanted'[m] = wanted[m] /\ flags'[m] = flags[m]
                             \/ LinuxNONBLOCK \in flags'[m]
      BY <1>3, <2>1, CallFacts DEF SocketsType
    <3>2. QED BY <1>1, <3>1, CallFacts, Distinct DEF FlagsFollow
  <2>7. GameKnowsConnection'
    BY <1>1, <1>3, <2>1, CallFacts
    DEF SocketsInv, Descriptors, GameKnowsConnection, SocketsType
  <2>8. QED BY <1>1, <1>3, <2>4, <2>5, <2>6, <2>7, SucceedTells, CallsKeeps, NoPassedKeeps
            DEF SocketsInv, Descriptors, Told
<1>4. QED BY <1>2, <1>3 DEF mac_listen

LEMMA AcceptStep ==
    ASSUME SocketsInv, UNCHANGED setup, NEW n \in heldSocks, mac_accept(n) PROVE SocketsInv'
<1>1. socks[n] = "listening" /\ UNCHANGED <<files, heldFiles>>
  BY DEF mac_accept
<1>2. SocketsType /\ n \in Nums
  BY CallFacts DEF SocketsInv, Descriptors
<1>3. CASE /\ NotYet(n, FALSE)
           /\ UNCHANGED <<socks, flags, backlog, heldSocks, conn, wanted>>
  <2>1. Told' /\ waits' \in Nums \cup {NoOne}
    BY <1>3, NotYetTells
  <2>2. Descriptors'
    BY <1>1, <1>3, <2>1, DescriptorsStay DEF SocketsInv, hostVars, gameVars
  <2>3. QED BY <2>1, <2>2 DEF SocketsInv
<1>4. CASE ~(/\ NotYet(n, FALSE)
             /\ UNCHANGED <<socks, flags, backlog, heldSocks, conn, wanted>>)
  <2>1. /\ backlog[n] > 0 /\ waits' = NoOne /\ Succeed /\ passed' \in Accepted[Platform]
        /\ backlog' = [backlog EXCEPT ![n] = @ - 1]
    BY <1>4 DEF mac_accept
  <2>2. PICK m \in SockNums \ InUse :
           /\ socks' = [socks EXCEPT ![m] = "connected"]
           /\ flags' = [flags EXCEPT ![m] = IF Platform = "win32" THEN flags[n] ELSE {}]
           /\ heldSocks' = heldSocks \cup {m}
           /\ conn' = [conn EXCEPT ![m] = "established"]
           /\ wanted' = [wanted EXCEPT ![m] = {}]
    BY <1>4 DEF mac_accept
  <2>3. m \in Nums /\ socks[m] = "none" /\ (Platform = "posix" => m \notin files)
    BY <2>2, CallFacts DEF InUse
  <2>4. SocketsType'
    <3>1. backlog' \in [Nums -> Nat]
      BY <1>2, <2>1 DEF SocketsType
    <3>2. (IF Platform = "win32" THEN flags[n] ELSE {}) \in SUBSET Int
      BY <1>2 DEF SocketsType
    <3>3. flags' \in [Nums -> SUBSET Int] /\ wanted' \in [Nums -> SUBSET Int]
      BY <1>2, <2>2, <3>2 DEF SocketsType
    <3>4. socks' \in [Nums -> SockStates] /\ conn' \in [Nums -> ConnStates]
      BY <1>2, <2>2 DEF SocketsType, SockStates, ConnStates
    <3>5. QED BY <1>1, <1>2, <2>1, <2>2, <3>1, <3>3, <3>4, CallFacts DEF SocketsType
  <2>5. DescriptorsAgree'
    BY <1>1, <1>2, <2>2, <2>3, CallFacts, Distinct DEF DescriptorsAgree, SocketsType
  <2>6. FlagsFollow'
    <3>1. SUFFICES ASSUME DistinctNumbers PROVE FlagsFollow'
      BY CallFacts DEF FlagsFollow
    <3>2. m \notin heldFiles
      BY <1>2, <2>2, <2>3, <3>1, Distinct DEF DistinctNumbers, SocketsType
    <3>3. MacNONBLOCK \notin wanted'[m]
      BY <1>2, <2>2, <2>3 DEF SocketsType
    <3>4. \A k \in heldSocks \ {m} : wanted'[k] = wanted[k] /\ flags'[k] = flags[k]
      BY <1>2, <2>2, CallFacts DEF SocketsType
    <3>5. QED BY <1>1, <2>2, <3>1, <3>2, <3>3, <3>4, Distinct DEF FlagsFollow
  <2>7. GameKnowsConnection'
    BY <1>2, <2>2, <2>3, CallFacts
    DEF SocketsInv, Descriptors, GameKnowsConnection, SocketsType
  <2>8. AddressesSurvive'
    BY <2>1, CallFacts, AcceptedKeeps
  <2>9. QED BY <2>1, <2>4, <2>5, <2>6, <2>7, <2>8, SucceedTells, CallsKeeps
            DEF SocketsInv, Descriptors, Told
<1>5. QED BY <1>3, <1>4

LEMMA RecvSendStep ==
    ASSUME SocketsInv, UNCHANGED setup, NEW n \in heldSocks, NEW mf, RecvSend(n, mf)
    PROVE  SocketsInv'
<1> DEFINE dontwait == Platform = "posix" /\ LinuxMsg[MacDONTWAIT] \in mac_msg_to_linux(mf)
<1>1. UNCHANGED <<flags, files, backlog, heldSocks, heldFiles, wanted>>
  BY DEF RecvSend
<1>2. CASE UNCHANGED <<socks, conn>>
  <2>1. Told' /\ waits' \in Nums \cup {NoOne}
    <3>1. CASE Succeed /\ NoPassed /\ waits' = NoOne
      BY <3>1, SucceedTells, CallsKeeps, NoPassedKeeps DEF Told
    <3>2. CASE NotYet(n, dontwait)
      <4> HIDE DEF dontwait
      <4>1. QED BY <1>1, <3>2, NotYetTells
    <3>3. CASE NoPassed /\ waits' = NoOne /\ Fail("ECONNRESET", FALSE)
      BY <3>3, CallFacts, FailTells, CallsKeeps, NoPassedKeeps DEF Told
    <3>4. QED BY <3>1, <3>2, <3>3 DEF RecvSend
  <2>2. Descriptors'
    BY <1>1, <1>2, <2>1, DescriptorsStay DEF SocketsInv, hostVars, gameVars
  <2>3. QED BY <2>1, <2>2 DEF SocketsInv
<1>3. CASE /\ Fail("ECONNRESET", FALSE)
           /\ NoPassed /\ waits' = NoOne
           /\ socks' = [socks EXCEPT ![n] = "open"]
           /\ conn' = [conn EXCEPT ![n] = "idle"]
  <2>1. Told'
    BY <1>3, CallFacts, FailTells, CallsKeeps, NoPassedKeeps DEF Told
  <2>2. SocketsType /\ n \in Nums /\ socks[n] = "connected"
    BY CallFacts DEF SocketsInv, Descriptors, RecvSend
  <2>3. SocketsType'
    BY <1>1, <1>3, <2>2, CallFacts DEF SocketsType, SockStates, ConnStates
  <2>4. DescriptorsAgree'
    BY <1>1, <1>3, <2>2, CallFacts, Distinct DEF DescriptorsAgree, SocketsType
  <2>5. FlagsFollow'
    BY <1>1, CallFacts, Distinct DEF FlagsFollow
  <2>6. GameKnowsConnection'
    BY <1>1, <1>3, <2>2, CallFacts
    DEF SocketsInv, Descriptors, GameKnowsConnection, SocketsType
  <2>7. QED BY <2>1, <2>3, <2>4, <2>5, <2>6 DEF SocketsInv, Descriptors
<1>4. QED BY <1>2, <1>3 DEF RecvSend

(* What the game concludes from an answer of the host is so; and it is      *)
(* never wrong about a number it does not know.                             *)
LEMMA AnswerFacts ==
    ASSUME SocketsInv, NEW n \in Nums, NEW a \in HostConnect(n)
    PROVE  /\ a.to \in {"connecting", "connected", "open"} /\ socks[n] # "none"
           /\ \/ a.error = "none" /\ a.to = "connected"
              \/ a.error \in {"EINPROGRESS", "EALREADY"} /\ a.to = "connecting"
              \/ a.error = "ECONNREFUSED" /\ a.to = "open"
              \/ a.error = "EISCONN" /\ a.to = "connected"
<1>1. CASE socks[n] \in {"open", "refused"}
  BY <1>1 DEF HostConnect, Answer
<1>2. CASE socks[n] = "connecting" /\ n \in nonblock
  BY <1>2 DEF HostConnect, Answer
<1>3. CASE socks[n] = "connected"
  BY <1>3 DEF HostConnect, Answer
<1>4. CASE ~(\/ socks[n] \in {"open", "refused"} \/ socks[n] = "connected"
             \/ socks[n] = "connecting" /\ n \in nonblock)
  <2>1. HostConnect(n) = {}
    BY <1>4 DEF HostConnect
  <2>2. QED BY <2>1
<1>5. QED BY <1>1, <1>2, <1>3, <1>4

LEMMA ConclusionFacts ==
    ASSUME NEW platform \in {"posix", "win32"},
           NEW f \in {"EINPROGRESS", "EALREADY", "ECONNREFUSED", "EISCONN", "EAFNOSUPPORT"},
           NEW number,
           number = IF platform = "posix" THEN Linux[f] ELSE Mac[f]
    PROVE  /\ Concludes(f, number) = "established" => f = "EISCONN"
           /\ Concludes(f, number) = "refused" => f = "ECONNREFUSED"
           /\ Concludes(f, number) \in ConnStates
  BY DEF Concludes, Linux, Mac, ConnStates

LEMMA ConnectStep ==
    ASSUME SocketsInv, UNCHANGED setup, NEW n \in heldSocks, mac_connect(n) PROVE SocketsInv'
<1>1. SocketsType /\ n \in Nums /\ waits' = NoOne
  BY CallFacts DEF SocketsInv, Descriptors, mac_connect, Calls
<1>2. UNCHANGED <<flags, files, backlog, heldSocks, heldFiles, wanted>>
  BY DEF mac_connect, ConnectCall, hostVars
<1>3. CASE Passes /\ ConnectCall(n)
  <2>1. PICK a \in HostConnect(n) :
           /\ socks' = [socks EXCEPT ![n] = a.to]
           /\ IF a.error = "none" THEN Succeed ELSE Fail(a.error, TRUE)
           /\ conn' = [conn EXCEPT ![n] = Concludes(a.error, errno')]
    BY <1>3 DEF ConnectCall
  <2>2. PICK to, f : to = a.to /\ f = a.error
    OBVIOUS
  <2>3. /\ to \in {"connecting", "connected", "open"} /\ socks[n] # "none"
        /\ \/ f = "none" /\ to = "connected"
           \/ f \in {"EINPROGRESS", "EALREADY"} /\ to = "connecting"
           \/ f = "ECONNREFUSED" /\ to = "open"
           \/ f = "EISCONN" /\ to = "connected"
    BY <1>1, <2>2, AnswerFacts
  <2>4. ErrnoIsMac'
    BY <2>1, <2>2, <2>3, CallFacts, SucceedTells, FailTells
  <2>5. PICK c : c = Concludes(f, errno')
    OBVIOUS
  <2>6. /\ c \in ConnStates
        /\ Platform = "posix" \/ Faults = {} =>
              (c = "established" => to = "connected") /\ (c = "refused" => to = "open")
    <3>1. c \in ConnStates
      BY <2>5 DEF Concludes, ConnStates
    <3>2. CASE f = "none"
      BY <2>3, <2>5, <3>1, <3>2 DEF Concludes
    <3>3. CASE f # "none" /\ (Platform = "posix" \/ Faults = {})
      <4>1. Fail(f, TRUE)
        BY <2>1, <2>2, <3>3
      <4>2. errno' = IF Platform = "posix" THEN Linux[f] ELSE Mac[f]
        BY <2>4, <3>3, <4>1, CallFacts DEF Fail, ErrnoIsMac
      <4>3. f \in {"EINPROGRESS", "EALREADY", "ECONNREFUSED", "EISCONN", "EAFNOSUPPORT"}
        BY <2>3, <3>3
      <4>4. QED BY <2>3, <2>5, <3>1, <3>3, <4>2, <4>3, CallFacts, ConclusionFacts
    <3>4. QED BY <3>1, <3>2, <3>3
  <2>7. socks' = [socks EXCEPT ![n] = to] /\ conn' = [conn EXCEPT ![n] = c]
    BY <2>1, <2>2, <2>5
  <2>8. SocketsType'
    BY <1>1, <1>2, <2>3, <2>6, <2>7, CallFacts DEF SocketsType, SockStates
  <2>9. DescriptorsAgree'
    BY <1>1, <1>2, <2>3, <2>7, CallFacts, Distinct DEF DescriptorsAgree, SocketsType
  <2>10. FlagsFollow'
    BY <1>2, CallFacts, Distinct DEF FlagsFollow
  <2>11. GameKnowsConnection'
    BY <1>1, <1>2, <2>6, <2>7, CallFacts
    DEF SocketsInv, Descriptors, GameKnowsConnection, SocketsType
  <2>12. AddressesSurvive'
    BY <1>3, CallFacts, PassesKeeps
  <2>13. QED BY <1>1, <2>4, <2>8, <2>9, <2>10, <2>11, <2>12, CallsKeeps
             DEF SocketsInv, Descriptors, Told
<1>4. CASE /\ Refuses /\ UNCHANGED <<hostVars, heldSocks, heldFiles, wanted>>
           /\ conn' = [conn EXCEPT ![n] = Concludes("EAFNOSUPPORT", errno')]
  <2>1. Faults # {} /\ FailSilently("EAFNOSUPPORT") /\ NoPassed
    BY <1>4 DEF Refuses
  <2>2. PICK c : c = Concludes("EAFNOSUPPORT", errno')
    OBVIOUS
  <2>3. c \in ConnStates
    BY <2>2 DEF Concludes, ConnStates
  <2>4. Platform = "posix" => c \notin {"established", "refused"}
    BY <2>1, <2>2 DEF FailSilently, Concludes, Linux, Mac
  <2>5. conn' = [conn EXCEPT ![n] = c] /\ UNCHANGED <<hostVars, heldSocks, heldFiles, wanted>>
    BY <1>4, <2>2
  <2>6. SocketsType'
    BY <1>1, <2>3, <2>5, CallFacts DEF SocketsType, hostVars
  <2>7. DescriptorsAgree' /\ FlagsFollow'
    BY <2>5, CallFacts, Distinct DEF DescriptorsAgree, FlagsFollow, hostVars
  <2>8. GameKnowsConnection'
    BY <1>1, <2>1, <2>4, <2>5, CallFacts
    DEF SocketsInv, Descriptors, GameKnowsConnection, SocketsType, hostVars
  <2>9. QED BY <1>1, <2>1, <2>6, <2>7, <2>8, SilenceTells, CallsKeeps, NoPassedKeeps
            DEF SocketsInv, Descriptors, Told
<1>5. QED BY <1>3, <1>4 DEF mac_connect

(* Where numbers are distinct, close ends the descriptor that was meant.    *)
LEMMA CloseSocketStep ==
    ASSUME SocketsInv, UNCHANGED setup, NEW n \in heldSocks, CloseSocket(n)
    PROVE  SocketsInv'
<1>1. /\ waits' = NoOne /\ NoPassed /\ Succeed /\ mac_close(n)
      /\ wanted' = [wanted EXCEPT ![n] = {}] /\ conn' = [conn EXCEPT ![n] = "idle"]
      /\ heldSocks' = heldSocks \ {n} /\ UNCHANGED heldFiles
  BY DEF CloseSocket, Calls
<1>2. SocketsType /\ n \in Nums
  BY CallFacts DEF SocketsInv, Descriptors
<1>3. /\ socks' \in [Nums -> SockStates] /\ flags' \in [Nums -> SUBSET Int]
      /\ backlog' \in [Nums -> Nat] /\ files' \subseteq files
      /\ \A m \in Nums \ {n} : socks'[m] = socks[m] /\ flags'[m] = flags[m]
  BY <1>1, <1>2 DEF mac_close, SocketsType, SockStates
<1>4. SocketsType'
  BY <1>1, <1>2, <1>3, CallFacts DEF SocketsType, ConnStates
<1>5. DescriptorsAgree'
  <2>1. SUFFICES ASSUME DistinctNumbers PROVE DescriptorsAgree'
    BY CallFacts DEF DescriptorsAgree
  <2>2. socks[n] # "none" /\ n \notin files
    BY <2>1, Distinct
  <2>3. socks' = [socks EXCEPT ![n] = "none"] /\ files' = files
    BY <1>1, <2>2 DEF mac_close
  <2>4. QED BY <1>1, <1>2, <2>1, <2>3, CallFacts, Distinct DEF DescriptorsAgree, SocketsType
<1>6. FlagsFollow'
  <2>1. \A m \in heldSocks \ {n} : wanted'[m] = wanted[m] /\ flags'[m] = flags[m]
    BY <1>1, <1>2, <1>3, CallFacts DEF SocketsType
  <2>2. QED BY <1>1, <2>1, CallFacts, Distinct DEF FlagsFollow
<1>7. GameKnowsConnection'
  BY <1>1, <1>2, <1>3, CallFacts
  DEF SocketsInv, Descriptors, GameKnowsConnection, SocketsType
<1>8. QED BY <1>1, <1>4, <1>5, <1>6, <1>7, SucceedTells, CallsKeeps, NoPassedKeeps
          DEF SocketsInv, Descriptors, Told

LEMMA CloseFileStep ==
    ASSUME SocketsInv, UNCHANGED setup, NEW n \in heldFiles, CloseFile(n)
    PROVE  SocketsInv'
<1>1. /\ waits' = NoOne /\ NoPassed /\ Succeed /\ mac_close(n)
      /\ wanted' = IF Platform = "posix" THEN [wanted EXCEPT ![n] = {}] ELSE wanted
      /\ heldFiles' = heldFiles \ {n} /\ UNCHANGED <<heldSocks, conn>>
  BY DEF CloseFile, Calls
<1>2. SocketsType /\ n \in Nums /\ n \in FileNums
  BY CallFacts DEF SocketsInv, Descriptors, SocketsType
<1>3. /\ socks' \in [Nums -> SockStates] /\ flags' \in [Nums -> SUBSET Int]
      /\ backlog' \in [Nums -> Nat] /\ files' \subseteq files
      /\ \A m \in Nums \ {n} : socks'[m] = socks[m] /\ flags'[m] = flags[m]
  BY <1>1, <1>2 DEF mac_close, SocketsType, SockStates
<1>4. SocketsType'
  <2>1. wanted' \in [Nums -> SUBSET Int]
    BY <1>1, <1>2 DEF SocketsType
  <2>2. QED BY <1>1, <1>2, <1>3, <2>1, CallFacts DEF SocketsType
<1>5. DescriptorsAgree'
  <2>1. SUFFICES ASSUME DistinctNumbers PROVE DescriptorsAgree'
    BY CallFacts DEF DescriptorsAgree
  <2>2. socks[n] = "none"
    BY <1>2, <2>1, Distinct
  <2>3. socks' = socks /\ files' = files \ {n}
    BY <1>1, <2>2 DEF mac_close
  <2>4. QED BY <1>1, <2>1, <2>3, CallFacts, Distinct DEF DescriptorsAgree
<1>6. FlagsFollow'
  <2>1. SUFFICES ASSUME DistinctNumbers PROVE FlagsFollow'
    BY CallFacts DEF FlagsFollow
  <2>2. n \notin heldSocks
    BY <2>1, Distinct
  <2>3. \A m \in heldSocks : wanted'[m] = wanted[m] /\ flags'[m] = flags[m]
    BY <1>1, <1>2, <1>3, <2>2, CallFacts DEF SocketsType
  <2>4. QED BY <1>1, <2>1, <2>3, Distinct DEF FlagsFollow
<1>7. GameKnowsConnection'
  BY <1>1, <1>2, <1>3, CallFacts
  DEF SocketsInv, Descriptors, GameKnowsConnection, SocketsType
<1>8. QED BY <1>1, <1>4, <1>5, <1>6, <1>7, SucceedTells, CallsKeeps, NoPassedKeeps
          DEF SocketsInv, Descriptors, Told

LEMMA NetworkStep ==
    ASSUME SocketsInv, UNCHANGED setup, NEW n \in Nums, Network(n) PROVE SocketsInv'
<1>1. UNCHANGED <<flags, files, errno, failed, passed, waits, heldSocks, heldFiles, conn, wanted>>
  BY DEF Network, gameVars
<1>2. SocketsType
  BY DEF SocketsInv, Descriptors
<1>3. /\ socks' \in [Nums -> SockStates] /\ backlog' \in [Nums -> Nat]
      /\ \A m \in Nums : socks'[m] # socks[m] =>
            socks[m] = "connecting" /\ socks'[m] \in {"connected", "refused"}
  <2>1. CASE backlog' = [backlog EXCEPT ![n] = @ + 1] /\ UNCHANGED socks
    BY <1>2, <2>1 DEF SocketsType
  <2>2. CASE UNCHANGED backlog /\ socks[n] = "connecting"
    <3>1. PICK s \in {"connected", "refused"} : socks' = [socks EXCEPT ![n] = s]
      BY <2>2 DEF Network
    <3>2. QED BY <1>2, <2>2, <3>1 DEF SocketsType, SockStates
  <2>3. QED BY <2>1, <2>2 DEF Network
<1>4. SocketsType'
  BY <1>1, <1>2, <1>3, CallFacts DEF SocketsType
<1>5. DescriptorsAgree' /\ FlagsFollow'
  BY <1>1, <1>3, CallFacts, Distinct DEF DescriptorsAgree, FlagsFollow
<1>6. GameKnowsConnection'
  BY <1>1, <1>3, CallFacts DEF SocketsInv, Descriptors, GameKnowsConnection
<1>7. Told'
  BY <1>1, CallFacts
  DEF SocketsInv, Told, NeverWaits, ErrnoIsMac, AddressesSurvive
<1>8. QED BY <1>4, <1>5, <1>6, <1>7 DEF SocketsInv, Descriptors

-----------------------------------------------------------------------------
LEMMA SocketsStep == ASSUME SocketsInv, [Next]_vars PROVE SocketsInv'
<1>1. CASE UNCHANGED vars
  <2>1. /\ UNCHANGED <<setup, hostVars, gameVars>> /\ waits' = waits
        /\ UNCHANGED <<errno, failed, passed, wanted>>
    BY <1>1 DEF vars, gameVars
  <2>2. Descriptors'
    BY <2>1, DescriptorsStay DEF SocketsInv, Descriptors, SocketsType
  <2>3. Told'
    BY <2>1, CallFacts DEF SocketsInv, Told, NeverWaits, ErrnoIsMac, AddressesSurvive
  <2>4. QED BY <2>2, <2>3 DEF SocketsInv
<1>2. CASE Next
  <2>1. UNCHANGED setup
    BY <1>2 DEF Next
  <2>2. CASE mac_socket \/ OpenFile
    BY <2>1, <2>2, SocketStep, OpenFileStep
  <2>3. CASE \E n \in heldSocks \cup heldFiles, on \in BOOLEAN, bit \in {MacNONBLOCK, MacAPPEND} :
                mac_fcntl_impl(n, bit, on)
    BY <2>1, <2>3, FcntlStep
  <2>4. ASSUME NEW n \in heldSocks,
               \/ mac_bind(n) \/ mac_listen(n) \/ mac_accept(n)
               \/ \E mf \in {{}, {MacDONTWAIT}} : RecvSend(n, mf)
               \/ mac_connect(n) \/ CloseSocket(n)
        PROVE  SocketsInv'
    BY <2>1, <2>4, BindStep, ListenStep, AcceptStep, RecvSendStep, ConnectStep, CloseSocketStep
  <2>5. CASE \E n \in heldFiles : CloseFile(n)
    BY <2>1, <2>5, CloseFileStep
  <2>6. CASE \E n \in Nums : Network(n)
    BY <2>1, <2>6, NetworkStep
  <2>7. QED BY <1>2, <2>2, <2>3, <2>4, <2>5, <2>6 DEF Next
<1>3. QED BY <1>1, <1>2

LEMMA SocketsInvariant == Spec => []SocketsInv
<1>1. Init => SocketsInv
  <2> SUFFICES ASSUME Init PROVE SocketsInv
    OBVIOUS
  <2>1. SocketsType
    BY DEF Init, SocketsType, SockStates, ConnStates
  <2>2. DescriptorsAgree /\ FlagsFollow /\ GameKnowsConnection
    BY DEF Init, DescriptorsAgree, FlagsFollow, GameKnowsConnection
  <2>3. Told
    BY DEF Init, Told, NeverWaits, ErrnoIsMac, AddressesSurvive, NoAddress
  <2>4. QED BY <2>1, <2>2, <2>3 DEF SocketsInv, Descriptors
<1>2. QED BY <1>1, SocketsStep, PTL DEF Spec

(* On Windows a game whose host has no failures of those in AllFaults finds *)
(* the macOS number of each failure in errno.                               *)
THEOREM ErrnoTranslated == Spec => []ErrnoIsMac
<1>1. SocketsInv => ErrnoIsMac
  BY DEF SocketsInv, Told
<1>2. QED BY <1>1, SocketsInvariant, PTL

(* On either host an address that is not cut, by its length or by its own   *)
(* length byte, means the same to its sender and its receiver.              *)
THEOREM AddressesArrive == Spec => []AddressesSurvive
<1>1. SocketsInv => AddressesSurvive
  BY DEF SocketsInv, Told
<1>2. QED BY <1>1, SocketsInvariant, PTL

(* With any sockets, files and history of flags, where numbers are distinct *)
(* no call waits on a descriptor the game has made non-blocking.            *)
THEOREM NonblockingKept == Spec => []NeverWaits
<1>1. SocketsInv => NeverWaits
  BY DEF SocketsInv, Told
<1>2. QED BY <1>1, SocketsInvariant, PTL

(* With any number of connections, the game takes one for established only  *)
(* when it is, and for refused only when the host has given it up.          *)
THEOREM ConnectionsKnown == Spec => []GameKnowsConnection
<1>1. SocketsInv => GameKnowsConnection
  BY DEF SocketsInv, Descriptors
<1>2. QED BY <1>1, SocketsInvariant, PTL

(* With any sockets and files whose numbers are distinct, the host has open *)
(* exactly what the game has not closed.                                    *)
THEOREM ClosesWhatIsMeant == Spec => []DescriptorsAgree
<1>1. SocketsInv => DescriptorsAgree
  BY DEF SocketsInv, Descriptors
<1>2. QED BY <1>1, SocketsInvariant, PTL
=============================================================================
