----------------------------- MODULE Addresses -----------------------------
(***************************************************************************)
(* What passes through the arguments of a socket call, from                *)
(* src/loader_shims.c: addresses, whose first two bytes are a length and a *)
(* family on macOS and one 16-bit family on the hosts, and flags, which    *)
(* are sets of bits that each system numbers its own way.                  *)
(*                                                                         *)
(* Port, address, flow and scope lie at the same offsets everywhere; they  *)
(* are one value, "where", that a copy carries over whole or not at all,   *)
(* as is a path, of which only the length counts.  In the game's memory a  *)
(* path ends with a NUL.                                                   *)
(***************************************************************************)
EXTENDS Integers, TLC

(* Families: macOS, Linux and Winsock agree on these two, *)
AF_UNSPEC == 0
AF_INET   == 2
(* UNIX sockets are 1 on macOS and Linux, and IPv6 differs everywhere.      *)
AF_UNIX   == 1
MacINET6  == 30
LinuxINET6 == 10
WinINET6  == 23

(* A sockaddr of the game: two bytes, the rest, the characters of a path,   *)
(* and its length; one of a host; and what the game or the host says of an  *)
(* address it cannot use.                                                   *)
MacAddr(b0, b1, where, path, len) ==
    [b0 |-> b0, b1 |-> b1, where |-> where, path |-> path, len |-> len]
HostAddr(family, where) == [family |-> family, where |-> where]
Unrecognised == HostAddr(-1, "nowhere")

(* The bytes an address of the game needs.                                  *)
Full(a) == CASE a.b1 = MacINET6 -> 28 [] a.b1 = AF_UNIX -> 2 + a.path [] OTHER -> 16

(* Raw with a fault, for comparison: one byte is read for two. *)
RawByte(a) == a.b0

(* The first two bytes read as the host's family. *)
Raw(a) == a.b0 + 256 * a.b1

(* The copies out of an address that is long enough for its family; a       *)
(* shorter one leaves zeros.                                                *)
Reads(a) == IF a.len >= (IF a.b1 = MacINET6 THEN 28 ELSE 8) THEN a.where ELSE "nowhere"

(* What is copied whole must fit the host's sockaddr_storage, or nothing is.*)
Copied(a) == IF a.len <= 128 THEN a.where ELSE "nowhere"

(* The bytes copied of a path: as many as the length byte or, if that is    *)
(* not filled in, the length tells, and no more than Linux has room for.    *)
PathBytes(a) ==
    LET told == IF a.b0 > 2 THEN a.b0 - 2 ELSE a.len - 2
    IN  IF told > 107 THEN 107 ELSE told

mac_af_to_linux(family) == IF family = MacINET6 THEN LinuxINET6 ELSE family
mac_af_to_win(family) == IF family = MacINET6 THEN WinINET6 ELSE family

(* The host's layout is recognised by its family and copied as it is.       *)
mac_sa_to_linux(a) ==
    IF a.len < 2 THEN Unrecognised
    ELSE IF Raw(a) \in {AF_INET, LinuxINET6, AF_UNIX} THEN HostAddr(Raw(a), Copied(a))
    ELSE IF a.b1 \in {AF_INET, AF_UNSPEC} THEN HostAddr(AF_INET, Reads(a))
    ELSE IF a.b1 = MacINET6 THEN HostAddr(LinuxINET6, Reads(a))
    ELSE IF a.b1 = AF_UNIX
         THEN HostAddr(AF_UNIX, IF PathBytes(a) >= a.path THEN a.where ELSE "cut")
    ELSE HostAddr(mac_af_to_linux(a.b1), Copied(a))

mac_sa_to_win(a) ==
    IF a.len < 2 THEN Unrecognised
    ELSE IF Raw(a) \in {AF_INET, WinINET6, AF_UNSPEC} THEN HostAddr(Raw(a), Copied(a))
    ELSE IF a.b1 \in {AF_INET, AF_UNSPEC} THEN HostAddr(AF_INET, Reads(a))
    ELSE IF a.b1 = MacINET6 THEN HostAddr(WinINET6, Reads(a))
    ELSE Unrecognised

(* Into a buffer of the game, of buf_len bytes: at most that many are       *)
(* written, the number is the new length.  Other families keep the host's   *)
(* layout on Linux and are not written on Windows.                          *)
Written(b0, b1, where, buf_len) ==
    MacAddr(b0, b1, IF buf_len >= b0 THEN where ELSE "cut", 0,
            IF buf_len < b0 THEN buf_len ELSE b0)
Unwritten == MacAddr(-1, -1, "nowhere", 0, 0)

linux_sa_to_mac(h, buf_len) ==
    IF buf_len < 2 THEN Unwritten
    ELSE IF h.family = AF_INET THEN Written(16, AF_INET, h.where, buf_len)
    ELSE IF h.family = LinuxINET6 THEN Written(28, MacINET6, h.where, buf_len)
    ELSE MacAddr(h.family, 0, h.where, 0, buf_len)

win_sa_to_mac(h, buf_len) ==
    IF buf_len < 2 THEN Unwritten
    ELSE IF h.family = AF_INET THEN Written(16, AF_INET, h.where, buf_len)
    ELSE IF h.family = WinINET6 THEN Written(28, MacINET6, h.where, buf_len)
    ELSE Unwritten

-----------------------------------------------------------------------------
(* Flags are sets of the positions of their bits. *)
MacNONBLOCK   == 2     \* 0x0004
MacAPPEND     == 3     \* 0x0008
LinuxAPPEND   == 10    \* 0x0400
LinuxNONBLOCK == 11    \* 0x0800

(* mac_flags_to_linux with a fault, for comparison: bits pass unchanged. *)
mac_flags_unchanged(mf) == mf

mac_flags_to_linux(mf) ==
    (mf \ {MacNONBLOCK, MacAPPEND})
      \cup (IF MacNONBLOCK \in mf THEN {LinuxNONBLOCK} ELSE {})
      \cup (IF MacAPPEND \in mf THEN {LinuxAPPEND} ELSE {})

linux_flags_to_mac(lf) ==
    (lf \ {LinuxNONBLOCK, LinuxAPPEND})
      \cup (IF LinuxNONBLOCK \in lf THEN {MacNONBLOCK} ELSE {})
      \cup (IF LinuxAPPEND \in lf THEN {MacAPPEND} ELSE {})

(* Flags of recv and send: Linux numbers them from OOB to NOSIGNAL its own  *)
(* way, Winsock knows four.  What has no bit on the host is dropped.        *)
MacDONTWAIT == 7
LinuxMsg == (0 :> 0) @@ (1 :> 1) @@ (2 :> 2) @@ (3 :> 7) @@ (4 :> 5) @@ (5 :> 3)
            @@ (6 :> 8) @@ (MacDONTWAIT :> 6) @@ (19 :> 14)
WinMsg == (0 :> 0) @@ (1 :> 1) @@ (2 :> 2) @@ (6 :> 3)

mac_msg_to_linux(mf) == {LinuxMsg[b] : b \in mf \cap DOMAIN LinuxMsg}
mac_msg_to_win(mf) == {WinMsg[b] : b \in mf \cap DOMAIN WinMsg}
=============================================================================
