---------------------------- MODULE MacSocketsMC ----------------------------
(***************************************************************************)
(* Instances of MacSockets: two sockets and one file, on either host, with *)
(* and without failures, with numbers that differ or (on POSIX always in   *)
(* one space) one number that both a socket and a file may get.            *)
(***************************************************************************)
EXTENDS MacSockets

MCSocks == {4, 8}

Host(platform, faults, fileNums) ==
    [platform |-> platform, faults |-> faults, fileNums |-> fileNums]

MCHosts == {Host("posix", AllFaults, {4}), Host("win32", {}, {3}),
            Host("win32", AllFaults, {3}), Host("win32", {}, {4})}
=============================================================================
