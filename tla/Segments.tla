------------------------------ MODULE Segments ------------------------------
(***************************************************************************)
(* Where the game's segments come to lie: the memory functions of          *)
(* src/loader_os_win32.c and src/loader_os_posix.c, called once for each   *)
(* row that tools/build_loader.py writes into segments.inc.                *)
(*                                                                         *)
(* A page stands for 16 KB, the unit of the game's segments.  Windows      *)
(* places new regions at multiples of a larger granule and never moves     *)
(* one; POSIX puts a fixed mapping wherever it is told to.  Meanwhile the  *)
(* host's own libraries and heap take pages of the same range.             *)
(***************************************************************************)
EXTENDS Integers, Sequences

CONSTANTS SegmentTable,  \* the rows: first page, pages, page of the file, protection
          Span,          \* pages of the range 0x100000000 .. 0x200000000
          Granule,       \* pages of dwAllocationGranularity
          HostPages      \* where the host may take a page

Pages == 0 .. Span - 1
Zero == -1               \* an anonymous page, and the "offset" of a row of them
PagesOf(s) == s.first .. s.first + s.pages - 1

ASSUME GranuleAssumption == Granule \in Nat \ {0} /\ Span \in Nat \ {0}
ASSUME SegmentAssumption ==
    /\ SegmentTable \in Seq([first : Nat, pages : Nat \ {0}, offset : Nat \cup {Zero},
                             prot : SUBSET {"read", "write", "exec"}])
    /\ \A k \in DOMAIN SegmentTable : PagesOf(SegmentTable[k]) \subseteq Pages
    /\ \A k, l \in DOMAIN SegmentTable : k # l =>
          PagesOf(SegmentTable[k]) \cap PagesOf(SegmentTable[l]) = {}

VARIABLES
    platform,            \* "posix" or "win32"
    owner,               \* of each page
    holds, prot,         \* the page of the file it holds, and its protection
    va_reservation_done,
    segment,             \* the row of segments.inc that comes next
    failed               \* why os_map_fixed returned -1

memVars == <<owner, holds, prot, va_reservation_done, segment, failed>>

Owners == {"free", "host", "reserved", "game"}
Failures == {"none", "taken", "no_memory", "file", "protect"}

SegmentsInit ==
    /\ platform \in {"posix", "win32"}
    /\ owner = [p \in Pages |-> "free"]
    /\ holds = [p \in Pages |-> Zero]
    /\ prot = [p \in Pages |-> {}]
    /\ va_reservation_done = FALSE
    /\ segment = 1 /\ failed = "none"

(* A library or the heap takes a page; only a free one, wherever it likes.  *)
HostTakes ==
    /\ \E p \in HostPages : owner[p] = "free" /\ owner' = [owner EXCEPT ![p] = "host"]
    /\ UNCHANGED <<holds, prot, va_reservation_done, segment, failed>>

-----------------------------------------------------------------------------
(* os_reserve_mach_va_range with a fault, for comparison: the range ends    *)
(* with what the file fills.                                                *)
os_reserve_filled_range ==
    LET filled == UNION {PagesOf(SegmentTable[k]) :
                           k \in {l \in DOMAIN SegmentTable : SegmentTable[l].offset # Zero}}
        granted == platform = "win32" /\ \A p \in Pages : owner[p] = "free"
    IN  /\ va_reservation_done' = granted
        /\ owner' = IF granted THEN [p \in Pages |-> IF p \in filled THEN "reserved" ELSE "free"]
                    ELSE owner
        /\ UNCHANGED <<holds, prot, segment, failed>>

(* The constructor asks for the whole range at once, before main; it gets   *)
(* all of it or, when any page is taken, nothing.  No-op on POSIX.          *)
os_reserve_mach_va_range ==
    LET granted == platform = "win32" /\ \A p \in Pages : owner[p] = "free"
    IN  /\ va_reservation_done' = granted
        /\ owner' = IF granted THEN [p \in Pages |-> "reserved"] ELSE owner
        /\ UNCHANGED <<holds, prot, segment, failed>>

-----------------------------------------------------------------------------
(* os_map_fixed on Windows.  Inside the reservation, pages are committed    *)
(* where they are; without it, VirtualAlloc rounds the address down to a    *)
(* granule and needs every granule it touches for itself.                   *)
Rounded(p) == p - (p % Granule)
Granules(s) == {p \in Pages : \E q \in PagesOf(s) : Rounded(p) = Rounded(q)}

VirtualAllocPlaces(s) ==
    IF va_reservation_done
    THEN \A p \in PagesOf(s) : owner[p] \in {"reserved", "game"}
    ELSE (\A p \in Granules(s) : owner[p] = "free") /\ Rounded(s.first) = s.first

(* After with a fault, for comparison: protection is left as it was for     *)
(* copying.                                                                 *)
AfterUnprotected(s) ==
    /\ owner' = [p \in Pages |-> IF p \in PagesOf(s) THEN "game" ELSE owner[p]]
    /\ holds' = [p \in Pages |-> IF p \notin PagesOf(s) THEN holds[p]
                                 ELSE IF s.offset = Zero THEN Zero
                                 ELSE s.offset + (p - s.first)]
    /\ prot' = [p \in Pages |-> IF p \in PagesOf(s) THEN {"read", "write"} ELSE prot[p]]

(* What both hosts leave behind when os_map_fixed returns 0: the pages of   *)
(* the row hold what the file has there, or zeros, with the protection      *)
(* asked for.                                                               *)
After(s) ==
    /\ owner' = [p \in Pages |-> IF p \in PagesOf(s) THEN "game" ELSE owner[p]]
    /\ holds' = [p \in Pages |-> IF p \notin PagesOf(s) THEN holds[p]
                                 ELSE IF s.offset = Zero THEN Zero
                                 ELSE s.offset + (p - s.first)]
    /\ prot' = [p \in Pages |-> IF p \in PagesOf(s) THEN s.prot ELSE prot[p]]

(* A row is mapped, or the first failure ends mmap_segments.  Memory may    *)
(* run out; a file shorter than the row fails its ReadFile on Windows only. *)
os_map_fixed ==
    LET s == SegmentTable[segment]
        places == platform = "posix" \/ VirtualAllocPlaces(s)
        faults == IF ~places THEN {"taken"}
                  ELSE {"no_memory"} \cup (IF s.offset # Zero THEN {"file"} ELSE {})
                                     \cup (IF s.prot # {"read", "write"} THEN {"protect"} ELSE {})
    IN  /\ segment <= Len(SegmentTable) /\ failed = "none"
        /\ \/ places /\ After(s) /\ segment' = segment + 1 /\ UNCHANGED failed
           \/ failed' \in faults /\ UNCHANGED <<owner, holds, prot, segment>>
        /\ UNCHANGED va_reservation_done

AllMapped == segment > Len(SegmentTable)

-----------------------------------------------------------------------------
(* Once all rows are through, every page of every segment is the game's and *)
(* holds what its row says, with the protection its row says: no row lies   *)
(* over another, and the host has moved into none of them.                  *)
SegmentsInPlace ==
    AllMapped => \A k \in DOMAIN SegmentTable : \A p \in PagesOf(SegmentTable[k]) :
        LET s == SegmentTable[k]
        IN  /\ owner[p] = "game" /\ prot[p] = s.prot
            /\ holds[p] = IF s.offset = Zero THEN Zero ELSE s.offset + (p - s.first)

(* A reservation keeps its word: whatever the host loads between the        *)
(* constructor and the mapping, no segment finds its place taken.  POSIX    *)
(* needs none, since a fixed mapping always gets its place.                 *)
NoRaceLost == va_reservation_done \/ platform = "posix" => failed # "taken"
=============================================================================
