------------------------------- MODULE SpiFlash -------------------------------
(***************************************************************************)
(* The flash image of main/spi_flash.c and the subcommand that reads it:   *)
(* spi_flash_read() goes through a table of regions and copies what        *)
(* overlaps, in unsigned arithmetic that wraps, into an answer filled with *)
(* 0xFF.  Checked against the memory the table describes.                  *)
(***************************************************************************)
EXTENDS Integers, Sequences, FiniteSets

CONSTANTS
    Regions,    \* spi_regions: records with start, end and data, a sequence
    AddrMod,    \* addresses are taken modulo 2^32 in the code
    MaxLen,     \* the longest read, 0x1D
    Addresses   \* addresses the console may ask for

Erased == 255

\* The table is in order, and neither end of the addresses is near it.
ASSUME FlashAssumption ==
    /\ AddrMod \in Nat /\ MaxLen \in Nat \ {0} /\ MaxLen < AddrMod
    /\ Addresses \subseteq 0..(AddrMod - 1)
    /\ Regions \in Seq([start : Nat, end : Nat, data : Seq(0..255)])
    /\ \A r \in DOMAIN Regions :
          /\ MaxLen < Regions[r].start /\ Regions[r].start <= Regions[r].end
          /\ Regions[r].end + MaxLen < AddrMod
    /\ \A r, s \in DOMAIN Regions : r < s => Regions[r].end < Regions[s].start

VARIABLES
    asked,      \* the address and length of the read, and whether it is done
    out         \* the bytes it gave, from index 0

flashVars == <<asked, out>>

FlashInit == asked = [addr |-> 0, len |-> 0, done |-> FALSE] /\ out = <<>>

-----------------------------------------------------------------------------

\* addr + len - 1
Last(addr, len) == (addr + len - 1) % AddrMod

\* A fault of the overlap test: the first region that overlaps is the last one
\* that is copied (spi_flash.c:176-181).
FirstOverlap(addr, len) ==
    LET all == {r \in DOMAIN Regions : /\ addr <= Regions[r].end
                                       /\ Last(addr, len) >= Regions[r].start}
    IN {r \in all : \A s \in all : r <= s}

\* The regions that the request overlaps.
Overlapping(addr, len) ==
    {r \in DOMAIN Regions : /\ addr <= Regions[r].end
                            /\ Last(addr, len) >= Regions[r].start}

\* The addresses copied from a region: the intersection, as long as there is data.
Copied(addr, len, r) ==
    LET start == IF addr > Regions[r].start THEN addr ELSE Regions[r].start
        end   == IF Last(addr, len) < Regions[r].end
                 THEN Last(addr, len) ELSE Regions[r].end
    IN {b \in start..end : b - Regions[r].start < Len(Regions[r].data)}

\* The bytes written after the memset(), as pairs of an index of the answer and
\* a value.
Written(addr, len) ==
    UNION {{<<b - addr, Regions[r].data[b - Regions[r].start + 1]>> :
               b \in Copied(addr, len, r)} : r \in Overlapping(addr, len)}

\* spi_flash_read().
FlashRead(addr, len) ==
    LET written == Written(addr, len)
    IN [i \in (0..(len - 1)) \cup {w[1] : w \in written} |->
          IF \E w \in written : w[1] = i
          THEN (CHOOSE w \in written : w[1] = i)[2] ELSE Erased]

\* handle_subcmd_10_spi_read(): a longer read is cut.
Read(addr, n) ==
    LET len == IF n > MaxLen THEN MaxLen ELSE n
    IN /\ asked' = [addr |-> addr, len |-> len, done |-> TRUE]
       /\ out' = FlashRead(addr, len)

\* The reply is sent, and the bytes are forgotten.
Sent ==
    /\ asked.done
    /\ asked' = [addr |-> 0, len |-> 0, done |-> FALSE]
    /\ out' = <<>>

FlashNext ==
    \/ /\ ~asked.done
       /\ \E addr \in Addresses, n \in 0..(MaxLen + 1) : Read(addr, n)
    \/ Sent

FlashSpec == FlashInit /\ [][FlashNext]_flashVars

-----------------------------------------------------------------------------

\* The memory that the table describes: a region's data, 0xFF elsewhere.
Memory(b) ==
    IF \E r \in DOMAIN Regions :
          /\ b \in Regions[r].start..Regions[r].end
          /\ b - Regions[r].start < Len(Regions[r].data)
    THEN LET r == CHOOSE r \in DOMAIN Regions :
                     b \in Regions[r].start..Regions[r].end
         IN Regions[r].data[b - Regions[r].start + 1]
    ELSE Erased

\* A read of length 0 at address 0: the end of the range, addr + len - 1, wraps
\* around to the last address of all (spi_flash.c:154, :160).
WrapsToEverything == asked.addr = 0 /\ asked.len = 0

\* A read gives just the bytes asked for, each the one the flash has at its
\* address: across any number of regions ("reads may span several adjacent
\* regions", spi_flash.c:177), with holes between them or none, also where the
\* addresses wrap and for a length of 0.  The one read left out is the one of
\* length 0 at address 0, for which this is false: see StaysInAnswer.
ReadsMemory ==
    asked.done /\ ~WrapsToEverything =>
        out = [i \in 0..(asked.len - 1) |-> Memory((asked.addr + i) % AddrMod)]

\* "Buffer de salida (al menos len bytes)", "Número de bytes a leer"
\* (spi_flash.h:21-22): a read writes only the len bytes it is asked for.  One
\* of length 0 at address 0 finds that every region overlaps it and copies
\* all their data, far behind the answer (spi_flash.c:154-171).
StaysInAnswer == asked.done => DOMAIN out \subseteq 0..(asked.len - 1)
=============================================================================
