----------------------------- MODULE NandTiming -----------------------------
(***************************************************************************)
(* ssd_advance_nand(): the commands of the LUNs of one channel, which      *)
(* share the channel, and the PCIe link behind it.  The FTL asks at any    *)
(* time for a command to start then or later.                              *)
(***************************************************************************)
EXTENDS ChannelModel

CONSTANTS Luns,
          NandCredits, PcieCredits,   \* max_credits of the channel and of the link
          MaxXfer,                    \* MAX_CH_XFER_SIZE, in UNIT_XFER_SIZE
          Latencies,                  \* of the flash: SLC and TLC
          Sizes,                      \* of commands, in UNIT_XFER_SIZE
          Ahead,                      \* bound: start of a command after the clock
          MaxTime, MaxBusy            \* bounds: the clock, next_lun_avail_time

TimingAssumption ==
    /\ NandCredits \in Nat \ {0} /\ PcieCredits \in Nat \ {0} /\ MaxXfer \in Nat \ {0}
    /\ Latencies \subseteq Nat /\ Sizes \subseteq Nat \ {0}

VARIABLES nand, pcie,   \* the channel and the link
          lun,          \* next_lun_avail_time
          now           \* the clock

vars == <<nand, pcie, lun, now>>

Init == /\ nand = chmodel_init(NandCredits) /\ pcie = chmodel_init(PcieCredits)
        /\ lun = [l \in Luns |-> 0] /\ now = 0

-----------------------------------------------------------------------------
\* A command waits for its LUN; start time 0 stands for the clock.
Stime(stime) == IF stime = 0 THEN now ELSE stime
StartAtOnce(l, stime) == Stime(stime)
Start(l, stime) == Max({lun[l], Stime(stime)})

\* The chunks of a read: over the channel one after the other, and each of a host's
\* read over the link as soon as it is there.
RECURSIVE ReadChunks(_, _, _, _, _)
ReadChunks(n, p, from, units, dma) ==
    LET size == Min({units, MaxXfer})
        c    == chmodel_request(n, now, from, size)
        d    == IF dma THEN chmodel_request(p, now, c.at, size).r ELSE p
    IN  IF units = 0 THEN [nand |-> n, pcie |-> p, free |-> from]
        ELSE ReadChunks(c.r, d, c.at, units - size, dma)

\* The read: flash first, then the chunks.
NandRead(l, stime, lat, units, dma) ==
    LET r == ReadChunks(nand, pcie, Start(l, stime) + lat, units, dma) IN
    /\ nand' = r.nand /\ pcie' = r.pcie
    /\ lun' = [lun EXCEPT ![l] = r.free]

\* The write: channel first, then the flash.
NandWrite(l, stime, lat, units) ==
    LET c == chmodel_request(nand, now, Start(l, stime), units) IN
    /\ nand' = c.r
    /\ lun' = [lun EXCEPT ![l] = c.at + lat]
    /\ UNCHANGED pcie

\* Erase uses the flash alone; a no-op has no latency.
NandErase(l, stime, lat) ==
    /\ lun' = [lun EXCEPT ![l] = Start(l, stime) + lat]
    /\ UNCHANGED <<nand, pcie>>

\* ssd_advance_write_buffer() and unmapped reads: the link alone.
AdvancePcie(stime, units) ==
    /\ pcie' = chmodel_request(pcie, now, stime, units).r
    /\ UNCHANGED <<nand, lun>>

Command ==
    /\ \E l \in Luns, stime \in 0 .. now + Ahead, lat \in Latencies, units \in Sizes :
          /\ lun[l] <= MaxBusy
          /\ \/ \E dma \in BOOLEAN : NandRead(l, stime, lat, units, dma)
             \/ NandWrite(l, stime, lat, units)
             \/ NandErase(l, stime, lat)
             \/ NandErase(l, stime, 0)
             \/ AdvancePcie(stime, units)
    /\ UNCHANGED now

Tick == now' \in now + 1 .. MaxTime /\ UNCHANGED <<nand, pcie, lun>>

Next == Command \/ Tick

Spec == Init /\ [][Next]_vars

-----------------------------------------------------------------------------
(* Properties. *)

\* Of each step: next_lun_avail_time only advances.  No command, started late, at once or after
\* the ring has run out of entries, lets the LUN be free before an earlier one
\* is done with it.
LunTimeAdvances == \A l \in Luns : lun'[l] >= lun[l]
=============================================================================
