------------------------------ MODULE MCTiming ------------------------------
(***************************************************************************)
(* The three ways in which a command gets its completion time, for TLC: by *)
(* I/O units (the simple and KV FTLs; this module's constants), by credits *)
(* of one channel, and by LUNs behind a channel and the PCIe link.  They   *)
(* share the clock; the initial value of model says which one runs.        *)
(***************************************************************************)
EXTENDS IoUnits

VARIABLES model, ch, booked,    \* ChannelBooking
          nand, pcie, lun       \* NandTiming
mcvars == <<vars, model, ch, booked, nand, pcie, lun>>

\* A ring of three intervals, requests up to two rings ahead.
Channel == INSTANCE ChannelBooking WITH
    Entries <- 3, Interval <- 2, XferLat <- 1, Wrap <- 100, Credits <- 2,
    Sizes <- {0, 1, 3}, Ahead <- 6, MaxTime <- 8

\* Two LUNs of an SLC and a TLC latency behind rings as small.
Nand == INSTANCE NandTiming WITH
    Entries <- 3, Interval <- 2, XferLat <- 1, Wrap <- 100, Luns <- {1, 2},
    NandCredits <- 2, PcieCredits <- 2, MaxXfer <- 2, Latencies <- {1, 2},
    Sizes <- {3}, Ahead <- 1, MaxTime <- 3, MaxBusy <- 3

ASSUME ModelAssumptions ==
    /\ Channel!ChannelAssumption /\ Channel!BookingAssumption
    /\ Nand!ChannelAssumption /\ Nand!TimingAssumption

UnitsIdle   == stat = [u \in Unit |-> 0] /\ targets = {}
ChannelIdle == ch = Channel!chmodel_init(2) /\ booked = 0
NandIdle    == nand = 0 /\ pcie = 0 /\ lun = 0

MCInit ==
    \/ model = "units" /\ Init /\ ChannelIdle /\ NandIdle
    \/ model = "channel" /\ UnitsIdle /\ Channel!Init /\ NandIdle
    \/ model = "nand" /\ UnitsIdle /\ ChannelIdle /\ Nand!Init

MCNext ==
    /\ UNCHANGED model
    /\ \/ model = "units" /\ Next /\ UNCHANGED <<ch, booked, nand, pcie, lun>>
       \/ model = "channel" /\ Channel!Next /\ UNCHANGED <<stat, targets, nand, pcie, lun>>
       \/ model = "nand" /\ Nand!Next /\ UNCHANGED <<stat, targets, ch, booked>>

MCSpec == MCInit /\ [][MCNext]_mcvars

-----------------------------------------------------------------------------
\* RingIsTimeline and AnswersFromTimeline: no interval of the ring is given away
\* twice, and chmodel_request() gives the time of the reference.
BandwidthExact == model = "channel" =>
    Channel!TypeOK /\ Channel!RingIsTimeline /\ Channel!AnswersFromTimeline

\* LunTimeAdvances: ssd_advance_nand() never lets a LUN be free earlier.
LunsAdvance == [][model = "nand" => Nand!LunTimeAdvances]_mcvars
=============================================================================
