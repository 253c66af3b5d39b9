-------------------------- MODULE ControllerProofs --------------------------
(***************************************************************************)
(* No admin command is taken before the pages of the admin queue are       *)
(* known, every completion answers a command of the driver, and the I/O    *)
(* queues that the driver believes in exist, over resets and shutdowns,    *)
(* for admin queues of any depth and any number of I/O queues.             *)
(*                                                                         *)
(* The dispatcher learns of a write of CC in a pass that began after the   *)
(* last write of an address, so it has found the addresses equal to its    *)
(* copies (Registers, Driver); it then takes no admin command unless the   *)
(* driver is up (Idle), and both sides begin at the start of empty rings   *)
(* (Begins).  While the driver is up there are r commands reaped and t     *)
(* taken of those sent, from which all positions, phases and entries of    *)
(* both rings follow (Serves); only the oldest command may be one on       *)
(* queues, and until it is reaped the driver's queues are the device's but *)
(* for that command.                                                       *)
(***************************************************************************)
EXTENDS Controller, SumLemmas

States == {"off", "aqa", "asq", "acq", "enabling", "up", "shutdown", "disable", "disabling"}
On == [en |-> 1, shn |-> 0]
Shn == [en |-> 1, shn |-> 1]
Slots == 0 .. Depth - 1
Pages == Addrs \union {0}
Cells == [cmd : Nat, op : AdminOps \union {"none"}, qid : Nat, phase : {0, 1}]

\* The registers, queues and the driver's state have their types.
Types ==
    /\ bar \in [aqa : {0, Depth}, asq : Pages, acq : Pages, cc : {Off, On, Shn},
                rdy : {0, 1}, shst : {0, 2}]
    /\ old_bar \in [aqa : {0, Depth}, asq : Pages, acq : Pages, cc : {Off, On, Shn}]
    /\ dbs \in [sq : Slots, cq : Slots] /\ old_dbs \in [sq : Slots, cq : Slots]
    /\ admin_q \in [sq : Pages, cq : Pages, depth : {0, Depth}, head : Slots, phase : {0, 1}]
    /\ scan \in [at : {"aqa", "asq", "acq", "cc", "dbs", "admin"}, curr : Slots, new : Slots]
    /\ mem \in [sq : [Addrs -> [Slots -> Cells]], cq : [Addrs -> [Slots -> Cells]]]
    /\ host \in [st : States, tail : Slots, head : Slots, phase : {0, 1},
                 sq : Pages, cq : Pages]
    /\ sent \in 0 .. MaxCmds /\ out \subseteq 1 .. MaxCmds
    /\ hSq \subseteq Queues /\ hCq \subseteq Queues
    /\ granted \in 0 .. NrMaxQueue /\ nr_queues \in 0 .. NrMaxQueue
    /\ sqes \in [Queues -> 0 .. NrMaxQueue] /\ cqes \in [Queues -> BOOLEAN]
    /\ fresh \in BOOLEAN /\ fault = FALSE

AllSeen == /\ old_bar.aqa = bar.aqa /\ old_bar.asq = bar.asq /\ old_bar.acq = bar.acq

\* The device's copies of the registers; a pass that began after the last write
\* of an address has compared those it is past.
Registers ==
    /\ admin_q.sq = old_bar.asq /\ admin_q.cq = old_bar.acq /\ admin_q.depth = old_bar.aqa
    /\ bar.aqa = IF host.sq = 0 THEN 0 ELSE Depth
    /\ bar.rdy = old_bar.cc.en
    /\ old_bar.cc.en = 1 => AllSeen
    /\ fresh => /\ scan.at \in {"asq", "acq", "cc"} => old_bar.aqa = bar.aqa
                /\ scan.at \in {"acq", "cc"} => old_bar.asq = bar.asq
                /\ scan.at = "cc" => old_bar.acq = bar.acq

\* Where the driver is, and what it has written.
Driver ==
    /\ host.st # "off" => host.sq # 0 /\ host.cq # 0
    /\ IF host.st = "aqa" THEN bar.asq # host.sq /\ old_bar.asq = bar.asq
       ELSE bar.asq = host.sq
    /\ IF host.st \in {"aqa", "asq"} THEN bar.acq # host.cq /\ old_bar.acq = bar.acq
       ELSE bar.acq = host.cq
    /\ host.st \in {"off", "up", "shutdown", "disable", "disabling"} => AllSeen
    /\ host.st \in {"enabling", "up", "shutdown", "disable", "disabling"} => fresh
    /\ host.st \in {"off", "aqa", "asq", "acq"} => bar.cc = Off /\ old_bar.cc = Off
    /\ host.st = "enabling" => bar.cc = On /\ old_bar.cc \in {Off, On}
    /\ host.st = "up" => bar.cc = On /\ old_bar.cc = On
    /\ host.st = "shutdown" => bar.cc = Shn /\ old_bar.cc.en = 1
    /\ host.st = "disable" => bar.cc.en = 1 /\ old_bar.cc.en = 1
    /\ host.st = "disabling" => bar.cc = Off

\* No command is taken unless the driver is up.
Idle == host.st # "up" => dbs.sq = old_dbs.sq /\ scan.at # "admin"

\* Both sides begin at the start of empty rings.
Begins ==
    host.st \in {"aqa", "asq", "acq", "enabling"} =>
        /\ host.tail = 0 /\ host.head = 0 /\ host.phase = 1 /\ sent = 0
        /\ out = {} /\ hSq = {} /\ hCq = {} /\ granted = 0
        /\ mem.sq[host.sq] = Empty /\ mem.cq[host.cq] = Empty
        /\ old_bar.asq = host.sq => dbs.sq = 0
        /\ old_bar.acq = host.cq => admin_q.head = 0 /\ admin_q.phase = 1

\* The phase of the entry that answers command k + 1.
Lap(k) == IF (k % (2 * Depth)) < Depth THEN 1 ELSE 0

SqCell(k) == mem.sq[host.sq][((k - 1) % Depth)]
CqCell(k) == mem.cq[host.cq][((k - 1) % Depth)]

QueueOps == {"set_queues", "get_queues", "create_cq", "create_sq", "delete_sq", "delete_cq"}

\* Of sent commands the device has taken t and the driver has reaped r.
Counts(r, t) ==
    /\ r <= t /\ t <= sent /\ sent - r < Depth
    /\ out = r + 1 .. sent
    /\ host.tail = (sent % Depth) /\ dbs.sq = host.tail
    /\ host.head = (r % Depth) /\ host.phase = Lap(r)
    /\ admin_q.head = (t % Depth) /\ admin_q.phase = Lap(t)

\* The dispatcher is to take those up to the doorbell it has read.
Taking(t) ==
    IF scan.at = "admin"
    THEN /\ scan.curr = (t % Depth)
         /\ \E n \in t + 1 .. sent : scan.new = (n % Depth)
    ELSE old_dbs.sq = (t % Depth)

\* What the rings hold.  Only the oldest command may be one on queues.
Rings(r, t) ==
    /\ \A k \in t + 1 .. sent :
          /\ SqCell(k).cmd = k /\ SqCell(k).op \in AdminOps
          /\ k > r + 1 => SqCell(k).op \notin QueueOps
    /\ \A k \in r + 1 .. t :
          /\ CqCell(k).cmd = k /\ CqCell(k).phase = Lap(k - 1)
          /\ k > r + 1 => CqCell(k).op \notin QueueOps
    /\ \A k \in t + 1 .. r + Depth : CqCell(k).phase = 1 - Lap(k - 1)

\* A command on queues that the device has carried out and the driver does not
\* know of yet.
Carried(r, t, op, n) == r < t /\ CqCell(r + 1).op = op /\ CqCell(r + 1).qid = n

Announced(e) ==
    /\ e.op \in {"set_queues", "get_queues"} =>
          e.qid = nr_queues /\ hSq = {} /\ hCq = {}
    /\ e.op = "create_cq" => e.qid \in 1 .. granted /\ cqes[e.qid]
    /\ e.op = "create_sq" => e.qid \in hCq /\ sqes[e.qid] = e.qid
    /\ e.op = "delete_cq" => e.qid \notin hSq

\* The driver's queues are the device's, but for that command.
QueuesAgree(r, t) ==
    /\ r < sent /\ t = r /\ SqCell(r + 1).op \in QueueOps =>
          Sensible(SqCell(r + 1).op, SqCell(r + 1).qid)
    /\ r < t => Announced(CqCell(r + 1))
    /\ hSq \subseteq hCq /\ hCq \subseteq 1 .. granted
    /\ \A s \in hSq : sqes[s] = s \/ Carried(r, t, "delete_sq", s)
    /\ \A c \in hCq : cqes[c] \/ Carried(r, t, "delete_cq", c)
    /\ granted # 0 => granted = nr_queues \/ Carried(r, t, "set_queues", nr_queues)

Serves(r, t) == Counts(r, t) /\ Taking(t) /\ Rings(r, t) /\ QueuesAgree(r, t)

Up == host.st = "up" => \E r, t \in Nat : Serves(r, t)

Base == Types /\ Registers /\ Driver /\ Idle /\ Begins

-----------------------------------------------------------------------------
(* Ring positions and phases. *)

(* The constants are numbers.                                              *)
LEMMA Sizes ==
    /\ Depth \in Nat \ {0, 1} /\ NrMaxQueue \in Nat \ {0} /\ MaxCmds \in Nat
    /\ 0 \notin Addrs /\ 0 \in Slots /\ \A i \in Slots : i \in Nat /\ i < Depth
  BY ControllerAssumption DEF Slots

(* The next entry: one slot further, and the other phase at the wrap.      *)
LEMMA LapFacts ==
    ASSUME NEW k \in Nat
    PROVE  /\ (k % Depth) \in Slots /\ Lap(k) \in {0, 1}
           /\ (((k % Depth) + 1) % Depth) = ((k + 1) % Depth)
           /\ Lap(k + 1) = IF (k % Depth) + 1 = Depth THEN 1 - Lap(k) ELSE Lap(k)
           /\ Lap(k + Depth) = 1 - Lap(k) /\ ((k + Depth) % Depth) = (k % Depth)
<1>1. PICK d \in Nat \ {0, 1}, m \in Nat \ {0} : d = Depth /\ m = d + d /\ m = 2 * Depth
  BY Sizes
<1>2. PICK q \in Nat, x \in 0 .. m - 1 : x = (k % m) /\ k = m * q + x
  <2>1. k \div m \in Nat /\ (k % m) \in 0 .. m - 1 /\ k = m * (k \div m) + (k % m)
    BY DivMod
  <2> QED
    BY <2>1
<1>3. (k % d) = IF x < d THEN x ELSE x - d
  <2>1. PICK a \in Nat, b \in Nat : a = 2 * q /\ b = 2 * q + 1
    OBVIOUS
  <2>2. m * q = d * a /\ d * b = d * a + d
    BY <1>1, <2>1
  <2>3. CASE x < d
    <3>1. (d * a + x) % d = x
      BY <2>3, ModUnique
    <3> QED
      BY <1>2, <2>2, <2>3, <3>1
  <2>4. CASE ~(x < d)
    <3>1. PICK y \in 0 .. d - 1 : y = x - d
      BY <1>1, <2>4
    <3>2. (d * b + y) % d = y
      BY ModUnique
    <3>3. d * b + y = k
      BY <1>2, <2>2, <3>1
    <3> QED
      BY <2>4, <3>1, <3>2, <3>3
  <2> QED
    BY <2>3, <2>4
<1>4. ((k + 1) % m) = IF x + 1 < m THEN x + 1 ELSE 0
  <2>1. ((x + 1) % m) = ((k + 1) % m)
    BY <1>2, ModAdd
  <2>2. PICK y \in Nat : y = x + 1
    OBVIOUS
  <2>3. y < m + m
    BY <2>2
  <2>4. (y % m) = IF y < m THEN y ELSE y - m
    BY <2>3, ModSmall
  <2> QED
    BY <2>1, <2>2, <2>4
<1>5. ((k + d) % m) = IF x + d < m THEN x + d ELSE x + d - m
  <2>1. ((x + d) % m) = ((k + d) % m)
    BY <1>2, ModAdd
  <2>2. PICK y \in Nat : y = x + d
    OBVIOUS
  <2>3. y < m + m
    BY <1>1, <2>2
  <2>4. (y % m) = IF y < m THEN y ELSE y - m
    BY <2>3, ModSmall
  <2> QED
    BY <2>1, <2>2, <2>4
<1>6. Lap(k) = IF x < d THEN 1 ELSE 0
  BY <1>1, <1>2 DEF Lap
<1>7. Lap(k + 1) = IF ((k + 1) % m) < d THEN 1 ELSE 0
  BY <1>1 DEF Lap
<1>8. Lap(k + Depth) = IF ((k + d) % m) < d THEN 1 ELSE 0
  BY <1>1 DEF Lap
<1>9. (k % Depth) \in Slots /\ (((k % Depth) + 1) % Depth) = ((k + 1) % Depth)
  <2>1. (((k % d) + 1) % d) = ((k + 1) % d) /\ (k % d) \in 0 .. d - 1
    BY ModAdd, DivMod
  <2> QED
    BY <1>1, <2>1 DEF Slots
<1>10. ((k + Depth) % Depth) = (k % Depth)
  <2>1. PICK s \in 0 .. d - 1 : s = (k % d)
    BY DivMod
  <2>2. ((s + d) % d) = ((k + d) % d)
    BY <2>1, ModAdd
  <2>3. PICK y \in Nat : y = s + d
    OBVIOUS
  <2>4. y < d + d /\ ~(y < d) /\ y - d = s
    BY <2>3
  <2>5. (y % d) = IF y < d THEN y ELSE y - d
    BY <2>4, ModSmall
  <2> QED
    BY <1>1, <2>1, <2>2, <2>3, <2>4, <2>5
<1>11. Lap(k + 1) = IF (k % Depth) + 1 = Depth THEN 1 - Lap(k) ELSE Lap(k)
  BY <1>1, <1>3, <1>4, <1>6, <1>7
<1>12. Lap(k + Depth) = 1 - Lap(k)
  BY <1>1, <1>5, <1>6, <1>8
<1> QED
  BY <1>6, <1>9, <1>10, <1>11, <1>12

(* The first lap.                                                          *)
LEMMA LapFirst ==
    ASSUME NEW k \in Nat, k < Depth
    PROVE  Lap(k) = 1 /\ (k % Depth) = k
<1>1. PICK d \in Nat \ {0, 1}, m \in Nat \ {0} : d = Depth /\ m = d + d /\ m = 2 * Depth
  BY Sizes
<1>2. k < m + m /\ k < d + d /\ k < m /\ k < d
  BY <1>1
<1>3. (k % m) = k /\ (k % d) = k
  BY <1>2, ModSmall
<1> QED
  BY <1>1, <1>2, <1>3 DEF Lap

(* Commands fewer than Depth apart are in different slots.                 *)
LEMMA SlotsDiffer ==
    ASSUME NEW j \in Nat \ {0}, NEW k \in Nat \ {0}, j # k, j - k < Depth, k - j < Depth
    PROVE  ((j - 1) % Depth) # ((k - 1) % Depth)
<1>1. PICK a \in Nat, b \in Nat : a = j - 1 /\ b = k - 1
  OBVIOUS
<1>2. Depth \in Nat \ {0}
  BY Sizes
<1>3. CASE a < b
  <2>1. b - a < Depth
    BY <1>1
  <2> QED
    BY <1>1, <1>2, <1>3, <2>1, ModDistinct
<1>4. CASE b < a
  <2>1. a - b < Depth
    BY <1>1
  <2> QED
    BY <1>1, <1>2, <1>4, <2>1, ModDistinct
<1> QED
  BY <1>1, <1>3, <1>4
-----------------------------------------------------------------------------
(* The registers. *)

(* Everything is zero at the start.                                        *)
LEMMA InitBase == Init => Base /\ Up
<1> SUFFICES ASSUME Init PROVE Base /\ Up
  OBVIOUS
<1>1. Types
  <2>1. 0 \in Pages /\ 0 \in 0 .. MaxCmds /\ 0 \in 0 .. NrMaxQueue
    BY Sizes DEF Pages
  <2>2. Empty \in [Slots -> Cells]
    BY DEF Empty, Slots, Cells
  <2>3. Off \in {Off, On, Shn}
    OBVIOUS
  <2> QED
    BY <2>1, <2>2, <2>3, Sizes DEF Init, Types, NoQueue, States
<1>2. Registers
  BY DEF Init, Registers, NoQueue, Off
<1>3. Driver
  BY DEF Init, Driver, AllSeen
<1>4. Idle /\ Begins /\ Up
  BY DEF Init, Idle, Begins, Up
<1> QED
  BY <1>1, <1>2, <1>3, <1>4 DEF Base

(* What a step changes that leaves the registers and the driver's state    *)
(* alone keeps what is said of them.                                       *)
LEMMA KeepsRegisters ==
    ASSUME Registers, Driver, UNCHANGED <<bar, old_bar>>,
           host'.st = host.st, host'.sq = host.sq, host'.cq = host.cq,
           admin_q'.sq = admin_q.sq, admin_q'.cq = admin_q.cq, admin_q'.depth = admin_q.depth,
           fresh' = fresh, scan'.at = scan.at \/ scan'.at \in {"aqa", "dbs", "admin"}
    PROVE  Registers' /\ Driver'
<1>1. AllSeen' = AllSeen
  BY DEF AllSeen
<1>2. Registers'
  BY <1>1 DEF Registers
<1>3. Driver'
  BY <1>1 DEF Driver
<1> QED
  BY <1>2, <1>3

(* nvmev_proc_bars(), the size of the admin queues.                        *)
LEMMA ScanAqaBase ==
    ASSUME Base, ScanAqa
    PROVE  Base'
<1>0. Types /\ Registers /\ Driver /\ Idle /\ Begins
  BY DEF Base
<1>1. /\ UNCHANGED <<bar, mem, sqes, cqes, nr_queues, fault, host, out, hSq, hCq, granted, sent>>
      /\ fresh' = TRUE /\ scan.at = "aqa"
  BY DEF ScanAqa, At, hostVars
<1>2. CASE old_bar.aqa # bar.aqa
  <2>1. /\ old_bar' = [old_bar EXCEPT !.aqa = bar.aqa]
        /\ admin_q' = [admin_q EXCEPT !.depth = bar.aqa, !.head = 0, !.phase = 1]
        /\ dbs' = [sq |-> 0, cq |-> 0] /\ old_dbs' = [sq |-> 0, cq |-> 0]
        /\ scan' = [scan EXCEPT !.at = "dbs"]
    BY <1>2 DEF ScanAqa, Goto
  <2>2. /\ old_bar'.aqa = bar.aqa /\ old_bar'.asq = old_bar.asq /\ old_bar'.acq = old_bar.acq
        /\ old_bar'.cc = old_bar.cc
    BY <1>0, <2>1 DEF Types
  <2>3. /\ admin_q'.sq = admin_q.sq /\ admin_q'.cq = admin_q.cq /\ admin_q'.depth = bar.aqa
        /\ admin_q'.head = 0 /\ admin_q'.phase = 1
    BY <1>0, <2>1 DEF Types
  <2>4. scan'.at = "dbs"
    BY <1>0, <2>1 DEF Types
  <2>5. Types'
    BY <1>0, <1>1, <2>1, Sizes DEF Types
  <2>6. ~AllSeen /\ (AllSeen)' = (old_bar.asq = bar.asq /\ old_bar.acq = bar.acq)
    BY <1>1, <1>2, <2>2 DEF AllSeen
  <2>7. Registers'
    BY <1>0, <1>1, <2>2, <2>3, <2>4, <2>6 DEF Registers
  <2>8. Driver'
    BY <1>0, <1>1, <2>2, <2>6 DEF Driver
  <2>9. Idle'
    BY <1>1, <2>1, <2>4 DEF Idle
  <2>10. Begins'
    BY <1>0, <1>1, <2>1, <2>2, <2>3 DEF Begins
  <2> QED
    BY <2>5, <2>7, <2>8, <2>9, <2>10 DEF Base
<1>3. CASE old_bar.aqa = bar.aqa
  <2>1. scan' = [scan EXCEPT !.at = "asq"] /\ UNCHANGED <<old_bar, admin_q, dbs, old_dbs>>
    BY <1>3 DEF ScanAqa, Goto, NextRegister
  <2>2. scan'.at = "asq"
    BY <1>0, <2>1 DEF Types
  <2>3. Types'
    <3>1. scan' \in [at : {"aqa", "asq", "acq", "cc", "dbs", "admin"}, curr : Slots, new : Slots]
      BY <1>0, <2>1 DEF Types
    <3> QED
      BY <1>0, <1>1, <2>1, <3>1 DEF Types
  <2>4. AllSeen' = AllSeen
    BY <1>1, <2>1 DEF AllSeen
  <2>5. Registers'
    BY <1>0, <1>1, <1>3, <2>1, <2>2, <2>4 DEF Registers
  <2>6. Driver'
    BY <1>0, <1>1, <2>1, <2>4 DEF Driver
  <2>7. Idle'
    BY <1>0, <1>1, <2>1, <2>2 DEF Idle
  <2>8. Begins'
    BY <1>0, <1>1, <2>1 DEF Begins
  <2> QED
    BY <2>3, <2>5, <2>6, <2>7, <2>8 DEF Base
<1> QED
  BY <1>2, <1>3

(* ... and their pages.                                                    *)
LEMMA ScanAsqBase ==
    ASSUME Base, ScanAsq
    PROVE  Base'
<1>0. Types /\ Registers /\ Driver /\ Idle /\ Begins
  BY DEF Base
<1>1. /\ UNCHANGED <<bar, mem, sqes, cqes, nr_queues, fault, host, out, hSq, hCq, granted, sent>>
      /\ fresh' = fresh /\ scan.at = "asq"
  BY DEF ScanAsq, ScanAddress, At, hostVars
<1>2. CASE old_bar.asq = bar.asq
  <2>1. scan' = [scan EXCEPT !.at = "acq"] /\ UNCHANGED <<old_bar, admin_q, dbs, old_dbs>>
    BY <1>2 DEF ScanAsq, ScanAddress, Goto, NextRegister
  <2>2. scan'.at = "acq"
    BY <1>0, <2>1 DEF Types
  <2>3. Types'
    <3>1. scan' \in [at : {"aqa", "asq", "acq", "cc", "dbs", "admin"}, curr : Slots, new : Slots]
      BY <1>0, <2>1 DEF Types
    <3> QED
      BY <1>0, <1>1, <2>1, <3>1 DEF Types
  <2>4. AllSeen' = AllSeen
    BY <1>1, <2>1 DEF AllSeen
  <2>5. Registers'
    BY <1>0, <1>1, <1>2, <2>1, <2>2, <2>4 DEF Registers
  <2>6. Driver'
    BY <1>0, <1>1, <2>1, <2>4 DEF Driver
  <2>7. Idle'
    BY <1>0, <1>1, <2>1, <2>2 DEF Idle
  <2>8. Begins'
    BY <1>0, <1>1, <2>1 DEF Begins
  <2> QED
    BY <2>3, <2>5, <2>6, <2>7, <2>8 DEF Base
<1>3. CASE old_bar.asq # bar.asq /\ admin_q.depth = 0
  <2>1. scan' = [scan EXCEPT !.at = "dbs"] /\ UNCHANGED <<old_bar, admin_q, dbs, old_dbs>>
    BY <1>3 DEF ScanAsq, ScanAddress, Goto
  <2>2. scan'.at = "dbs"
    BY <1>0, <2>1 DEF Types
  <2>3. Types'
    <3>1. scan' \in [at : {"aqa", "asq", "acq", "cc", "dbs", "admin"}, curr : Slots, new : Slots]
      BY <1>0, <2>1 DEF Types
    <3> QED
      BY <1>0, <1>1, <2>1, <3>1 DEF Types
  <2>4. Registers' /\ Driver'
    BY <1>0, <1>1, <2>1, <2>2, KeepsRegisters
  <2>5. Idle'
    BY <1>0, <1>1, <2>1, <2>2 DEF Idle
  <2>6. Begins'
    BY <1>0, <1>1, <2>1 DEF Begins
  <2> QED
    BY <2>3, <2>4, <2>5, <2>6 DEF Base
<1>4. CASE old_bar.asq # bar.asq /\ admin_q.depth # 0
  <2>1. /\ old_bar' = [old_bar EXCEPT !.asq = bar.asq]
        /\ admin_q' = [admin_q EXCEPT !.sq = bar.asq, !.depth = bar.aqa]
        /\ dbs' = [dbs EXCEPT !.sq = 0] /\ old_dbs' = [old_dbs EXCEPT !.sq = 0]
        /\ scan' = [scan EXCEPT !.at = "dbs"]
    <3>1. admin_q' = [admin_q EXCEPT !.sq = bar.asq, !.depth = bar.aqa,
                                     !.head = admin_q.head, !.phase = admin_q.phase]
      BY <1>0, <1>4 DEF ScanAsq, ScanAddress, Types
    <3>2. admin_q' = [admin_q EXCEPT !.sq = bar.asq, !.depth = bar.aqa]
      BY <1>0, <3>1 DEF Types
    <3> QED
      BY <1>4, <3>2 DEF ScanAsq, ScanAddress, Goto, Mapped
  <2>2. /\ old_bar'.aqa = old_bar.aqa /\ old_bar'.asq = bar.asq /\ old_bar'.acq = old_bar.acq
        /\ old_bar'.cc = old_bar.cc
    BY <1>0, <2>1 DEF Types
  <2>3. /\ admin_q'.sq = bar.asq /\ admin_q'.cq = admin_q.cq /\ admin_q'.depth = bar.aqa
        /\ admin_q'.head = admin_q.head /\ admin_q'.phase = admin_q.phase
    BY <1>0, <2>1 DEF Types
  <2>4. scan'.at = "dbs" /\ dbs'.sq = 0 /\ old_dbs'.sq = 0
    BY <1>0, <2>1 DEF Types
  <2>5. bar.aqa = old_bar.aqa
    <3>1. bar.aqa \in {0, Depth} /\ old_bar.aqa \in {0, Depth}
      BY <1>0 DEF Types
    <3>2. old_bar.aqa # 0
      BY <1>0, <1>4 DEF Registers
    <3>3. host.st # "off"
      BY <1>0, <1>4 DEF Driver, AllSeen
    <3>4. bar.aqa = Depth
      BY <1>0, <3>3 DEF Registers, Driver
    <3> QED
      BY <3>1, <3>2, <3>4
  <2>6. Types'
    BY <1>0, <1>1, <2>1, Sizes DEF Types
  <2>7. ~AllSeen /\ (AllSeen)' = (old_bar.aqa = bar.aqa /\ old_bar.acq = bar.acq)
    BY <1>1, <1>4, <2>2 DEF AllSeen
  <2>8. Registers'
    BY <1>0, <1>1, <2>2, <2>3, <2>4, <2>5, <2>7 DEF Registers
  <2>9. Driver'
    BY <1>0, <1>1, <1>4, <2>2, <2>7 DEF Driver
  <2>10. Idle'
    BY <1>1, <2>4 DEF Idle
  <2>11. Begins'
    BY <1>0, <1>1, <2>2, <2>3, <2>4 DEF Begins
  <2> QED
    BY <2>6, <2>8, <2>9, <2>10, <2>11 DEF Base
<1> QED
  BY <1>2, <1>3, <1>4

(* The page of the completions: entries are written from its start.        *)
LEMMA ScanAcqBase ==
    ASSUME Base, ScanAcq
    PROVE  Base'
<1>0. Types /\ Registers /\ Driver /\ Idle /\ Begins
  BY DEF Base
<1>1. /\ UNCHANGED <<bar, mem, sqes, cqes, nr_queues, fault, host, out, hSq, hCq, granted, sent>>
      /\ fresh' = fresh /\ scan.at = "acq"
  BY DEF ScanAcq, ScanAddress, At, hostVars
<1>2. CASE old_bar.acq = bar.acq
  <2>1. scan' = [scan EXCEPT !.at = "cc"] /\ UNCHANGED <<old_bar, admin_q, dbs, old_dbs>>
    BY <1>2 DEF ScanAcq, ScanAddress, Goto, NextRegister
  <2>2. scan'.at = "cc"
    BY <1>0, <2>1 DEF Types
  <2>3. Types'
    <3>1. scan' \in [at : {"aqa", "asq", "acq", "cc", "dbs", "admin"}, curr : Slots, new : Slots]
      BY <1>0, <2>1 DEF Types
    <3> QED
      BY <1>0, <1>1, <2>1, <3>1 DEF Types
  <2>4. AllSeen' = AllSeen
    BY <1>1, <2>1 DEF AllSeen
  <2>5. Registers'
    BY <1>0, <1>1, <1>2, <2>1, <2>2, <2>4 DEF Registers
  <2>6. Driver'
    BY <1>0, <1>1, <2>1, <2>4 DEF Driver
  <2>7. Idle'
    BY <1>0, <1>1, <2>1, <2>2 DEF Idle
  <2>8. Begins'
    BY <1>0, <1>1, <2>1 DEF Begins
  <2> QED
    BY <2>3, <2>5, <2>6, <2>7, <2>8 DEF Base
<1>3. CASE old_bar.acq # bar.acq /\ admin_q.depth = 0
  <2>1. scan' = [scan EXCEPT !.at = "dbs"] /\ UNCHANGED <<old_bar, admin_q, dbs, old_dbs>>
    BY <1>3 DEF ScanAcq, ScanAddress, Goto
  <2>2. scan'.at = "dbs"
    BY <1>0, <2>1 DEF Types
  <2>3. Types'
    <3>1. scan' \in [at : {"aqa", "asq", "acq", "cc", "dbs", "admin"}, curr : Slots, new : Slots]
      BY <1>0, <2>1 DEF Types
    <3> QED
      BY <1>0, <1>1, <2>1, <3>1 DEF Types
  <2>4. Registers' /\ Driver'
    BY <1>0, <1>1, <2>1, <2>2, KeepsRegisters
  <2>5. Idle'
    BY <1>0, <1>1, <2>1, <2>2 DEF Idle
  <2>6. Begins'
    BY <1>0, <1>1, <2>1 DEF Begins
  <2> QED
    BY <2>3, <2>4, <2>5, <2>6 DEF Base
<1>4. CASE old_bar.acq # bar.acq /\ admin_q.depth # 0
  <2>1. /\ old_bar' = [old_bar EXCEPT !.acq = bar.acq]
        /\ admin_q' = [admin_q EXCEPT !.cq = bar.acq, !.depth = bar.aqa, !.head = 0, !.phase = 1]
        /\ dbs' = [dbs EXCEPT !.cq = 0] /\ old_dbs' = [old_dbs EXCEPT !.cq = 0]
        /\ scan' = [scan EXCEPT !.at = "dbs"]
    BY <1>4 DEF ScanAcq, ScanAddress, Goto, Mapped
  <2>2. /\ old_bar'.aqa = old_bar.aqa /\ old_bar'.asq = old_bar.asq /\ old_bar'.acq = bar.acq
        /\ old_bar'.cc = old_bar.cc
    BY <1>0, <2>1 DEF Types
  <2>3. /\ admin_q'.sq = admin_q.sq /\ admin_q'.cq = bar.acq /\ admin_q'.depth = bar.aqa
        /\ admin_q'.head = 0 /\ admin_q'.phase = 1
    BY <1>0, <2>1 DEF Types
  <2>4. scan'.at = "dbs" /\ dbs'.sq = dbs.sq /\ old_dbs'.sq = old_dbs.sq
    BY <1>0, <2>1 DEF Types
  <2>5. bar.aqa = old_bar.aqa
    <3>1. bar.aqa \in {0, Depth} /\ old_bar.aqa \in {0, Depth}
      BY <1>0 DEF Types
    <3>2. old_bar.aqa # 0
      BY <1>0, <1>4 DEF Registers
    <3>3. host.st # "off"
      BY <1>0, <1>4 DEF Driver, AllSeen
    <3>4. bar.aqa = Depth
      BY <1>0, <3>3 DEF Registers, Driver
    <3> QED
      BY <3>1, <3>2, <3>4
  <2>6. Types'
    BY <1>0, <1>1, <2>1, Sizes DEF Types
  <2>7. ~AllSeen /\ (AllSeen)' = (old_bar.aqa = bar.aqa /\ old_bar.asq = bar.asq)
    BY <1>1, <1>4, <2>2 DEF AllSeen
  <2>8. Registers'
    BY <1>0, <1>1, <2>2, <2>3, <2>4, <2>5, <2>7 DEF Registers
  <2>9. Driver'
    BY <1>0, <1>1, <1>4, <2>2, <2>7 DEF Driver
  <2>10. Idle'
    BY <1>0, <1>1, <2>4 DEF Idle
  <2>11. Begins'
    BY <1>0, <1>1, <2>2, <2>3, <2>4 DEF Begins
  <2> QED
    BY <2>6, <2>8, <2>9, <2>10, <2>11 DEF Base
<1> QED
  BY <1>2, <1>3, <1>4

(* A write of CC is acted on once all addresses are known: the controller  *)
(* becomes ready, and a shutdown resets doorbells and head.                *)
LEMMA ScanCcBase ==
    ASSUME Base, ScanCc
    PROVE  Base'
<1>0. Types /\ Registers /\ Driver /\ Idle /\ Begins
  BY DEF Base
<1>1. /\ UNCHANGED <<mem, sqes, cqes, nr_queues, fault, host, out, hSq, hCq, granted, sent>>
      /\ fresh' = fresh /\ scan.at = "cc"
  BY DEF ScanCc, At, hostVars
<1>2. CASE old_bar.cc = bar.cc
  <2>1. /\ scan' = [scan EXCEPT !.at = "dbs"]
        /\ UNCHANGED <<bar, old_bar, admin_q, dbs, old_dbs>>
    BY <1>2 DEF ScanCc, Goto, NextRegister
  <2>2. scan'.at = "dbs"
    BY <1>0, <2>1 DEF Types
  <2>3. Types'
    <3>1. scan' \in [at : {"aqa", "asq", "acq", "cc", "dbs", "admin"}, curr : Slots, new : Slots]
      BY <1>0, <2>1 DEF Types
    <3> QED
      BY <1>0, <1>1, <2>1, <3>1 DEF Types
  <2>4. Registers' /\ Driver'
    BY <1>0, <1>1, <2>1, <2>2, KeepsRegisters
  <2>5. Idle'
    BY <1>0, <1>1, <2>1, <2>2 DEF Idle
  <2>6. Begins'
    BY <1>0, <1>1, <2>1 DEF Begins
  <2> QED
    BY <2>3, <2>4, <2>5, <2>6 DEF Base
<1>3. CASE old_bar.cc # bar.cc
  <2>1. /\ old_bar' = [old_bar EXCEPT !.cc = bar.cc]
        /\ scan' = [scan EXCEPT !.at = "dbs"]
        /\ bar' = [bar EXCEPT !.rdy = Ready(bar.cc.en),
                              !.shst = IF bar.cc.shn = 1 THEN 2 ELSE bar.shst]
        /\ IF bar.cc.shn = 1
           THEN /\ dbs' = [sq |-> 0, cq |-> 0] /\ old_dbs' = [sq |-> 0, cq |-> 0]
                /\ admin_q' = [admin_q EXCEPT !.head = 0]
           ELSE UNCHANGED <<dbs, old_dbs, admin_q>>
    BY <1>3 DEF ScanCc, Goto
  <2>2. /\ old_bar'.aqa = old_bar.aqa /\ old_bar'.asq = old_bar.asq
        /\ old_bar'.acq = old_bar.acq /\ old_bar'.cc = bar.cc
    BY <1>0, <2>1 DEF Types
  <2>3. /\ bar'.aqa = bar.aqa /\ bar'.asq = bar.asq /\ bar'.acq = bar.acq
        /\ bar'.cc = bar.cc /\ bar'.rdy = Ready(bar.cc.en)
    BY <1>0, <2>1 DEF Types
  <2>4. host.st \in {"enabling", "shutdown", "disable", "disabling"}
    <3>1. host.st \in States
      BY <1>0 DEF Types
    <3> QED
      BY <1>0, <1>3, <3>1 DEF Driver, States
  <2>5. AllSeen /\ bar.aqa = Depth /\ old_bar.aqa = Depth
    <3>1. AllSeen
      BY <1>0, <1>1, <2>4 DEF Driver, Registers, AllSeen
    <3> QED
      BY <1>0, <2>4, <3>1 DEF Driver, Registers, AllSeen
  <2>6. bar.cc \in {Off, On, Shn}
    BY <1>0 DEF Types
  <2>7. Ready(bar.cc.en) = bar.cc.en
    <3>1. admin_q.depth # 0
      BY <1>0, <2>5, Sizes DEF Registers
    <3> QED
      BY <2>6, <3>1 DEF Ready, Off, On, Shn
  <2>8. scan'.at = "dbs"
    BY <1>0, <2>1 DEF Types
  <2>9. /\ admin_q'.sq = admin_q.sq /\ admin_q'.cq = admin_q.cq
        /\ admin_q'.depth = admin_q.depth
    BY <1>0, <2>1 DEF Types
  <2>10. Types'
    <3>1. Ready(bar.cc.en) \in {0, 1}
      BY <2>6, <2>7 DEF Off, On, Shn
    <3>2. bar' \in [aqa : {0, Depth}, asq : Pages, acq : Pages, cc : {Off, On, Shn},
                    rdy : {0, 1}, shst : {0, 2}]
      BY <1>0, <2>1, <3>1 DEF Types
    <3>3. old_bar' \in [aqa : {0, Depth}, asq : Pages, acq : Pages, cc : {Off, On, Shn}]
      BY <1>0, <2>1, <2>6 DEF Types
    <3>4. dbs' \in [sq : Slots, cq : Slots] /\ old_dbs' \in [sq : Slots, cq : Slots]
      BY <1>0, <2>1, Sizes DEF Types
    <3>5. admin_q' \in [sq : Pages, cq : Pages, depth : {0, Depth}, head : Slots, phase : {0, 1}]
      BY <1>0, <2>1, Sizes DEF Types
    <3> QED
      BY <1>0, <1>1, <2>1, <3>2, <3>3, <3>4, <3>5 DEF Types
  <2>11. AllSeen'
    BY <2>2, <2>3, <2>5 DEF AllSeen
  <2>12. Registers'
    BY <1>0, <1>1, <2>2, <2>3, <2>7, <2>8, <2>9, <2>11 DEF Registers
  <2>13. Driver'
    BY <1>0, <1>1, <2>2, <2>3, <2>4, <2>11 DEF Driver, On, Shn
  <2>14. Idle'
    <3>1. dbs'.sq = old_dbs'.sq
      BY <1>0, <2>1, <2>4 DEF Idle
    <3> QED
      BY <2>8, <3>1 DEF Idle
  <2>15. Begins'
    <3> SUFFICES ASSUME host.st = "enabling" PROVE Begins'
      BY <1>1, <2>4 DEF Begins
    <3>1. bar.cc.shn = 0
      BY <1>0 DEF Driver, On
    <3>2. UNCHANGED <<dbs, admin_q>>
      BY <2>1, <3>1
    <3> QED
      BY <1>0, <1>1, <2>2, <3>2 DEF Begins
  <2> QED
    BY <2>10, <2>12, <2>13, <2>14, <2>15 DEF Base
<1> QED
  BY <1>2, <1>3

(* The admin doorbell is only found changed while the driver is up.        *)
LEMMA ScanDbsBase ==
    ASSUME Base, ScanDbs
    PROVE  Base'
<1>0. Types /\ Registers /\ Driver /\ Idle /\ Begins
  BY DEF Base
<1>1. /\ UNCHANGED <<bar, dbs, mem, old_bar, admin_q, sqes, cqes, nr_queues, fault,
                     host, out, hSq, hCq, granted, sent, fresh>>
      /\ scan' = [at |-> IF dbs.sq # old_dbs.sq THEN "admin" ELSE "aqa",
                  curr |-> old_dbs.sq, new |-> dbs.sq]
      /\ old_dbs' = [old_dbs EXCEPT !.cq = dbs.cq]
  BY DEF ScanDbs, hostVars
<1>2. scan'.at \in {"aqa", "admin"} /\ old_dbs'.sq = old_dbs.sq
  BY <1>0, <1>1 DEF Types
<1>3. Types'
  BY <1>0, <1>1 DEF Types
<1>4. Registers' /\ Driver'
  BY <1>0, <1>1, <1>2, KeepsRegisters
<1>5. Idle'
  BY <1>0, <1>1, <1>2 DEF Idle
<1>6. Begins'
  BY <1>0, <1>1 DEF Begins
<1> QED
  BY <1>3, <1>4, <1>5, <1>6 DEF Base
-----------------------------------------------------------------------------
(* The driver outside of "up". *)

(* New pages, other than the last ones, so the device will see a change.   *)
LEMMA HostSetupBase ==
    ASSUME Base, HostSetup, ~SameAddr
    PROVE  Base' /\ host'.st = "aqa"
<1>0. Types /\ Registers /\ Driver /\ Idle /\ Begins
  BY DEF Base
<1>1. PICK s \in Addrs, c \in Addrs :
          /\ s # host.sq /\ c # host.cq
          /\ host' = [st |-> "aqa", tail |-> 0, head |-> 0, phase |-> 1, sq |-> s, cq |-> c]
          /\ mem' = [sq |-> [mem.sq EXCEPT ![s] = Empty], cq |-> [mem.cq EXCEPT ![c] = Empty]]
  BY DEF HostSetup
<1>2. /\ host.st = "off" /\ bar' = [bar EXCEPT !.aqa = Depth]
      /\ out' = {} /\ hSq' = {} /\ hCq' = {} /\ granted' = 0 /\ sent' = 0 /\ fresh' = FALSE
      /\ UNCHANGED <<dbs, old_bar, old_dbs, admin_q, scan, sqes, cqes, nr_queues, fault>>
  BY DEF HostSetup, HostIs, devVars
<1>3. /\ bar'.aqa = Depth /\ bar'.asq = bar.asq /\ bar'.acq = bar.acq /\ bar'.cc = bar.cc
      /\ bar'.rdy = bar.rdy
  BY <1>0, <1>2 DEF Types
<1>4. s # 0 /\ c # 0 /\ s \in Pages /\ c \in Pages
  BY Sizes DEF Pages
<1>5. AllSeen /\ bar.asq = host.sq /\ bar.acq = host.cq /\ bar.cc = Off /\ old_bar.cc = Off
  BY <1>0, <1>2 DEF Driver
<1>6. Types'
  <2>1. bar' \in [aqa : {0, Depth}, asq : Pages, acq : Pages, cc : {Off, On, Shn},
                  rdy : {0, 1}, shst : {0, 2}]
    BY <1>0, <1>2 DEF Types
  <2>2. Empty \in [Slots -> Cells]
    BY DEF Empty, Slots, Cells
  <2>3. mem' \in [sq : [Addrs -> [Slots -> Cells]], cq : [Addrs -> [Slots -> Cells]]]
    <3>1. /\ [mem.sq EXCEPT ![s] = Empty] \in [Addrs -> [Slots -> Cells]]
          /\ [mem.cq EXCEPT ![c] = Empty] \in [Addrs -> [Slots -> Cells]]
      BY <1>0, <2>2 DEF Types
    <3> QED
      BY <1>1, <3>1
  <2>4. host' \in [st : States, tail : Slots, head : Slots, phase : {0, 1},
                   sq : Pages, cq : Pages]
    BY <1>1, <1>4, Sizes DEF States
  <2>5. 0 \in 0 .. MaxCmds /\ 0 \in 0 .. NrMaxQueue
    BY Sizes
  <2>6. /\ old_bar \in [aqa : {0, Depth}, asq : Pages, acq : Pages, cc : {Off, On, Shn}]
        /\ dbs \in [sq : Slots, cq : Slots] /\ old_dbs \in [sq : Slots, cq : Slots]
        /\ admin_q \in [sq : Pages, cq : Pages, depth : {0, Depth}, head : Slots, phase : {0, 1}]
        /\ scan \in [at : {"aqa", "asq", "acq", "cc", "dbs", "admin"}, curr : Slots, new : Slots]
        /\ nr_queues \in 0 .. NrMaxQueue /\ fault = FALSE
        /\ sqes \in [Queues -> 0 .. NrMaxQueue] /\ cqes \in [Queues -> BOOLEAN]
    BY <1>0 DEF Types
  <2> QED
    BY <1>2, <2>1, <2>3, <2>4, <2>5, <2>6 DEF Types
<1>7. host'.st = "aqa" /\ host'.sq = s /\ host'.cq = c
  BY <1>1
<1>8. Registers'
  BY <1>0, <1>2, <1>3, <1>4, <1>5, <1>7 DEF Registers, Off
<1>9. Driver'
  BY <1>2, <1>3, <1>4, <1>5, <1>1, <1>7 DEF Driver, AllSeen
<1>10. Idle'
  BY <1>0, <1>2 DEF Idle
<1>11. Begins'
  <2>1. mem'.sq[s] = Empty /\ mem'.cq[c] = Empty
    BY <1>0, <1>1 DEF Types
  <2>2. old_bar'.asq # s /\ old_bar'.acq # c
    BY <1>1, <1>2, <1>5 DEF AllSeen
  <2>3. host'.tail = 0 /\ host'.head = 0 /\ host'.phase = 1
    BY <1>1
  <2> QED
    BY <1>2, <1>7, <2>1, <2>2, <2>3 DEF Begins
<1> QED
  BY <1>6, <1>7, <1>8, <1>9, <1>10, <1>11 DEF Base

(* The driver's types, when it moves on without touching its rings.        *)
LEMMA HostMoves ==
    ASSUME Base, NEW st \in States \ {"up"}, host' = [host EXCEPT !.st = st],
           bar' \in [aqa : {0, Depth}, asq : Pages, acq : Pages, cc : {Off, On, Shn},
                     rdy : {0, 1}, shst : {0, 2}],
           fresh' \in BOOLEAN, dbs.sq = old_dbs.sq, scan.at # "admin",
           UNCHANGED <<dbs, mem, devVars, out, hSq, hCq, granted, sent>>
    PROVE  /\ Types' /\ Idle'
           /\ host'.st = st /\ host'.sq = host.sq /\ host'.cq = host.cq
           /\ host'.tail = host.tail /\ host'.head = host.head /\ host'.phase = host.phase
<1>0. Types
  BY DEF Base
<1>1. /\ host' \in [st : States, tail : Slots, head : Slots, phase : {0, 1},
                    sq : Pages, cq : Pages]
      /\ host'.st = st /\ host'.sq = host.sq /\ host'.cq = host.cq
      /\ host'.tail = host.tail /\ host'.head = host.head /\ host'.phase = host.phase
  BY <1>0 DEF Types
<1>2. UNCHANGED <<dbs, mem, old_bar, old_dbs, admin_q, scan, sqes, cqes, nr_queues, fault,
                  out, hSq, hCq, granted, sent>>
  BY DEF devVars
<1>3. Types'
  BY <1>0, <1>1, <1>2 DEF Types
<1>4. Idle'
  BY <1>2 DEF Idle
<1> QED
  BY <1>1, <1>3, <1>4

(* The addresses.                                                          *)
LEMMA HostAddressBase ==
    ASSUME Base, \/ HostAddress("aqa", "asq", "asq", host.sq)
                 \/ HostAddress("asq", "acq", "acq", host.cq)
    PROVE  Base' /\ host'.st # "up"
<1>0. Types /\ Registers /\ Driver /\ Idle /\ Begins
  BY DEF Base
<1>1. CASE HostAddress("aqa", "asq", "asq", host.sq)
  <2>1. /\ host.st = "aqa" /\ bar' = [bar EXCEPT !.asq = host.sq]
        /\ host' = [host EXCEPT !.st = "asq"] /\ fresh' = FALSE
        /\ UNCHANGED <<dbs, mem, devVars, out, hSq, hCq, granted, sent>>
    BY <1>1 DEF HostAddress, HostIs
  <2>2. /\ bar' \in [aqa : {0, Depth}, asq : Pages, acq : Pages, cc : {Off, On, Shn},
                     rdy : {0, 1}, shst : {0, 2}]
        /\ bar'.asq = host.sq /\ bar'.aqa = bar.aqa /\ bar'.acq = bar.acq
        /\ bar'.cc = bar.cc /\ bar'.rdy = bar.rdy
    BY <1>0, <2>1 DEF Types
  <2>3. "asq" \in States \ {"up"} /\ dbs.sq = old_dbs.sq /\ scan.at # "admin"
    BY <1>0, <2>1 DEF States, Idle
  <2>4. /\ Types' /\ Idle'
        /\ host'.st = "asq" /\ host'.sq = host.sq /\ host'.cq = host.cq
        /\ host'.tail = host.tail /\ host'.head = host.head /\ host'.phase = host.phase
    <3>1. fresh' \in BOOLEAN
      BY <2>1
    <3> QED
      BY <2>1, <2>2, <2>3, <3>1, HostMoves
  <2>5. UNCHANGED <<old_bar, old_dbs, admin_q, scan>>
    BY <2>1 DEF devVars
  <2>6. host.sq # 0 /\ host.cq # 0 /\ old_bar.cc = Off /\ bar.cc = Off
    BY <1>0, <2>1 DEF Driver
  <2>7. Registers'
    BY <1>0, <2>1, <2>2, <2>4, <2>5, <2>6 DEF Registers, Off
  <2>8. Driver'
    BY <1>0, <2>1, <2>2, <2>4, <2>5, <2>6 DEF Driver
  <2>9. Begins'
    BY <1>0, <2>1, <2>4, <2>5 DEF Begins
  <2> QED
    BY <2>4, <2>7, <2>8, <2>9 DEF Base
<1>2. CASE HostAddress("asq", "acq", "acq", host.cq)
  <2>1. /\ host.st = "asq" /\ bar' = [bar EXCEPT !.acq = host.cq]
        /\ host' = [host EXCEPT !.st = "acq"] /\ fresh' = FALSE
        /\ UNCHANGED <<dbs, mem, devVars, out, hSq, hCq, granted, sent>>
    BY <1>2 DEF HostAddress, HostIs
  <2>2. /\ bar' \in [aqa : {0, Depth}, asq : Pages, acq : Pages, cc : {Off, On, Shn},
                     rdy : {0, 1}, shst : {0, 2}]
        /\ bar'.acq = host.cq /\ bar'.aqa = bar.aqa /\ bar'.asq = bar.asq
        /\ bar'.cc = bar.cc /\ bar'.rdy = bar.rdy
    BY <1>0, <2>1 DEF Types
  <2>3. "acq" \in States \ {"up"} /\ dbs.sq = old_dbs.sq /\ scan.at # "admin"
    BY <1>0, <2>1 DEF States, Idle
  <2>4. /\ Types' /\ Idle'
        /\ host'.st = "acq" /\ host'.sq = host.sq /\ host'.cq = host.cq
        /\ host'.tail = host.tail /\ host'.head = host.head /\ host'.phase = host.phase
    <3>1. fresh' \in BOOLEAN
      BY <2>1
    <3> QED
      BY <2>1, <2>2, <2>3, <3>1, HostMoves
  <2>5. UNCHANGED <<old_bar, old_dbs, admin_q, scan>>
    BY <2>1 DEF devVars
  <2>6. host.sq # 0 /\ host.cq # 0 /\ old_bar.cc = Off /\ bar.cc = Off
    BY <1>0, <2>1 DEF Driver
  <2>7. Registers'
    BY <1>0, <2>1, <2>2, <2>4, <2>5, <2>6 DEF Registers, Off
  <2>8. Driver'
    BY <1>0, <2>1, <2>2, <2>4, <2>5, <2>6 DEF Driver
  <2>9. Begins'
    BY <1>0, <2>1, <2>4, <2>5 DEF Begins
  <2> QED
    BY <2>4, <2>7, <2>8, <2>9 DEF Base
<1> QED
  BY <1>1, <1>2

(* A step that only moves the driver on, or writes CC, keeps what is said  *)
(* of the addresses.                                                       *)
LEMMA KeepsAddresses ==
    ASSUME Registers, bar'.aqa = bar.aqa, bar'.asq = bar.asq, bar'.acq = bar.acq,
           bar'.rdy = bar.rdy, host'.sq = host.sq, fresh' = fresh,
           UNCHANGED <<old_bar, admin_q, scan>>
    PROVE  Registers' /\ AllSeen' = AllSeen
<1>1. AllSeen' = AllSeen
  BY DEF AllSeen
<1> QED
  BY <1>1 DEF Registers

(* The writes of CC.                                                       *)
LEMMA HostCcBase ==
    ASSUME Base, HostSlow,
           \/ (HostSlow => fresh) /\ HostCc("acq", [en |-> 1, shn |-> 0], "enabling")
           \/ HostCc("disable", Off, "disabling")
    PROVE  Base' /\ host'.st # "up"
<1>0. Types /\ Registers /\ Driver /\ Idle /\ Begins
  BY DEF Base
<1>1. CASE fresh /\ HostCc("acq", [en |-> 1, shn |-> 0], "enabling")
  <2>1. /\ host.st = "acq" /\ bar' = [bar EXCEPT !.cc = On]
        /\ host' = [host EXCEPT !.st = "enabling"] /\ fresh' = fresh /\ fresh = TRUE
        /\ UNCHANGED <<dbs, mem, devVars, out, hSq, hCq, granted, sent>>
    BY <1>0, <1>1 DEF HostCc, HostIs, On, Types
  <2>2. /\ bar' \in [aqa : {0, Depth}, asq : Pages, acq : Pages, cc : {Off, On, Shn},
                     rdy : {0, 1}, shst : {0, 2}]
        /\ bar'.asq = bar.asq /\ bar'.aqa = bar.aqa /\ bar'.acq = bar.acq
        /\ bar'.cc = On /\ bar'.rdy = bar.rdy
    BY <1>0, <2>1 DEF Types
  <2>3. "enabling" \in States \ {"up"} /\ dbs.sq = old_dbs.sq /\ scan.at # "admin"
    BY <1>0, <2>1 DEF States, Idle
  <2>4. /\ Types' /\ Idle'
        /\ host'.st = "enabling" /\ host'.sq = host.sq /\ host'.cq = host.cq
        /\ host'.tail = host.tail /\ host'.head = host.head /\ host'.phase = host.phase
    <3>1. fresh' \in BOOLEAN
      BY <2>1
    <3> QED
      BY <2>1, <2>2, <2>3, <3>1, HostMoves
  <2>5. UNCHANGED <<old_bar, old_dbs, admin_q, scan>>
    BY <2>1 DEF devVars
  <2>6. Registers' /\ AllSeen' = AllSeen
    BY <1>0, <2>1, <2>2, <2>4, <2>5, KeepsAddresses
  <2>7. Driver'
    BY <1>0, <2>1, <2>2, <2>4, <2>5, <2>6 DEF Driver
  <2>8. Begins'
    BY <1>0, <2>1, <2>4, <2>5 DEF Begins
  <2> QED
    BY <2>4, <2>6, <2>7, <2>8 DEF Base
<1>2. CASE HostCc("disable", Off, "disabling")
  <2>1. /\ host.st = "disable" /\ bar' = [bar EXCEPT !.cc = Off]
        /\ host' = [host EXCEPT !.st = "disabling"] /\ fresh' = fresh
        /\ UNCHANGED <<dbs, mem, devVars, out, hSq, hCq, granted, sent>>
    BY <1>2 DEF HostCc, HostIs
  <2>2. /\ bar' \in [aqa : {0, Depth}, asq : Pages, acq : Pages, cc : {Off, On, Shn},
                     rdy : {0, 1}, shst : {0, 2}]
        /\ bar'.asq = bar.asq /\ bar'.aqa = bar.aqa /\ bar'.acq = bar.acq
        /\ bar'.cc = Off /\ bar'.rdy = bar.rdy
    BY <1>0, <2>1 DEF Types
  <2>3. "disabling" \in States \ {"up"} /\ dbs.sq = old_dbs.sq /\ scan.at # "admin"
    BY <1>0, <2>1 DEF States, Idle
  <2>4. /\ Types' /\ Idle'
        /\ host'.st = "disabling" /\ host'.sq = host.sq /\ host'.cq = host.cq
        /\ host'.tail = host.tail /\ host'.head = host.head /\ host'.phase = host.phase
    <3>1. fresh' \in BOOLEAN
      BY <1>0, <2>1 DEF Types
    <3> QED
      BY <2>1, <2>2, <2>3, <3>1, HostMoves
  <2>5. UNCHANGED <<old_bar, old_dbs, admin_q, scan>>
    BY <2>1 DEF devVars
  <2>6. Registers' /\ AllSeen' = AllSeen
    BY <1>0, <2>1, <2>2, <2>4, <2>5, KeepsAddresses
  <2>7. Driver'
    BY <1>0, <2>1, <2>2, <2>4, <2>5, <2>6 DEF Driver
  <2>8. Begins'
    BY <2>4 DEF Begins
  <2> QED
    BY <2>4, <2>6, <2>7, <2>8 DEF Base
<1> QED
  BY <1>1, <1>2

(* The driver sees that the controller is shut down, or disabled.          *)
LEMMA HostSeesBase ==
    ASSUME Base, \/ HostSees("shutdown", bar.shst = 2, "disable")
                 \/ HostSees("disabling", bar.rdy = 0, "off")
    PROVE  Base' /\ host'.st # "up"
<1>0. Types /\ Registers /\ Driver /\ Idle /\ Begins
  BY DEF Base
<1>1. PICK st \in {"disable", "off"} :
          /\ st = "disable" => host.st = "shutdown"
          /\ st = "off" => host.st = "disabling" /\ bar.rdy = 0
          /\ host' = [host EXCEPT !.st = st]
          /\ UNCHANGED <<bar, dbs, mem, devVars, out, hSq, hCq, granted, sent, fresh>>
  BY DEF HostSees, HostIs
<1>2. st \in States \ {"up"} /\ dbs.sq = old_dbs.sq /\ scan.at # "admin"
  BY <1>0, <1>1 DEF States, Idle
<1>3. /\ bar' \in [aqa : {0, Depth}, asq : Pages, acq : Pages, cc : {Off, On, Shn},
                     rdy : {0, 1}, shst : {0, 2}]
      /\ fresh' \in BOOLEAN /\ fresh' = fresh
  BY <1>0, <1>1 DEF Types
<1>4. /\ Types' /\ Idle'
      /\ host'.st = st /\ host'.sq = host.sq /\ host'.cq = host.cq
  BY <1>1, <1>2, <1>3, HostMoves
<1>5. UNCHANGED <<bar, old_bar, old_dbs, admin_q, scan>>
  BY <1>1 DEF devVars
<1>6. Registers' /\ AllSeen' = AllSeen
  BY <1>0, <1>3, <1>4, <1>5, KeepsAddresses
<1>7. old_bar.cc.en = 0 => old_bar.cc = Off
  BY <1>0 DEF Types, On, Shn
<1>8. st = "off" => old_bar.cc = Off /\ bar.cc = Off
  BY <1>0, <1>1, <1>7 DEF Driver, Registers
<1>9. st = "disable" => bar.cc.en = 1 /\ old_bar.cc.en = 1
  BY <1>0, <1>1 DEF Driver, Shn
<1>10. Driver'
  BY <1>0, <1>1, <1>3, <1>4, <1>5, <1>6, <1>8, <1>9 DEF Driver
<1>11. Begins'
  BY <1>1, <1>4 DEF Begins
<1> QED
  BY <1>1, <1>4, <1>6, <1>10, <1>11 DEF Base

(* The driver sees that the controller is ready: both sides begin.         *)
LEMMA HostUpBase ==
    ASSUME Base, HostSees("enabling", bar.rdy = 1, "up")
    PROVE  Base' /\ Serves(0, 0)'
<1>0. Types /\ Registers /\ Driver /\ Idle /\ Begins
  BY DEF Base
<1>1. /\ host.st = "enabling" /\ bar.rdy = 1 /\ host' = [host EXCEPT !.st = "up"]
      /\ UNCHANGED <<bar, dbs, mem, old_bar, old_dbs, admin_q, scan, sqes, cqes, nr_queues,
                     fault, out, hSq, hCq, granted, sent, fresh>>
  BY DEF HostSees, HostIs, devVars
<1>2. /\ host' \in [st : States, tail : Slots, head : Slots, phase : {0, 1},
                    sq : Pages, cq : Pages]
      /\ host'.st = "up" /\ host'.sq = host.sq /\ host'.cq = host.cq
      /\ host'.tail = host.tail /\ host'.head = host.head /\ host'.phase = host.phase
  BY <1>0, <1>1 DEF Types, States
<1>3. Types'
  BY <1>0, <1>1, <1>2 DEF Types
<1>4. Registers' /\ AllSeen' = AllSeen
  BY <1>0, <1>1, <1>2, KeepsAddresses
<1>5. old_bar.cc.en = 1 /\ AllSeen /\ old_bar.cc = On /\ bar.cc = On
  <2>1. old_bar.cc.en = 1 /\ AllSeen
    BY <1>0, <1>1 DEF Registers
  <2>2. bar.cc = On /\ old_bar.cc \in {Off, On}
    BY <1>0, <1>1 DEF Driver
  <2>3. Off.en # 1
    BY DEF Off
  <2> QED
    BY <2>1, <2>2, <2>3
<1>6. Driver'
  BY <1>0, <1>1, <1>2, <1>4, <1>5 DEF Driver
<1>7. Idle' /\ Begins'
  BY <1>2 DEF Idle, Begins
<1>8. /\ host.tail = 0 /\ host.head = 0 /\ host.phase = 1 /\ sent = 0 /\ out = {}
      /\ hSq = {} /\ hCq = {} /\ granted = 0 /\ mem.cq[host.cq] = Empty
      /\ dbs.sq = 0 /\ admin_q.head = 0 /\ admin_q.phase = 1
  <2>1. old_bar.asq = host.sq /\ old_bar.acq = host.cq
    BY <1>0, <1>1, <1>5 DEF Driver, AllSeen
  <2> QED
    BY <1>0, <1>1, <2>1 DEF Begins
<1>9. Lap(0) = 1 /\ (0 % Depth) = 0 /\ 0 < Depth
  BY Sizes, LapFirst
<1>10. Counts(0, 0)'
  <2>1. /\ 0 <= sent' /\ sent' - 0 < Depth /\ out' = 0 + 1 .. sent'
        /\ host'.tail = (sent' % Depth) /\ dbs'.sq = host'.tail
        /\ host'.head = (0 % Depth) /\ host'.phase = Lap(0)
        /\ admin_q'.head = (0 % Depth) /\ admin_q'.phase = Lap(0)
    BY <1>1, <1>2, <1>8, <1>9
  <2> QED
    BY <2>1 DEF Counts, Lap
<1>11. Taking(0)'
  BY <1>0, <1>1, <1>8, <1>9 DEF Taking, Idle
<1>12. Rings(0, 0)'
  <2>1. ASSUME NEW k \in 0 + 1 .. 0 + Depth
        PROVE  CqCell(k)'.phase = 1 - Lap(k - 1)
    <3>1. PICK j \in Nat : j = k - 1 /\ j < Depth
      BY <2>1, Sizes
    <3>2. Lap(j) = 1 /\ (j % Depth) = j /\ j \in 0 .. Depth - 1
      BY <3>1, LapFirst, Sizes
    <3>3. CqCell(k)' = Empty[j]
      BY <1>1, <1>2, <1>8, <3>1, <3>2 DEF CqCell
    <3> QED
      BY <3>1, <3>2, <3>3 DEF Empty
  <2>2. 0 + 1 .. sent' = {} /\ 0 + 1 .. 0 = {}
    BY <1>1, <1>8
  <2> QED
    BY <2>1, <2>2 DEF Rings, Lap, CqCell
<1>13. QueuesAgree(0, 0)'
  BY <1>1, <1>8 DEF QueuesAgree
<1> QED
  BY <1>3, <1>4, <1>6, <1>7, <1>10, <1>11, <1>12, <1>13 DEF Base, Serves
-----------------------------------------------------------------------------
(* The driver is up. *)

(* The device works on the driver's rings.                                 *)
LEMMA UpFacts ==
    ASSUME Base, host.st = "up"
    PROVE  /\ old_bar.aqa = bar.aqa /\ old_bar.asq = bar.asq /\ old_bar.acq = bar.acq
           /\ old_bar.cc = bar.cc /\ old_bar.cc.en = 1 /\ bar.cc.en = 1
           /\ admin_q.sq = host.sq /\ admin_q.cq = host.cq /\ admin_q.depth = Depth
           /\ host.sq \in Addrs /\ host.cq \in Addrs
<1>0. Types /\ Registers /\ Driver
  BY DEF Base
<1>1. AllSeen /\ bar.asq = host.sq /\ bar.acq = host.cq /\ bar.cc = On /\ old_bar.cc = On
  BY <1>0 DEF Driver
<1>2. host.sq # 0 /\ host.cq # 0 /\ host.sq \in Pages /\ host.cq \in Pages
  BY <1>0 DEF Driver, Types
<1>3. bar.aqa = Depth
  BY <1>0, <1>2 DEF Registers
<1> QED
  BY <1>0, <1>1, <1>2, <1>3 DEF Registers, AllSeen, On, Pages

(* The driver stops once all its commands are answered.                    *)
LEMMA HostStopsBase ==
    ASSUME Base, HostStops, NEW r \in Nat, NEW t \in Nat, Serves(r, t)
    PROVE  Base' /\ host'.st # "up"
<1>0. Types /\ Registers /\ Driver /\ Idle /\ Begins
  BY DEF Base
<1>1. PICK how \in {"disable", "shutdown"} :
          /\ host' = [host EXCEPT !.st = how]
          /\ bar' = IF how = "shutdown" THEN [bar EXCEPT !.cc = [en |-> 1, shn |-> 1]] ELSE bar
  BY DEF HostStops
<1>2. /\ host.st = "up" /\ out = {} /\ fresh' = fresh
      /\ UNCHANGED <<dbs, mem, devVars, out, hSq, hCq, granted, sent>>
  BY DEF HostStops, HostIs
<1>3. r = t /\ t = sent
  <2>1. sent \in Nat /\ r <= t /\ t <= sent /\ r + 1 .. sent = {}
    <3>1. sent \in Nat
      BY <1>0 DEF Types
    <3>2. r <= t /\ t <= sent /\ out = r + 1 .. sent
      BY DEF Serves, Counts
    <3> QED
      BY <1>2, <3>1, <3>2
  <2>2. ~(r + 1 <= sent)
    <3>1. SUFFICES ASSUME r + 1 <= sent PROVE FALSE
      OBVIOUS
    <3>2. sent \in r + 1 .. sent
      BY <2>1, <3>1
    <3> QED
      BY <2>1, <3>2
  <2> QED
    BY <2>1, <2>2
<1>4. scan.at # "admin" /\ dbs.sq = old_dbs.sq
  <2>1. Taking(t) /\ dbs.sq = (sent % Depth) /\ t + 1 .. sent = {}
    BY <1>0, <1>3 DEF Serves, Counts, Types
  <2> QED
    BY <1>3, <2>1 DEF Taking
<1>5. bar.cc = On /\ old_bar.cc = On
  BY <1>0, <1>2 DEF Driver
<1>6. /\ bar' \in [aqa : {0, Depth}, asq : Pages, acq : Pages, cc : {Off, On, Shn},
                   rdy : {0, 1}, shst : {0, 2}]
      /\ bar'.asq = bar.asq /\ bar'.aqa = bar.aqa /\ bar'.acq = bar.acq
      /\ bar'.rdy = bar.rdy /\ bar'.cc = IF how = "shutdown" THEN Shn ELSE On
  <2>1. CASE how = "shutdown"
    <3>1. bar' = [bar EXCEPT !.cc = Shn]
      BY <1>1, <2>1 DEF Shn
    <3> QED
      BY <1>0, <2>1, <3>1 DEF Types
  <2>2. CASE how # "shutdown"
    BY <1>0, <1>1, <1>5, <2>2 DEF Types
  <2> QED
    BY <2>1, <2>2
<1>7. how \in States \ {"up"} /\ fresh' \in BOOLEAN
  BY <1>0, <1>2 DEF States, Types
<1>8. /\ Types' /\ Idle'
      /\ host'.st = how /\ host'.sq = host.sq /\ host'.cq = host.cq
  BY <1>1, <1>2, <1>4, <1>6, <1>7, HostMoves
<1>9. UNCHANGED <<old_bar, old_dbs, admin_q, scan>>
  BY <1>2 DEF devVars
<1>10. Registers' /\ AllSeen' = AllSeen
  BY <1>0, <1>2, <1>6, <1>8, <1>9, KeepsAddresses
<1>11. Driver'
  BY <1>0, <1>2, <1>5, <1>6, <1>8, <1>9, <1>10 DEF Driver, On, Shn
<1>12. Begins'
  BY <1>8 DEF Begins
<1> QED
  BY <1>8, <1>10, <1>11, <1>12 DEF Base

(* The dispatcher's pass changes nothing of what is served.                *)
LEMMA KeepsServes ==
    ASSUME NEW r \in Nat, NEW t \in Nat, Serves(r, t),
           UNCHANGED <<dbs, mem, host, admin_q, sqes, cqes, nr_queues,
                       out, hSq, hCq, granted, sent>>,
           Taking(t)'
    PROVE  Serves(r, t)'
<1>1. Counts(r, t)'
  BY DEF Serves, Counts, Lap
<1>2. Rings(r, t)'
  BY DEF Serves, Rings, SqCell, CqCell, Lap
<1>3. QueuesAgree(r, t)'
  BY DEF Serves, QueuesAgree, Sensible, Announced, Carried, SqCell, CqCell
<1> QED
  BY <1>1, <1>2, <1>3 DEF Serves

(* Nothing is changed in the registers while the driver is up.             *)
LEMMA ScansServe ==
    ASSUME Base, host.st = "up", ScanAqa \/ ScanAsq \/ ScanAcq \/ ScanCc,
           NEW r \in Nat, NEW t \in Nat, Serves(r, t)
    PROVE  Serves(r, t)'
<1>0. Types
  BY DEF Base
<1>1. /\ old_bar.aqa = bar.aqa /\ old_bar.asq = bar.asq /\ old_bar.acq = bar.acq
      /\ old_bar.cc = bar.cc
  BY UpFacts
<1>2. PICK at \in {"asq", "acq", "cc", "dbs"} :
          /\ scan.at # "admin" /\ scan' = [scan EXCEPT !.at = at]
          /\ UNCHANGED <<dbs, old_dbs, mem, host, admin_q, sqes, cqes, nr_queues,
                         out, hSq, hCq, granted, sent>>
  <2>1. CASE ScanAqa
    BY <1>1, <2>1 DEF ScanAqa, At, Goto, NextRegister, hostVars
  <2>2. CASE ScanAsq
    BY <1>1, <2>2 DEF ScanAsq, ScanAddress, At, Goto, NextRegister, hostVars
  <2>3. CASE ScanAcq
    BY <1>1, <2>3 DEF ScanAcq, ScanAddress, At, Goto, NextRegister, hostVars
  <2>4. CASE ScanCc
    BY <1>1, <2>4 DEF ScanCc, At, Goto, NextRegister, hostVars
  <2> QED
    BY <2>1, <2>2, <2>3, <2>4
<1>3. scan'.at # "admin"
  BY <1>0, <1>2 DEF Types
<1>4. Taking(t)'
  BY <1>2, <1>3 DEF Taking, Serves
<1> QED
  BY <1>2, <1>4, KeepsServes

(* The commands to take are those up to the doorbell.                      *)
LEMMA ScanDbsServes ==
    ASSUME Base, ScanDbs, NEW r \in Nat, NEW t \in Nat, Serves(r, t)
    PROVE  Serves(r, t)'
<1>0. Types
  BY DEF Base
<1>1. /\ UNCHANGED <<dbs, mem, host, admin_q, sqes, cqes, nr_queues,
                     out, hSq, hCq, granted, sent>>
      /\ scan.at = "dbs"
      /\ scan' = [at |-> IF dbs.sq # old_dbs.sq THEN "admin" ELSE "aqa",
                  curr |-> old_dbs.sq, new |-> dbs.sq]
      /\ old_dbs' = [old_dbs EXCEPT !.cq = dbs.cq]
  BY DEF ScanDbs, At, hostVars
<1>2. /\ old_dbs.sq = (t % Depth) /\ dbs.sq = (sent % Depth) /\ t <= sent /\ sent \in Nat
  BY <1>0, <1>1 DEF Serves, Taking, Counts, Types
<1>3. Taking(t)'
  <2>1. CASE dbs.sq # old_dbs.sq
    <3>1. t # sent
      BY <1>2, <2>1
    <3>2. sent \in t + 1 .. sent
      BY <1>2, <3>1
    <3>3. scan'.at = "admin" /\ scan'.curr = (t % Depth) /\ scan'.new = (sent % Depth)
      BY <1>1, <1>2, <2>1
    <3>4. sent' = sent
      BY <1>1
    <3> QED
      BY <3>2, <3>3, <3>4 DEF Taking
  <2>2. CASE dbs.sq = old_dbs.sq
    <3>1. scan'.at = "aqa" /\ old_dbs'.sq = old_dbs.sq
      BY <1>0, <1>1, <2>2 DEF Types
    <3> QED
      BY <1>2, <3>1 DEF Taking
  <2> QED
    BY <2>1, <2>2
<1> QED
  BY <1>1, <1>3, KeepsServes

(* Another entry of the ring is not the one written.                       *)
LEMMA OtherCells ==
    ASSUME NEW j \in Nat \ {0}
    PROVE  \A k \in Nat \ {0} : j # k /\ j - k < Depth /\ k - j < Depth =>
              /\ ((k - 1) % Depth) \in Slots
              /\ ((k - 1) % Depth) # ((j - 1) % Depth)
<1>1. ASSUME NEW k \in Nat \ {0}, j # k, j - k < Depth, k - j < Depth
      PROVE  ((k - 1) % Depth) \in Slots /\ ((k - 1) % Depth) # ((j - 1) % Depth)
  <2>1. ((k - 1) % Depth) \in Slots
    <3>1. k - 1 \in Nat
      OBVIOUS
    <3> QED
      BY <3>1, LapFacts
  <2>2. ((k - 1) % Depth) # ((j - 1) % Depth)
    BY <1>1, SlotsDiffer
  <2> QED
    BY <2>1, <2>2
<1> QED
  BY <1>1

(* The driver puts a command behind the others.                            *)
LEMMA HostAdminServes ==
    ASSUME Base, HostAdmin, NEW r \in Nat, NEW t \in Nat, Serves(r, t)
    PROVE  Base' /\ host'.st = "up" /\ Serves(r, t)'
<1>0. Types /\ Registers /\ Driver /\ Idle /\ Begins
  BY DEF Base
<1>1. PICK op \in AdminOps, n \in Queues \union Requests :
          /\ Sensible(op, n)
          /\ out = {} \/ op \in {"answer", "abort"}
          /\ Cardinality(out) < Depth - 1
          /\ mem' = [mem EXCEPT !.sq[host.sq][host.tail] =
                        [cmd |-> sent + 1, op |-> op, qid |-> n, phase |-> 0]]
  BY DEF HostAdmin
<1>2. /\ host.st = "up" /\ sent < MaxCmds
      /\ out' = out \union {sent + 1} /\ sent' = sent + 1
      /\ host' = [host EXCEPT !.tail = ((host.tail + 1) % Depth)]
      /\ dbs' = [dbs EXCEPT !.sq = ((host.tail + 1) % Depth)]
      /\ UNCHANGED <<bar, old_bar, old_dbs, admin_q, scan, sqes, cqes, nr_queues, fault,
                     hSq, hCq, granted, fresh>>
  BY DEF HostAdmin, HostIs, devVars
<1>3. PICK s \in Nat : s = sent /\ s + 1 \in 1 .. MaxCmds /\ s + 1 \in 0 .. MaxCmds
  BY <1>0, <1>2, Sizes DEF Types
<1>4. /\ r <= t /\ t <= s /\ s - r < Depth /\ out = r + 1 .. s
      /\ host.tail = (s % Depth) /\ dbs.sq = host.tail
      /\ host.head = (r % Depth) /\ host.phase = Lap(r)
      /\ admin_q.head = (t % Depth) /\ admin_q.phase = Lap(t)
  BY <1>3 DEF Serves, Counts
<1>5. ((host.tail + 1) % Depth) = ((s + 1) % Depth) /\ ((s + 1) % Depth) \in Slots
  BY <1>3, <1>4, LapFacts
<1>6. PICK c \in Cells : c = [cmd |-> s + 1, op |-> op, qid |-> n, phase |-> 0]
  <2>1. n \in Nat /\ op \in AdminOps \union {"none"}
    BY ControllerAssumption DEF Queues
  <2>2. [cmd |-> s + 1, op |-> op, qid |-> n, phase |-> 0] \in Cells
    BY <2>1 DEF Cells
  <2> QED
    BY <2>2
<1>7. host.sq \in Addrs
  BY <1>2, UpFacts
<1>8. PICK f \in [Addrs -> [Slots -> Cells]] : f = mem.sq
  BY <1>0 DEF Types
<1>9. PICK g \in [Addrs -> [Slots -> Cells]] :
          /\ g = mem'.sq /\ g[host.sq][(s % Depth)] = c
          /\ \A k \in 1 .. s : s + 1 - k < Depth =>
                g[host.sq][((k - 1) % Depth)] = f[host.sq][((k - 1) % Depth)]
  <2>1. PICK j \in Nat \ {0} : j = s + 1 /\ j - 1 = s
    OBVIOUS
  <2>2. PICK g \in [Addrs -> [Slots -> Cells]] :
            /\ g = mem'.sq /\ g[host.sq][(s % Depth)] = c
            /\ \A i \in Slots : i # (s % Depth) => g[host.sq][i] = f[host.sq][i]
    <3>1. PICK m \in Slots : m = (s % Depth)
      BY LapFacts
    <3>2. mem'.sq = [f EXCEPT ![host.sq][m] = c]
      BY <1>0, <1>1, <1>3, <1>4, <1>6, <1>8, <3>1 DEF Types
    <3>3. PICK g \in [Addrs -> [Slots -> Cells]] : g = [f EXCEPT ![host.sq][m] = c]
      BY <1>6, <1>7, <1>8
    <3>4. g[host.sq][m] = c /\ \A i \in Slots : i # m => g[host.sq][i] = f[host.sq][i]
      BY <1>7, <1>8, <3>3
    <3> QED
      BY <3>1, <3>2, <3>3, <3>4
  <2>3. \A k \in Nat \ {0} : j # k /\ j - k < Depth /\ k - j < Depth =>
              g[host.sq][((k - 1) % Depth)] = f[host.sq][((k - 1) % Depth)]
    <3>1. \A k \in Nat \ {0} : j # k /\ j - k < Depth /\ k - j < Depth =>
              /\ ((k - 1) % Depth) \in Slots
              /\ ((k - 1) % Depth) # ((j - 1) % Depth)
      BY <2>1, OtherCells
    <3> QED
      BY <2>1, <2>2, <3>1
  <2>4. ASSUME NEW k \in 1 .. s, s + 1 - k < Depth
        PROVE  g[host.sq][((k - 1) % Depth)] = f[host.sq][((k - 1) % Depth)]
    <3>1. k \in Nat \ {0} /\ j # k /\ j - k < Depth /\ k - j < Depth
      BY <2>1, <2>4, Sizes
    <3> QED
      BY <2>3, <3>1
  <2> QED
    BY <2>2, <2>4
<1>10. mem'.cq = mem.cq /\ mem' \in [sq : [Addrs -> [Slots -> Cells]], cq : [Addrs -> [Slots -> Cells]]]
  <2>1. mem'.cq = mem.cq /\ mem' = [mem EXCEPT !.sq = g]
    BY <1>0, <1>1, <1>9 DEF Types
  <2> QED
    BY <1>0, <2>1 DEF Types
<1>11. /\ host' \in [st : States, tail : Slots, head : Slots, phase : {0, 1},
                     sq : Pages, cq : Pages]
       /\ host'.st = "up" /\ host'.sq = host.sq /\ host'.cq = host.cq
       /\ host'.head = host.head /\ host'.phase = host.phase
       /\ host'.tail = ((s + 1) % Depth)
  BY <1>0, <1>2, <1>5 DEF Types
<1>12. dbs' \in [sq : Slots, cq : Slots] /\ dbs'.sq = ((s + 1) % Depth)
  BY <1>0, <1>2, <1>5 DEF Types
<1>13. sent' = s + 1 /\ out' = r + 1 .. s + 1
  <2>1. (r + 1 .. s) \union {s + 1} = r + 1 .. s + 1
    <3>1. PICK a \in Nat : a = r + 1 /\ a <= s + 1
      BY <1>4
    <3>2. (a .. s) \union {s + 1} = a .. s + 1
      BY <3>1
    <3> QED
      BY <3>1, <3>2
  <2> QED
    BY <1>2, <1>3, <1>4, <2>1
<1>14. (s + 1) - r < Depth
  <2>1. Cardinality(r + 1 .. s) = s - r
    <3>1. r + 1 \in Int /\ s \in Int /\ s - (r + 1) + 1 = s - r
      OBVIOUS
    <3>2. Cardinality(r + 1 .. s) = IF r + 1 > s THEN 0 ELSE s - (r + 1) + 1
      BY <3>1, FS_Interval
    <3>3. r + 1 > s => s - r = 0
      BY <1>4
    <3> QED
      BY <3>1, <3>2, <3>3
  <2>2. s - r < Depth - 1
    BY <1>1, <1>4, <2>1
  <2> QED
    BY <2>2, Sizes
<1>15. Types'
  <2>1. sent' \in 0 .. MaxCmds /\ out' \subseteq 1 .. MaxCmds
    <3>1. out \subseteq 1 .. MaxCmds
      BY <1>0 DEF Types
    <3> QED
      BY <1>2, <1>3, <3>1
  <2> QED
    BY <1>0, <1>2, <1>10, <1>11, <1>12, <2>1 DEF Types
<1>16. Registers' /\ Driver'
  BY <1>0, <1>2, <1>11, KeepsRegisters
<1>17. Idle' /\ Begins'
  BY <1>11 DEF Idle, Begins
<1>18. Counts(r, t)'
  <2>1. r <= t /\ t <= s + 1
    BY <1>4
  <2>2. admin_q' = admin_q
    BY <1>2
  <2>3. /\ r <= t /\ t <= sent' /\ sent' - r < Depth /\ out' = r + 1 .. sent'
        /\ host'.tail = (sent' % Depth) /\ dbs'.sq = host'.tail
        /\ host'.head = (r % Depth) /\ host'.phase = Lap(r)
        /\ admin_q'.head = (t % Depth) /\ admin_q'.phase = Lap(t)
    BY <1>4, <1>11, <1>12, <1>13, <1>14, <2>1, <2>2
  <2> QED
    BY <2>3 DEF Counts, Lap
<1>19. Taking(t)'
  <2>1. UNCHANGED <<scan, old_dbs>> /\ t + 1 .. s \subseteq t + 1 .. s + 1
    BY <1>2
  <2> QED
    BY <1>3, <1>13, <2>1 DEF Serves, Taking
<1>20. \A k \in t + 1 .. s : SqCell(k)' = SqCell(k)
  <2>1. ASSUME NEW k \in t + 1 .. s
        PROVE  SqCell(k)' = SqCell(k)
    <3>1. k \in 1 .. s /\ s + 1 - k < Depth
      <4>1. PICK d \in Nat : d = Depth /\ s + 1 - r < d
        BY <1>14, Sizes
      <4>2. r <= t
        BY <1>4
      <4>3. k \in 1 .. s /\ s + 1 - k < d
        BY <4>1, <4>2
      <4> QED
        BY <4>1, <4>3
    <3>2. g[host.sq][((k - 1) % Depth)] = f[host.sq][((k - 1) % Depth)]
      BY <1>9, <3>1
    <3> QED
      BY <1>8, <1>9, <1>11, <3>2 DEF SqCell
  <2> QED
    BY <2>1
<1>21. SqCell(s + 1)' = c
  <2>1. s + 1 - 1 = s
    OBVIOUS
  <2>2. SqCell(s + 1)' = mem'.sq[host'.sq][(s % Depth)]
    BY <2>1 DEF SqCell
  <2> QED
    BY <1>9, <1>11, <2>2
<1>22. \A k \in Nat : CqCell(k)' = CqCell(k)
  BY <1>10, <1>11 DEF CqCell
<1>23. Rings(r, t)'
  <2>1. Rings(r, t)
    BY DEF Serves
  <2>2. ASSUME NEW k \in t + 1 .. s + 1
        PROVE  /\ SqCell(k)'.cmd = k /\ SqCell(k)'.op \in AdminOps
               /\ k > r + 1 => SqCell(k)'.op \notin QueueOps
    <3>1. CASE k = s + 1
      <4>1. c.cmd = s + 1 /\ c.op = op
        BY <1>6
      <4>2. ASSUME k > r + 1
            PROVE  op \notin QueueOps
        <5>1. s \in out
          BY <1>4, <3>1, <4>2
        <5> QED
          BY <1>1, <5>1 DEF QueueOps
      <4> QED
        BY <1>21, <3>1, <4>1, <4>2
    <3>2. CASE k # s + 1
      <4>1. k \in t + 1 .. s
        BY <3>2
      <4> QED
        BY <1>3, <1>20, <2>1, <4>1 DEF Rings
    <3> QED
      BY <3>1, <3>2
  <2>3. \A k \in r + 1 .. t :
          /\ CqCell(k)'.cmd = k /\ CqCell(k)'.phase = Lap(k - 1)
          /\ k > r + 1 => CqCell(k)'.op \notin QueueOps
    <3>1. \A k \in r + 1 .. t : k \in Nat
      OBVIOUS
    <3> QED
      BY <1>22, <2>1, <3>1 DEF Rings
  <2>4. \A k \in t + 1 .. r + Depth : CqCell(k)'.phase = 1 - Lap(k - 1)
    <3>1. \A k \in t + 1 .. r + Depth : k \in Nat
      OBVIOUS
    <3> QED
      BY <1>22, <2>1, <3>1 DEF Rings
  <2> QED
    BY <1>13, <2>2, <2>3, <2>4 DEF Rings, Lap
<1>24. QueuesAgree(r, t)'
  <2>1. QueuesAgree(r, t)
    BY DEF Serves
  <2>2. UNCHANGED <<hSq, hCq, granted, sqes, cqes, nr_queues>>
    BY <1>2
  <2>3. ASSUME t = r, SqCell(r + 1)'.op \in QueueOps
        PROVE  Sensible(SqCell(r + 1)'.op, SqCell(r + 1)'.qid)
    <3>1. CASE s = r
      <4>1. SqCell(r + 1)' = c /\ c.op = op /\ c.qid = n
        BY <1>6, <1>21, <3>1
      <4> QED
        BY <1>1, <4>1
    <3>2. CASE s # r
      <4>1. r + 1 \in t + 1 .. s /\ r < s
        BY <1>4, <2>3, <3>2
      <4>2. SqCell(r + 1)' = SqCell(r + 1)
        BY <1>20, <4>1
      <4> QED
        BY <1>3, <2>1, <2>3, <4>1, <4>2 DEF QueuesAgree
    <3> QED
      BY <3>1, <3>2
  <2>5. /\ CqCell(r + 1)' = CqCell(r + 1)
    BY <1>22
  <2>6. t = r /\ SqCell(r + 1)'.op \in QueueOps => Sensible(SqCell(r + 1).op, SqCell(r + 1).qid)'
    BY <2>2, <2>3 DEF Sensible
  <2> QED
    BY <2>1, <2>2, <2>5, <2>6 DEF QueuesAgree, Announced, Carried
<1> QED
  BY <1>11, <1>15, <1>16, <1>17, <1>18, <1>19, <1>23, <1>24 DEF Base, Serves

(* An admin command that is not the oldest is none on queues, so it leaves *)
(* them alone.                                                             *)
LEMMA CommandTaken ==
    ASSUME Base, ProcAdmin, NEW r \in Nat, NEW t \in Nat, Serves(r, t), "abort" \notin AdminOps
    PROVE  LET c == SqCell(t + 1)
               e == [cmd |-> c.cmd, op |-> c.op, phase |-> Lap(t), qid |-> Result(c)]
           IN  /\ host.st = "up" /\ t < sent /\ c \in Cells /\ e \in Cells
               /\ t > r => c.op \notin QueueOps
               /\ t = r /\ c.op \in QueueOps => Sensible(c.op, c.qid)
               /\ mem' = [mem EXCEPT !.cq[host.cq][(t % Depth)] = e]
               /\ admin_q' = [admin_q EXCEPT !.head = ((t + 1) % Depth), !.phase = Lap(t + 1)]
               /\ sqes' = SqesAfter(c) /\ cqes' = CqesAfter(c)
               /\ nr_queues' = IF c.op = "set_queues" THEN Granted(c.qid) ELSE nr_queues
               /\ UNCHANGED <<bar, dbs, old_bar, fault, host, out, hSq, hCq, granted, sent, fresh>>
<1>0. Types /\ Registers /\ Driver /\ Idle /\ Begins
  BY DEF Base
<1>1. scan.at = "admin" /\ host.st = "up"
  BY <1>0 DEF ProcAdmin, At, Idle
<1>2. /\ admin_q.sq = host.sq /\ admin_q.cq = host.cq /\ admin_q.depth = Depth
      /\ host.sq \in Addrs /\ host.cq \in Addrs /\ admin_q.sq # 0 /\ admin_q.cq # 0
  BY <1>1, UpFacts, Sizes
<1>3. PICK s \in Nat : s = sent
  BY <1>0 DEF Types
<1>4. /\ r <= t /\ t <= s /\ admin_q.head = (t % Depth) /\ admin_q.phase = Lap(t)
  BY <1>3 DEF Serves, Counts
<1>5. scan.curr = (t % Depth) /\ t < s
  <2>1. PICK n \in t + 1 .. sent : TRUE
    BY <1>1 DEF Serves, Taking
  <2> QED
    BY <1>1, <1>3, <2>1 DEF Serves, Taking
<1>6. /\ (t % Depth) \in Slots /\ Lap(t) \in {0, 1}
      /\ (((t % Depth) + 1) % Depth) = ((t + 1) % Depth)
      /\ Lap(t + 1) = IF (t % Depth) + 1 = Depth THEN 1 - Lap(t) ELSE Lap(t)
  BY LapFacts
<1>7. PICK c : c = SqCell(t + 1) /\ c = mem.sq[admin_q.sq][scan.curr]
  <2>1. t + 1 - 1 = t
    OBVIOUS
  <2>2. SqCell(t + 1) = mem.sq[host.sq][(t % Depth)]
    BY <2>1 DEF SqCell
  <2> QED
    BY <1>2, <1>5, <2>2
<1>8. c \in Cells
  BY <1>0, <1>2, <1>5, <1>6, <1>7 DEF Types
<1>9. c.op \in AdminOps /\ c.op # "abort" /\ (t > r => c.op \notin QueueOps)
  <2>1. t + 1 \in t + 1 .. sent
    BY <1>3, <1>5
  <2>2. SqCell(t + 1).op \in AdminOps /\ (t + 1 > r + 1 => SqCell(t + 1).op \notin QueueOps)
    BY <2>1 DEF Serves, Rings
  <2> QED
    BY <1>7, <2>2
<1>10. t = r /\ c.op \in QueueOps => Sensible(c.op, c.qid)
  BY <1>3, <1>5, <1>7 DEF Serves, QueuesAgree
<1>11. PICK e : e = [cmd |-> c.cmd, op |-> c.op, phase |-> Lap(t), qid |-> Result(c)]
  OBVIOUS
<1>12. c.cmd \in Nat /\ c.op \in AdminOps \union {"none"} /\ c.qid \in Nat
  BY <1>8 DEF Cells
<1>13. Result(c) \in Nat
  <2>1. nr_queues \in Nat /\ Granted(c.qid) \in Nat
    BY <1>0, <1>12, Sizes DEF Types, Granted
  <2> QED
    BY <1>12, <2>1 DEF Result
<1>14. e \in Cells
  BY <1>6, <1>11, <1>12, <1>13 DEF Cells
<1>15. /\ mem' = [mem EXCEPT !.cq[admin_q.cq][admin_q.head] =
                    [cmd |-> c.cmd, op |-> c.op, phase |-> admin_q.phase, qid |-> Result(c)]]
       /\ admin_q' = QueueAfter(admin_q) /\ sqes' = SqesAfter(c) /\ cqes' = CqesAfter(c)
       /\ nr_queues' = IF c.op = "set_queues" THEN Granted(c.qid) ELSE nr_queues
       /\ UNCHANGED fault
  BY <1>2, <1>7, <1>9 DEF ProcAdmin
<1>16. mem' = [mem EXCEPT !.cq[host.cq][(t % Depth)] = e]
  BY <1>2, <1>4, <1>11, <1>15
<1>17. admin_q' = [admin_q EXCEPT !.head = ((t + 1) % Depth), !.phase = Lap(t + 1)]
  <2>1. admin_q' = [admin_q EXCEPT !.head = ((admin_q.head + 1) % Depth),
                      !.phase = IF admin_q.head + 1 = Depth THEN 1 - admin_q.phase
                                ELSE admin_q.phase]
    BY <1>0, <1>2, <1>15 DEF QueueAfter, Types
  <2> QED
    BY <1>4, <1>6, <2>1
<1>18. UNCHANGED <<bar, dbs, old_bar, host, out, hSq, hCq, granted, sent, fresh>>
  BY DEF ProcAdmin, hostVars
<1>19. host.st = "up" /\ t < sent
  BY <1>1, <1>3, <1>5
<1> QED
  BY <1>7, <1>8, <1>9, <1>10, <1>11, <1>14, <1>15, <1>16, <1>17, <1>18, <1>19

(* The number of the command and the dispatcher's position.                *)
LEMMA ScanTakes ==
    ASSUME Base, ProcAdmin, NEW r \in Nat, NEW t \in Nat, Serves(r, t)
    PROVE  /\ Taking(t + 1)' /\ sent' = sent
           /\ scan' \in [at : {"aqa", "admin"}, curr : Slots, new : Slots]
           /\ old_dbs' \in [sq : Slots, cq : Slots]
<1>0. Types /\ Idle
  BY DEF Base
<1>1. scan.at = "admin" /\ host.st = "up" /\ sent' = sent
  BY <1>0 DEF ProcAdmin, At, Idle, hostVars
<1>2. admin_q.depth = Depth /\ admin_q.sq # 0 /\ admin_q.cq # 0
  BY <1>1, UpFacts, Sizes
<1>3. PICK s \in Nat : s = sent
  BY <1>0 DEF Types
<1>4. PICK n \in t + 1 .. s : scan.curr = (t % Depth) /\ scan.new = (n % Depth)
  BY <1>1, <1>3 DEF Serves, Taking
<1>5. r <= t /\ s - r < Depth
  BY <1>3 DEF Serves, Counts
<1>6. ((scan.curr + 1) % Depth) = ((t + 1) % Depth) /\ ((t + 1) % Depth) \in Slots
  BY <1>4, LapFacts
<1>7. PICK next \in Slots : next = ((t + 1) % Depth)
  BY <1>6
<1>8. next = scan.new <=> n = t + 1
  <2>1. ASSUME t + 1 < n
        PROVE  next # scan.new
    <3>1. PICK a \in Nat, b \in Nat : a = t + 1 /\ b = n /\ a < b /\ b - a < Depth
      BY <1>4, <1>5, <2>1, Sizes
    <3>2. Depth \in Nat \ {0}
      BY Sizes
    <3>3. (a % Depth) # (b % Depth)
      BY <3>1, <3>2, ModDistinct
    <3> QED
      BY <1>4, <1>7, <3>1, <3>3
  <2>2. n = t + 1 \/ t + 1 < n
    BY <1>4
  <2> QED
    BY <1>4, <1>7, <2>1, <2>2
<1>9. /\ scan' = [scan EXCEPT !.curr = next, !.at = IF next = scan.new THEN "aqa" ELSE "admin"]
      /\ old_dbs' = IF next = scan.new THEN [old_dbs EXCEPT !.sq = scan.new] ELSE old_dbs
  BY <1>2, <1>6, <1>7 DEF ProcAdmin, Taken
<1>10. /\ scan' \in [at : {"aqa", "admin"}, curr : Slots, new : Slots]
       /\ scan'.curr = next /\ scan'.new = scan.new
       /\ scan'.at = IF next = scan.new THEN "aqa" ELSE "admin"
       /\ scan.new \in Slots
  BY <1>0, <1>9 DEF Types
<1>11. /\ old_dbs' \in [sq : Slots, cq : Slots]
       /\ next = scan.new => old_dbs'.sq = next
  BY <1>0, <1>9, <1>10 DEF Types
<1>12. Taking(t + 1)'
  <2>1. CASE n = t + 1
    <3>1. scan'.at = "aqa" /\ old_dbs'.sq = ((t + 1) % Depth)
      BY <1>7, <1>8, <1>10, <1>11, <2>1
    <3> QED
      BY <3>1 DEF Taking
  <2>2. CASE n # t + 1
    <3>1. scan'.at = "admin" /\ scan'.curr = ((t + 1) % Depth) /\ scan'.new = (n % Depth)
      BY <1>4, <1>7, <1>8, <1>10, <2>2
    <3>2. n \in t + 1 + 1 .. sent'
      BY <1>1, <1>3, <1>4, <2>2
    <3> QED
      BY <3>1, <3>2 DEF Taking
  <2> QED
    BY <2>1, <2>2
<1> QED
  BY <1>1, <1>10, <1>11, <1>12

(* What a command on queues does, and what its completion announces.       *)
LEMMA CommandCarried ==
    ASSUME Types, NEW c \in Cells, c.op \in QueueOps => Sensible(c.op, c.qid),
           hSq \subseteq hCq, hCq \subseteq 1 .. granted,
           sqes' = SqesAfter(c), cqes' = CqesAfter(c),
           nr_queues' = IF c.op = "set_queues" THEN Granted(c.qid) ELSE nr_queues
    PROVE  /\ sqes' \in [Queues -> 0 .. NrMaxQueue] /\ cqes' \in [Queues -> BOOLEAN]
           /\ nr_queues' \in 0 .. NrMaxQueue
           /\ c.op \in {"set_queues", "get_queues"} =>
                 Result(c) = nr_queues' /\ hSq = {} /\ hCq = {}
           /\ c.op = "create_cq" => c.qid \in 1 .. granted /\ cqes'[c.qid]
           /\ c.op = "create_sq" => c.qid \in hCq /\ sqes'[c.qid] = c.qid
           /\ c.op = "delete_cq" => c.qid \notin hSq
           /\ c.op \notin {"set_queues", "get_queues"} => Result(c) = c.qid
           /\ \A s \in hSq : sqes[s] = s => sqes'[s] = s \/ (c.op = "delete_sq" /\ c.qid = s)
           /\ \A q \in hCq : cqes[q] => cqes'[q] \/ (c.op = "delete_cq" /\ c.qid = q)
           /\ c.op # "set_queues" => nr_queues' = nr_queues
<1>1. c.cmd \in Nat /\ c.qid \in Nat
  BY DEF Cells
<1>2. /\ sqes \in [Queues -> 0 .. NrMaxQueue] /\ cqes \in [Queues -> BOOLEAN]
      /\ nr_queues \in 0 .. NrMaxQueue /\ hSq \subseteq Queues /\ hCq \subseteq Queues
      /\ granted \in 0 .. NrMaxQueue
  BY DEF Types
<1>3. \A q \in 1 .. granted : q \in Queues
  BY <1>2, Sizes DEF Queues
<1>4. \A q \in Queues : q \in 0 .. NrMaxQueue
  BY Sizes DEF Queues
<1>5. Result(c) = IF c.op = "set_queues" THEN Granted(c.qid)
                  ELSE IF c.op = "get_queues" THEN nr_queues ELSE c.qid
  BY DEF Result
<1>6. CASE c.op = "set_queues"
  <2>1. sqes' = sqes /\ cqes' = cqes /\ nr_queues' = Granted(c.qid) /\ hSq = {} /\ hCq = {}
    BY <1>6 DEF SqesAfter, CqesAfter, Sensible, QueueOps
  <2>2. Granted(c.qid) \in 0 .. NrMaxQueue
    BY <1>1, Sizes DEF Granted
  <2> QED
    BY <1>2, <1>5, <1>6, <2>1, <2>2
<1>7. CASE c.op = "get_queues"
  <2>1. c.op \in QueueOps
    BY <1>7 DEF QueueOps
  <2>2. sqes' = sqes /\ cqes' = cqes /\ nr_queues' = nr_queues /\ hCq = {}
    BY <1>7, <2>1 DEF SqesAfter, CqesAfter, Sensible
  <2>3. hSq = {}
    BY <2>2
  <2> QED
    BY <1>2, <1>5, <1>7, <2>2, <2>3
<1>8. CASE c.op = "create_cq"
  <2>1. c.op \in QueueOps
    BY <1>8 DEF QueueOps
  <2>2. /\ sqes' = sqes /\ cqes' = [cqes EXCEPT ![c.qid] = TRUE] /\ nr_queues' = nr_queues
        /\ c.qid \in 1 .. granted
    BY <1>8, <2>1 DEF SqesAfter, CqesAfter, Sensible
  <2>3. c.qid \in Queues
    BY <1>3, <2>2
  <2> QED
    BY <1>2, <1>5, <1>8, <2>2, <2>3
<1>9. CASE c.op = "create_sq"
  <2>1. c.op \in QueueOps
    BY <1>9 DEF QueueOps
  <2>2. /\ sqes' = [sqes EXCEPT ![c.qid] = c.qid] /\ cqes' = cqes /\ nr_queues' = nr_queues
        /\ c.qid \in hCq \ hSq
    BY <1>9, <2>1 DEF SqesAfter, CqesAfter, Sensible
  <2>3. c.qid \in Queues /\ c.qid \in 0 .. NrMaxQueue
    BY <1>2, <1>4, <2>2
  <2> QED
    BY <1>2, <1>5, <1>9, <2>2, <2>3
<1>10. CASE c.op = "delete_sq"
  <2>1. c.op \in QueueOps
    BY <1>10 DEF QueueOps
  <2>2. /\ sqes' = [sqes EXCEPT ![c.qid] = 0] /\ cqes' = cqes /\ nr_queues' = nr_queues
        /\ c.qid \in hSq
    BY <1>10, <2>1 DEF SqesAfter, CqesAfter, Sensible
  <2>3. c.qid \in Queues /\ 0 \in 0 .. NrMaxQueue
    <3>1. 0 \in 0 .. NrMaxQueue
      BY Sizes
    <3> QED
      BY <1>2, <2>2, <3>1
  <2> QED
    BY <1>2, <1>5, <1>10, <2>2, <2>3
<1>11. CASE c.op = "delete_cq"
  <2>1. c.op \in QueueOps
    BY <1>11 DEF QueueOps
  <2>2. /\ sqes' = sqes /\ cqes' = [cqes EXCEPT ![c.qid] = FALSE] /\ nr_queues' = nr_queues
        /\ c.qid \in hCq \ hSq
    BY <1>11, <2>1 DEF SqesAfter, CqesAfter, Sensible
  <2>3. c.qid \in Queues
    BY <1>2, <2>2
  <2> QED
    BY <1>2, <1>5, <1>11, <2>2, <2>3
<1>12. CASE c.op \notin QueueOps
  <2>1. sqes' = sqes /\ cqes' = cqes /\ nr_queues' = nr_queues
    BY <1>12 DEF SqesAfter, CqesAfter, QueueOps
  <2> QED
    BY <1>2, <1>5, <1>12, <2>1 DEF QueueOps
<1> QED
  BY <1>6, <1>7, <1>8, <1>9, <1>10, <1>11, <1>12 DEF QueueOps

(* __nvmev_admin_cmd_...(), __make_cq_entry_results(): one command further. *)
LEMMA ProcAdminServes ==
    ASSUME Base, ProcAdmin, NEW r \in Nat, NEW t \in Nat, Serves(r, t), "abort" \notin AdminOps
    PROVE  Base' /\ host'.st = "up" /\ Serves(r, t + 1)'
<1>0. Types /\ Registers /\ Driver /\ Idle /\ Begins
  BY DEF Base
<1>1. PICK c, e :
         /\ c = SqCell(t + 1)
         /\ e = [cmd |-> c.cmd, op |-> c.op, phase |-> Lap(t), qid |-> Result(c)]
         /\ host.st = "up" /\ t < sent /\ c \in Cells /\ e \in Cells
         /\ t > r => c.op \notin QueueOps
         /\ t = r /\ c.op \in QueueOps => Sensible(c.op, c.qid)
         /\ mem' = [mem EXCEPT !.cq[host.cq][(t % Depth)] = e]
         /\ admin_q' = [admin_q EXCEPT !.head = ((t + 1) % Depth), !.phase = Lap(t + 1)]
         /\ sqes' = SqesAfter(c) /\ cqes' = CqesAfter(c)
         /\ nr_queues' = IF c.op = "set_queues" THEN Granted(c.qid) ELSE nr_queues
         /\ UNCHANGED <<bar, dbs, old_bar, fault, host, out, hSq, hCq, granted, sent, fresh>>
  BY CommandTaken
<1>2. /\ Taking(t + 1)' /\ sent' = sent
      /\ scan' \in [at : {"aqa", "admin"}, curr : Slots, new : Slots]
      /\ old_dbs' \in [sq : Slots, cq : Slots]
  BY ScanTakes
<1>3. PICK s \in Nat : s = sent
  BY <1>0 DEF Types
<1>4. /\ r <= t /\ t + 1 <= s /\ s - r < Depth /\ out = r + 1 .. s
      /\ host.tail = (s % Depth) /\ dbs.sq = host.tail
      /\ host.head = (r % Depth) /\ host.phase = Lap(r)
  BY <1>1, <1>3 DEF Serves, Counts
<1>5. /\ c.cmd = t + 1 /\ c.op \in AdminOps
  <2>1. t + 1 \in t + 1 .. sent
    BY <1>1, <1>3
  <2> QED
    BY <1>1, <2>1 DEF Serves, Rings
<1>6. /\ (t % Depth) \in Slots /\ ((t + 1) % Depth) \in Slots /\ Lap(t + 1) \in {0, 1}
  BY LapFacts
<1>7. /\ sqes' \in [Queues -> 0 .. NrMaxQueue] /\ cqes' \in [Queues -> BOOLEAN]
      /\ nr_queues' \in 0 .. NrMaxQueue
      /\ c.op \in {"set_queues", "get_queues"} =>
            Result(c) = nr_queues' /\ hSq = {} /\ hCq = {}
      /\ c.op = "create_cq" => c.qid \in 1 .. granted /\ cqes'[c.qid]
      /\ c.op = "create_sq" => c.qid \in hCq /\ sqes'[c.qid] = c.qid
      /\ c.op = "delete_cq" => c.qid \notin hSq
      /\ c.op \notin {"set_queues", "get_queues"} => Result(c) = c.qid
      /\ \A i \in hSq : sqes[i] = i => sqes'[i] = i \/ (c.op = "delete_sq" /\ c.qid = i)
      /\ \A i \in hCq : cqes[i] => cqes'[i] \/ (c.op = "delete_cq" /\ c.qid = i)
      /\ c.op # "set_queues" => nr_queues' = nr_queues
  <2>1. c.op \in QueueOps => Sensible(c.op, c.qid)
    BY <1>1, <1>4
  <2>2. hSq \subseteq hCq /\ hCq \subseteq 1 .. granted
    BY DEF Serves, QueuesAgree
  <2>3. c \in Cells /\ sqes' = SqesAfter(c) /\ cqes' = CqesAfter(c)
    BY <1>1
  <2>4. nr_queues' = IF c.op = "set_queues" THEN Granted(c.qid) ELSE nr_queues
    BY <1>1
  <2> QED
    BY <1>0, <2>1, <2>2, <2>3, <2>4, CommandCarried
<1>8. host.cq \in Addrs /\ admin_q.sq = host.sq /\ admin_q.cq = host.cq
  BY <1>1, UpFacts
<1>9. PICK f \in [Addrs -> [Slots -> Cells]] : f = mem.cq
  BY <1>0 DEF Types
<1>10. PICK g \in [Addrs -> [Slots -> Cells]] :
          /\ g = mem'.cq /\ g[host.cq][(t % Depth)] = e
          /\ \A i \in Slots : i # (t % Depth) => g[host.cq][i] = f[host.cq][i]
          /\ mem'.sq = mem.sq /\ mem' = [mem EXCEPT !.cq = g]
  <2>1. PICK m \in Slots : m = (t % Depth)
    BY <1>6
  <2>2. /\ mem'.cq = [f EXCEPT ![host.cq][m] = e] /\ mem'.sq = mem.sq
        /\ mem' = [mem EXCEPT !.cq = mem'.cq]
    BY <1>0, <1>1, <1>9, <2>1 DEF Types
  <2>3. PICK g \in [Addrs -> [Slots -> Cells]] : g = [f EXCEPT ![host.cq][m] = e]
    BY <1>1, <1>8, <1>9
  <2>4. g[host.cq][m] = e /\ \A i \in Slots : i # m => g[host.cq][i] = f[host.cq][i]
    BY <1>8, <1>9, <2>3
  <2> QED
    BY <2>1, <2>2, <2>3, <2>4
<1>11. /\ admin_q' \in [sq : Pages, cq : Pages, depth : {0, Depth}, head : Slots, phase : {0, 1}]
       /\ admin_q'.sq = admin_q.sq /\ admin_q'.cq = admin_q.cq /\ admin_q'.depth = admin_q.depth
       /\ admin_q'.head = ((t + 1) % Depth) /\ admin_q'.phase = Lap(t + 1)
  BY <1>0, <1>1, <1>6 DEF Types
<1>12. Types'
  <2>1. mem' \in [sq : [Addrs -> [Slots -> Cells]], cq : [Addrs -> [Slots -> Cells]]]
    BY <1>0, <1>10 DEF Types
  <2>2. scan' \in [at : {"aqa", "asq", "acq", "cc", "dbs", "admin"}, curr : Slots, new : Slots]
    BY <1>2
  <2>3. UNCHANGED <<bar, dbs, old_bar, fault, host, out, hSq, hCq, granted, sent, fresh>>
    BY <1>1
  <2>4. /\ sqes' \in [Queues -> 0 .. NrMaxQueue] /\ cqes' \in [Queues -> BOOLEAN]
        /\ nr_queues' \in 0 .. NrMaxQueue
    BY <1>7
  <2> QED
    BY <1>0, <1>2, <1>11, <2>1, <2>2, <2>3, <2>4 DEF Types
<1>13. Registers' /\ Driver'
  <2>1. scan'.at \in {"aqa", "dbs", "admin"}
    BY <1>2
  <2> QED
    BY <1>0, <1>1, <1>11, <2>1, KeepsRegisters
<1>14. host'.st = "up" /\ Idle' /\ Begins'
  BY <1>1 DEF Idle, Begins
<1>15. Counts(r, t + 1)'
  <2>1. r <= t + 1
    BY <1>4
  <2>2. /\ r <= t + 1 /\ t + 1 <= sent' /\ sent' - r < Depth /\ out' = r + 1 .. sent'
        /\ host'.tail = (sent' % Depth) /\ dbs'.sq = host'.tail
        /\ host'.head = (r % Depth) /\ host'.phase = Lap(r)
        /\ admin_q'.head = ((t + 1) % Depth) /\ admin_q'.phase = Lap(t + 1)
    BY <1>1, <1>3, <1>4, <1>11, <2>1
  <2> QED
    BY <2>2 DEF Counts, Lap
<1>16. CqCell(t + 1)' = e /\ e.cmd = t + 1 /\ e.op = c.op /\ e.phase = Lap(t) /\ e.qid = Result(c)
  <2>1. t + 1 - 1 = t
    OBVIOUS
  <2>2. CqCell(t + 1)' = mem'.cq[host'.cq][(t % Depth)]
    BY <2>1 DEF CqCell
  <2> QED
    BY <1>1, <1>5, <1>10, <2>2
<1>17. \A k \in r + 1 .. r + Depth : k # t + 1 => CqCell(k)' = CqCell(k)
  <2>1. ASSUME NEW k \in r + 1 .. r + Depth, k # t + 1
        PROVE  CqCell(k)' = CqCell(k)
    <3>1. PICK j \in Nat \ {0} : j = t + 1 /\ j - 1 = t
      OBVIOUS
    <3>2. k \in Nat \ {0} /\ j # k /\ j - k < Depth /\ k - j < Depth
      <4>1. PICK d \in Nat : d = Depth
        BY Sizes
      <4> QED
        BY <1>4, <2>1, <3>1, <4>1
    <3>3. ((k - 1) % Depth) \in Slots /\ ((k - 1) % Depth) # (t % Depth)
      BY <3>1, <3>2, OtherCells
    <3>4. CqCell(k)' = g[host.cq][((k - 1) % Depth)]
      BY <1>1, <1>10 DEF CqCell
    <3> QED
      BY <1>9, <1>10, <3>3, <3>4 DEF CqCell
  <2> QED
    BY <2>1
<1>18. \A k \in Nat : SqCell(k)' = SqCell(k)
  BY <1>1, <1>10 DEF SqCell
<1>19. PICK d \in Nat : d = Depth /\ d > 1
  BY Sizes
<1>20. Rings(r, t + 1)'
  <2>1. Rings(r, t)
    BY DEF Serves
  <2>2. ASSUME NEW k \in t + 1 + 1 .. s
        PROVE  /\ SqCell(k)'.cmd = k /\ SqCell(k)'.op \in AdminOps
               /\ k > r + 1 => SqCell(k)'.op \notin QueueOps
    <3>1. k \in Nat /\ k \in t + 1 .. sent
      BY <1>3
    <3> QED
      BY <1>18, <2>1, <3>1 DEF Rings
  <2>3. ASSUME NEW k \in r + 1 .. t + 1
        PROVE  /\ CqCell(k)'.cmd = k /\ CqCell(k)'.phase = Lap(k - 1)
               /\ k > r + 1 => CqCell(k)'.op \notin QueueOps
    <3>1. CASE k = t + 1
      <4>1. PICK j \in Nat : j = t /\ j = k - 1
        BY <3>1
      <4> QED
        BY <1>1, <1>4, <1>16, <3>1, <4>1
    <3>2. CASE k # t + 1
      <4>1. k \in r + 1 .. t /\ k \in r + 1 .. r + Depth
        BY <1>4, <1>19, <3>2
      <4> QED
        BY <1>17, <2>1, <3>2, <4>1 DEF Rings
    <3> QED
      BY <3>1, <3>2
  <2>4. ASSUME NEW k \in t + 1 + 1 .. r + Depth
        PROVE  CqCell(k)'.phase = 1 - Lap(k - 1)
    <3>1. k \in t + 1 .. r + Depth /\ k \in r + 1 .. r + Depth /\ k # t + 1
      BY <1>4, <1>19
    <3> QED
      BY <1>17, <2>1, <3>1 DEF Rings
  <2>5. sent' = s
    BY <1>2, <1>3
  <2> QED
    BY <2>2, <2>3, <2>4, <2>5 DEF Rings, Lap
<1>21. QueuesAgree(r, t + 1)'
  <2>1. QueuesAgree(r, t)
    BY DEF Serves
  <2>2. UNCHANGED <<hSq, hCq, granted>> /\ r < t + 1 /\ ~(t + 1 = r)
    BY <1>1, <1>4
  <2>3. CASE t = r
    <3>1. CqCell(r + 1)' = e
      BY <1>16, <2>3
    <3>2. Announced(CqCell(r + 1))'
      BY <1>7, <1>16, <2>2, <3>1 DEF Announced
    <3>3. \A i \in hSq : sqes'[i] = i \/ (c.op = "delete_sq" /\ e.qid = i)
      <4>1. \A i \in hSq : sqes[i] = i
        BY <2>1, <2>3 DEF QueuesAgree, Carried
      <4> QED
        BY <1>7, <1>16, <4>1
    <3>4. \A i \in hCq : cqes'[i] \/ (c.op = "delete_cq" /\ e.qid = i)
      <4>1. \A i \in hCq : cqes[i]
        BY <2>1, <2>3 DEF QueuesAgree, Carried
      <4> QED
        BY <1>7, <1>16, <4>1
    <3>5. granted # 0 => granted = nr_queues' \/ (c.op = "set_queues" /\ e.qid = nr_queues')
      <4>1. granted # 0 => granted = nr_queues
        BY <2>1, <2>3 DEF QueuesAgree, Carried
      <4> QED
        BY <1>7, <1>16, <4>1
    <3>6. \A op, i : Carried(r, t + 1, op, i)' <=> (e.op = op /\ e.qid = i)
      BY <2>2, <3>1 DEF Carried
    <3> QED
      BY <1>16, <2>1, <2>2, <3>2, <3>3, <3>4, <3>5, <3>6 DEF QueuesAgree
  <2>4. CASE t # r
    <3>1. t > r /\ c.op \notin QueueOps
      BY <1>1, <1>4, <2>4
    <3>2. CqCell(r + 1)' = CqCell(r + 1)
      <4>1. r + 1 \in r + 1 .. r + Depth /\ r + 1 # t + 1
        BY <1>19, <2>4
      <4> QED
        BY <1>17, <4>1
    <3>3. UNCHANGED <<sqes, cqes, nr_queues>>
      BY <1>1, <3>1 DEF SqesAfter, CqesAfter, QueueOps
    <3>4. Announced(CqCell(r + 1))'
      BY <2>1, <2>2, <3>1, <3>2, <3>3 DEF QueuesAgree, Announced
    <3>5. \A op, i : Carried(r, t + 1, op, i)' <=> Carried(r, t, op, i)
      BY <2>2, <3>1, <3>2 DEF Carried
    <3> QED
      BY <2>1, <2>2, <3>3, <3>4, <3>5 DEF QueuesAgree
  <2> QED
    BY <2>3, <2>4
<1> QED
  BY <1>2, <1>12, <1>13, <1>14, <1>15, <1>20, <1>21 DEF Base, Serves

(* The entry the driver finds in its phase answers its oldest command.     *)
LEMMA ReapFinds ==
    ASSUME Base, host.st = "up", NEW r \in Nat, NEW t \in Nat, Serves(r, t),
           mem.cq[host.cq][host.head].phase = host.phase
    PROVE  /\ mem.cq[host.cq][host.head] = CqCell(r + 1) /\ r < t
           /\ CqCell(r + 1).cmd = r + 1 /\ r + 1 \in out
           /\ CqCell(r + 1).phase = Lap(r)
<1>0. Types
  BY DEF Base
<1>1. PICK s \in Nat : s = sent
  BY <1>0 DEF Types
<1>2. /\ r <= t /\ t <= s /\ out = r + 1 .. s
      /\ host.head = (r % Depth) /\ host.phase = Lap(r)
  BY <1>1 DEF Serves, Counts
<1>3. mem.cq[host.cq][host.head] = CqCell(r + 1)
  <2>1. r + 1 - 1 = r
    OBVIOUS
  <2>2. CqCell(r + 1) = mem.cq[host.cq][(r % Depth)]
    BY <2>1 DEF CqCell
  <2> QED
    BY <1>2, <2>2
<1>4. r < t
  <2>1. SUFFICES ASSUME ~(r < t) PROVE FALSE
    OBVIOUS
  <2>2. r + 1 \in t + 1 .. r + Depth
    <3>1. PICK d \in Nat : d = Depth /\ d > 1
      BY Sizes
    <3> QED
      BY <1>2, <2>1, <3>1
  <2>3. CqCell(r + 1).phase = 1 - Lap(r)
    <3>1. PICK j \in Nat : j = r + 1 - 1 /\ j = r
      OBVIOUS
    <3>2. CqCell(r + 1).phase = 1 - Lap(r + 1 - 1)
      BY <2>2 DEF Serves, Rings
    <3> QED
      BY <3>1, <3>2
  <2>4. Lap(r) \in {0, 1}
    BY LapFacts
  <2> QED
    BY <1>2, <1>3, <2>3, <2>4
<1>5. CqCell(r + 1).cmd = r + 1
  <2>1. r + 1 \in r + 1 .. t
    BY <1>4
  <2> QED
    BY <2>1 DEF Serves, Rings
<1>6. r + 1 \in out
  BY <1>2, <1>4
<1> QED
  BY <1>2, <1>3, <1>4, <1>5, <1>6

(* The driver takes the oldest completion.                                 *)
LEMMA HostReapServes ==
    ASSUME Base, HostReap, NEW r \in Nat, NEW t \in Nat, Serves(r, t)
    PROVE  Base' /\ host'.st = "up" /\ Serves(r + 1, t)'
<1>0. Types /\ Registers /\ Driver /\ Idle /\ Begins
  BY DEF Base
<1>1. PICK e : e = mem.cq[host.cq][host.head]
  OBVIOUS
<1>2. /\ host.st = "up" /\ e.phase = host.phase
      /\ out' = out \ {e.cmd}
      /\ hSq' = CASE e.op = "create_sq" -> hSq \union {e.qid}
                  [] e.op = "delete_sq" -> hSq \ {e.qid} [] OTHER -> hSq
      /\ hCq' = CASE e.op = "create_cq" -> hCq \union {e.qid}
                  [] e.op = "delete_cq" -> hCq \ {e.qid} [] OTHER -> hCq
      /\ granted' = IF e.op \in {"set_queues", "get_queues"} THEN e.qid ELSE granted
      /\ host' = [host EXCEPT !.head = ((host.head + 1) % Depth),
                    !.phase = IF host.head + 1 = Depth THEN 1 - host.phase ELSE host.phase]
      /\ dbs' = [dbs EXCEPT !.cq = ((host.head + 1) % Depth)]
      /\ UNCHANGED <<bar, mem, old_bar, old_dbs, admin_q, scan, sqes, cqes, nr_queues, fault,
                     sent, fresh>>
  <2>1. HostReap
    OBVIOUS
  <2> QED
    BY <1>0, <1>1, <2>1 DEF HostReap, HostIs, devVars, Types
<1>3. /\ e = CqCell(r + 1) /\ r < t /\ e.cmd = r + 1 /\ e.phase = Lap(r)
  BY <1>1, <1>2, ReapFinds
<1>4. PICK s \in Nat : s = sent
  BY <1>0 DEF Types
<1>5. /\ r + 1 <= t /\ t <= s /\ s - r < Depth /\ out = r + 1 .. s
      /\ host.tail = (s % Depth) /\ dbs.sq = host.tail
      /\ host.head = (r % Depth) /\ host.phase = Lap(r)
      /\ admin_q.head = (t % Depth) /\ admin_q.phase = Lap(t)
  BY <1>3, <1>4 DEF Serves, Counts
<1>6. /\ ((host.head + 1) % Depth) = ((r + 1) % Depth) /\ ((r + 1) % Depth) \in Slots
      /\ Lap(r + 1) = IF (r % Depth) + 1 = Depth THEN 1 - Lap(r) ELSE Lap(r)
      /\ Lap(r + 1) \in {0, 1}
      /\ Lap(r + Depth) = 1 - Lap(r) /\ ((r + Depth) % Depth) = (r % Depth)
      /\ Lap(r) \in {0, 1}
  BY <1>5, LapFacts
<1>7. /\ host' \in [st : States, tail : Slots, head : Slots, phase : {0, 1},
                    sq : Pages, cq : Pages]
      /\ host'.st = "up" /\ host'.sq = host.sq /\ host'.cq = host.cq
      /\ host'.tail = host.tail /\ host'.head = ((r + 1) % Depth) /\ host'.phase = Lap(r + 1)
  <2>1. host' = [host EXCEPT !.head = ((r + 1) % Depth), !.phase = Lap(r + 1)]
    BY <1>2, <1>5, <1>6
  <2>2. host.st = "up" /\ ((r + 1) % Depth) \in Slots /\ Lap(r + 1) \in {0, 1}
    BY <1>2, <1>6
  <2> QED
    BY <1>0, <2>1, <2>2 DEF Types
<1>8. dbs' \in [sq : Slots, cq : Slots] /\ dbs'.sq = dbs.sq
  BY <1>0, <1>2, <1>6 DEF Types
<1>9. out' = r + 1 + 1 .. s
  <2>1. PICK a \in Nat : a = r + 1 /\ a <= s
    BY <1>5
  <2>2. (a .. s) \ {a} = a + 1 .. s
    BY <2>1
  <2> QED
    BY <1>2, <1>3, <1>5, <2>1, <2>2
<1>10. /\ Announced(e) /\ hSq \subseteq hCq /\ hCq \subseteq 1 .. granted
       /\ \A i \in hSq : sqes[i] = i \/ (e.op = "delete_sq" /\ e.qid = i)
       /\ \A i \in hCq : cqes[i] \/ (e.op = "delete_cq" /\ e.qid = i)
       /\ granted # 0 => granted = nr_queues \/ (e.op = "set_queues" /\ e.qid = nr_queues)
  BY <1>3 DEF Serves, QueuesAgree, Carried
<1>11. /\ hSq' \subseteq hCq' /\ hCq' \subseteq 1 .. granted'
       /\ \A i \in hSq' : sqes[i] = i
       /\ \A i \in hCq' : cqes[i]
       /\ granted' # 0 => granted' = nr_queues
       /\ granted' \in {granted, nr_queues}
  <2>1. CASE e.op \in {"set_queues", "get_queues"}
    <3>1. hSq' = hSq /\ hCq' = hCq /\ granted' = e.qid
      BY <1>2, <2>1
    <3>2. e.qid = nr_queues /\ hSq = {} /\ hCq = {}
      BY <1>10, <2>1 DEF Announced
    <3> QED
      BY <3>1, <3>2
  <2>2. CASE e.op = "create_cq"
    <3>1. hSq' = hSq /\ hCq' = hCq \union {e.qid} /\ granted' = granted
      BY <1>2, <2>2
    <3>2. e.qid \in 1 .. granted /\ cqes[e.qid]
      BY <1>10, <2>2 DEF Announced
    <3> QED
      BY <1>10, <2>2, <3>1, <3>2
  <2>3. CASE e.op = "create_sq"
    <3>1. hSq' = hSq \union {e.qid} /\ hCq' = hCq /\ granted' = granted
      BY <1>2, <2>3
    <3>2. e.qid \in hCq /\ sqes[e.qid] = e.qid
      BY <1>10, <2>3 DEF Announced
    <3> QED
      BY <1>10, <2>3, <3>1, <3>2
  <2>4. CASE e.op = "delete_sq"
    <3>1. hSq' = hSq \ {e.qid} /\ hCq' = hCq /\ granted' = granted
      BY <1>2, <2>4
    <3> QED
      BY <1>10, <2>4, <3>1
  <2>5. CASE e.op = "delete_cq"
    <3>1. hSq' = hSq /\ hCq' = hCq \ {e.qid} /\ granted' = granted
      BY <1>2, <2>5
    <3>2. e.qid \notin hSq
      BY <1>10, <2>5 DEF Announced
    <3> QED
      BY <1>10, <2>5, <3>1, <3>2
  <2>6. CASE e.op \notin QueueOps
    <3>1. hSq' = hSq /\ hCq' = hCq /\ granted' = granted
      BY <1>2, <2>6 DEF QueueOps
    <3> QED
      BY <1>10, <2>6, <3>1 DEF QueueOps
  <2> QED
    BY <2>1, <2>2, <2>3, <2>4, <2>5, <2>6 DEF QueueOps
<1>12. Types'
  <2>1. granted' \in 0 .. NrMaxQueue
    BY <1>0, <1>11 DEF Types
  <2>2. hCq' \subseteq Queues /\ hSq' \subseteq Queues
    <3>1. 1 .. granted' \subseteq Queues
      BY <2>1, Sizes DEF Queues
    <3> QED
      BY <1>11, <3>1
  <2>3. out' \subseteq 1 .. MaxCmds
    BY <1>0, <1>2 DEF Types
  <2>4. UNCHANGED <<bar, mem, old_bar, old_dbs, admin_q, scan, sqes, cqes, nr_queues, fault,
                    sent, fresh>>
    BY <1>2
  <2> QED
    BY <1>0, <1>7, <1>8, <2>1, <2>2, <2>3, <2>4 DEF Types
<1>13. Registers' /\ Driver'
  BY <1>0, <1>2, <1>7, KeepsRegisters
<1>14. Idle' /\ Begins'
  BY <1>7 DEF Idle, Begins
<1>15. Counts(r + 1, t)'
  <2>1. s - (r + 1) < Depth
    BY <1>5, Sizes
  <2>2. /\ r + 1 <= t /\ t <= sent' /\ sent' - (r + 1) < Depth /\ out' = r + 1 + 1 .. sent'
        /\ host'.tail = (sent' % Depth) /\ dbs'.sq = host'.tail
        /\ host'.head = ((r + 1) % Depth) /\ host'.phase = Lap(r + 1)
        /\ admin_q'.head = (t % Depth) /\ admin_q'.phase = Lap(t)
    BY <1>2, <1>4, <1>5, <1>7, <1>8, <1>9, <2>1
  <2> QED
    BY <2>2 DEF Counts, Lap
<1>16. Taking(t)'
  BY <1>2 DEF Serves, Taking
<1>17. \A k \in Nat : SqCell(k)' = SqCell(k) /\ CqCell(k)' = CqCell(k)
  BY <1>2, <1>7 DEF SqCell, CqCell
<1>18. Rings(r + 1, t)'
  <2>1. Rings(r, t)
    BY DEF Serves
  <2>2. ASSUME NEW k \in t + 1 .. s
        PROVE  /\ SqCell(k)'.cmd = k /\ SqCell(k)'.op \in AdminOps
               /\ k > r + 1 + 1 => SqCell(k)'.op \notin QueueOps
    <3>1. k \in Nat /\ k \in t + 1 .. sent /\ (k > r + 1 + 1 => k > r + 1)
      BY <1>4
    <3> QED
      BY <1>17, <2>1, <3>1 DEF Rings
  <2>3. ASSUME NEW k \in r + 1 + 1 .. t
        PROVE  /\ CqCell(k)'.cmd = k /\ CqCell(k)'.phase = Lap(k - 1)
               /\ k > r + 1 + 1 => CqCell(k)'.op \notin QueueOps
    <3>1. k \in Nat /\ k \in r + 1 .. t /\ (k > r + 1 + 1 => k > r + 1)
      OBVIOUS
    <3> QED
      BY <1>17, <2>1, <3>1 DEF Rings
  <2>4. ASSUME NEW k \in t + 1 .. r + 1 + Depth
        PROVE  CqCell(k)'.phase = 1 - Lap(k - 1)
    <3>0. k \in Nat
      OBVIOUS
    <3>1. PICK d \in Nat : d = Depth
      BY Sizes
    <3>2. CASE k <= r + d
      <4>1. k \in t + 1 .. r + Depth
        BY <3>1, <3>2
      <4> QED
        BY <1>17, <2>1, <3>0, <4>1 DEF Rings
    <3>3. CASE ~(k <= r + d)
      <4>1. k - 1 = r + Depth
        BY <3>1, <3>3
      <4>2. CqCell(k) = mem.cq[host.cq][(r % Depth)]
        BY <1>6, <4>1 DEF CqCell
      <4>3. CqCell(k) = e
        BY <1>1, <1>5, <4>2
      <4>4. Lap(k - 1) = 1 - Lap(r)
        BY <1>6, <4>1
      <4> QED
        BY <1>3, <1>6, <1>17, <3>0, <4>3, <4>4
    <3> QED
      BY <3>2, <3>3
  <2>5. sent' = s
    BY <1>2, <1>4
  <2> QED
    BY <2>2, <2>3, <2>4, <2>5 DEF Rings, Lap
<1>19. QueuesAgree(r + 1, t)'
  <2>1. Rings(r, t)
    BY DEF Serves
  <2>2. UNCHANGED <<sqes, cqes, nr_queues, sent>>
    BY <1>2
  <2>3. ASSUME r + 1 < sent, t = r + 1
        PROVE  SqCell(r + 1 + 1)'.op \notin QueueOps
    <3>1. r + 1 + 1 \in t + 1 .. sent /\ r + 1 + 1 > r + 1 /\ r + 1 + 1 \in Nat
      BY <1>4, <2>3
    <3> QED
      BY <1>17, <2>1, <3>1 DEF Rings
  <2>4. ASSUME r + 1 < t
        PROVE  Announced(CqCell(r + 1 + 1))'
    <3>1. r + 1 + 1 \in r + 1 .. t /\ r + 1 + 1 > r + 1 /\ r + 1 + 1 \in Nat
      BY <2>4
    <3>2. CqCell(r + 1 + 1)'.op \notin QueueOps
      BY <1>17, <2>1, <3>1 DEF Rings
    <3> QED
      BY <3>2 DEF Announced, QueueOps
  <2> QED
    BY <1>11, <2>2, <2>3, <2>4 DEF QueuesAgree
<1> QED
  BY <1>7, <1>12, <1>13, <1>14, <1>15, <1>16, <1>18, <1>19 DEF Base, Serves
-----------------------------------------------------------------------------
(* The invariant and the theorems. *)

(* Init and every step of the dispatcher and of the driver.                *)
LEMMA StepKeeps ==
    ASSUME HostSlow, ~SameAddr, "abort" \notin AdminOps, Base, Up, [Next]_vars
    PROVE  Base' /\ Up'
<1>1. ASSUME NEW r \in Nat, NEW t \in Nat, Serves(r, t)'
      PROVE  Up'
  <2>1. \E x \in Nat : \E y \in Nat : Serves(x, y)'
    BY <1>1
  <2> QED
    BY <2>1 DEF Up
<1>2. ASSUME host'.st # "up"
      PROVE  Up'
  BY <1>2 DEF Up
<1>3. ASSUME host.st = "up"
      PROVE  \E r, t \in Nat : Serves(r, t)
  BY <1>3 DEF Up
<1>4. ASSUME ScanAqa \/ ScanAsq \/ ScanAcq \/ ScanCc
      PROVE  Base' /\ Up'
  <2>1. Base'
    BY <1>4, ScanAqaBase, ScanAsqBase, ScanAcqBase, ScanCcBase
  <2>2. host' = host
    BY <1>4 DEF ScanAqa, ScanAsq, ScanAcq, ScanAddress, ScanCc, hostVars
  <2>3. CASE host.st = "up"
    <3>1. PICK r \in Nat, t \in Nat : Serves(r, t)
      BY <1>3, <2>3
    <3>2. Serves(r, t)'
      BY <1>4, <2>3, <3>1, ScansServe
    <3> QED
      BY <1>1, <2>1, <3>2
  <2> QED
    BY <1>2, <2>1, <2>2, <2>3
<1>5. ASSUME ScanDbs
      PROVE  Base' /\ Up'
  <2>1. Base'
    BY <1>5, ScanDbsBase
  <2>2. host' = host
    BY <1>5 DEF ScanDbs, hostVars
  <2>3. CASE host.st = "up"
    <3>1. PICK r \in Nat, t \in Nat : Serves(r, t)
      BY <1>3, <2>3
    <3>2. Serves(r, t)'
      BY <1>5, <3>1, ScanDbsServes
    <3> QED
      BY <1>1, <2>1, <3>2
  <2> QED
    BY <1>2, <2>1, <2>2, <2>3
<1>6. ASSUME ProcAdmin
      PROVE  Base' /\ Up'
  <2>1. host.st = "up"
    BY <1>6 DEF ProcAdmin, At, Base, Idle
  <2>2. PICK r \in Nat, t \in Nat : Serves(r, t)
    BY <1>3, <2>1
  <2>3. Base' /\ Serves(r, t + 1)'
    BY <1>6, <2>2, ProcAdminServes
  <2>4. t + 1 \in Nat
    OBVIOUS
  <2> QED
    BY <1>1, <2>3, <2>4
<1>7. ASSUME HostSetup
      PROVE  Base' /\ Up'
  BY <1>2, <1>7, HostSetupBase
<1>8. ASSUME HostConfigures
      PROVE  Base' /\ Up'
  <2>1. ASSUME HostSees("enabling", bar.rdy = 1, "up")
        PROVE  Base' /\ Up'
    <3>1. Base' /\ Serves(0, 0)'
      BY <2>1, HostUpBase
    <3>2. 0 \in Nat
      OBVIOUS
    <3> QED
      BY <1>1, <3>1, <3>2
  <2>2. ASSUME ~HostSees("enabling", bar.rdy = 1, "up")
        PROVE  Base' /\ host'.st # "up"
    BY <1>8, <2>2, HostAddressBase, HostCcBase, HostSeesBase DEF HostConfigures
  <2> QED
    BY <1>2, <2>1, <2>2
<1>9. ASSUME HostStops
      PROVE  Base' /\ Up'
  <2>1. host.st = "up"
    BY <1>9 DEF HostStops, HostIs
  <2>2. PICK r \in Nat, t \in Nat : Serves(r, t)
    BY <1>3, <2>1
  <2>3. Base' /\ host'.st # "up"
    BY <1>9, <2>2, HostStopsBase
  <2> QED
    BY <1>2, <2>3
<1>10. ASSUME HostAdmin
       PROVE  Base' /\ Up'
  <2>1. host.st = "up"
    BY <1>10 DEF HostAdmin, HostIs
  <2>2. PICK r \in Nat, t \in Nat : Serves(r, t)
    BY <1>3, <2>1
  <2>3. Base' /\ Serves(r, t)'
    BY <1>10, <2>2, HostAdminServes
  <2> QED
    BY <1>1, <2>3
<1>11. ASSUME HostReap
       PROVE  Base' /\ Up'
  <2>1. host.st = "up"
    BY <1>11 DEF HostReap, HostIs
  <2>2. PICK r \in Nat, t \in Nat : Serves(r, t)
    BY <1>3, <2>1
  <2>3. Base' /\ Serves(r + 1, t)'
    BY <1>11, <2>2, HostReapServes
  <2>4. r + 1 \in Nat
    OBVIOUS
  <2> QED
    BY <1>1, <2>3, <2>4
<1>12. ASSUME UNCHANGED vars
       PROVE  Base' /\ Up'
  <2>1. UNCHANGED <<bar, dbs, mem, old_bar, old_dbs, admin_q, scan, sqes, cqes, nr_queues,
                    fault, host, out, hSq, hCq, granted, sent, resets, fresh>>
    BY <1>12 DEF vars, devVars, hostVars
  <2>2. Types'
    BY <2>1 DEF Base, Types
  <2>3. scan'.at = scan.at
    BY <2>1
  <2>4. Registers' /\ Driver'
    BY <2>1, <2>3, KeepsRegisters DEF Base
  <2>5. Idle' /\ Begins'
    BY <2>1 DEF Base, Idle, Begins
  <2>6. Base'
    BY <2>2, <2>4, <2>5 DEF Base
  <2>7. CASE host.st = "up"
    <3>1. PICK r \in Nat, t \in Nat : Serves(r, t)
      BY <1>3, <2>7
    <3>2. Taking(t)'
      BY <2>1, <3>1 DEF Serves, Taking
    <3>3. Serves(r, t)'
      BY <2>1, <3>1, <3>2, KeepsServes
    <3> QED
      BY <1>1, <2>6, <3>3
  <2> QED
    BY <1>2, <2>1, <2>6, <2>7
<1>13. CASE Next
  BY <1>4, <1>5, <1>6, <1>7, <1>8, <1>9, <1>10, <1>11, <1>13 DEF Next, Dispatcher, Host
<1> QED
  BY <1>12, <1>13

(* The invariant holds over every behaviour, resets and shutdowns included. *)
THEOREM Invariant ==
    ASSUME HostSlow, ~SameAddr, "abort" \notin AdminOps
    PROVE  Spec => [](Base /\ Up)
<1>1. Init => Base /\ Up
  BY InitBase
<1>2. Base /\ Up /\ [Next]_vars => (Base /\ Up)'
  BY StepKeeps
<1> QED
  BY <1>1, <1>2, PTL DEF Spec

(* The device's registers and queues have their types: the positions stay  *)
(* inside the rings and the doorbells below the depth.                     *)
LEMMA BaseTyped == Base => TypeOK
<1> SUFFICES ASSUME Types PROVE TypeOK
  BY DEF Base
<1>1. /\ bar.rdy \in {0, 1} /\ bar.shst \in {0, 2}
      /\ admin_q.sq \in Addrs \union {0} /\ admin_q.cq \in Addrs \union {0}
      /\ admin_q.depth \in {0, Depth} /\ admin_q.phase \in {0, 1}
      /\ admin_q.head \in 0 .. Depth - 1
  BY DEF Types, Pages, Slots
<1>2. \A d : d \in [sq : Slots, cq : Slots] => d \in [{"sq", "cq"} -> 0 .. Depth - 1]
  BY DEF Slots
<1> QED
  BY <1>1, <1>2 DEF TypeOK, Types

(* nvmev_proc_bars(), nvmev_proc_admin_sq(): no admin command is taken     *)
(* before the device knows both pages of its queue, and every completion   *)
(* that the driver finds in its phase answers a command it has outstanding *)
(* now: none of the last lap, none of before the reset.                    *)
THEOREM AnswersAreExpected ==
    ASSUME HostSlow, ~SameAddr, "abort" \notin AdminOps
    PROVE  Spec => []AnswersExpected
<1>1. Base /\ Up => AnswersExpected
  <2> SUFFICES ASSUME Base, Up PROVE NoFault /\ AnswersOutstanding
    BY BaseTyped DEF AnswersExpected
  <2>1. NoFault
    BY DEF Base, Types, NoFault
  <2>2. ASSUME host.st = "up", mem.cq[host.cq][host.head].phase = host.phase
        PROVE  mem.cq[host.cq][host.head].cmd \in out
    <3>1. PICK r \in Nat, t \in Nat : Serves(r, t)
      BY <2>2 DEF Up
    <3> QED
      BY <2>2, <3>1, ReapFinds
  <2> QED
    BY <2>1, <2>2 DEF AnswersOutstanding, HostIs
<1> QED
  BY <1>1, Invariant, PTL

(* __nvmev_admin_create_cq() and the others: the I/O queues of which the   *)
(* driver was told exist in the device, are polled, and post to a          *)
(* completion queue that exists.                                           *)
THEOREM QueuesAreServed ==
    ASSUME HostSlow, ~SameAddr, "abort" \notin AdminOps
    PROVE  Spec => []HostQueuesServed
<1>1. Base /\ Up => HostQueuesServed
  <2> SUFFICES ASSUME Base, Up, host.st = "up"
               PROVE  /\ \A s \in hSq : (out = {} => sqes[s] \in hCq) /\ s <= nr_queues
                      /\ \A c \in hCq : out = {} => cqes[c]
    BY DEF HostQueuesServed, HostIs
  <2>1. PICK r \in Nat, t \in Nat : Serves(r, t)
    BY DEF Up
  <2>2. sent \in Nat /\ r <= t /\ t <= sent /\ out = r + 1 .. sent
    BY <2>1 DEF Serves, Counts, Base, Types
  <2>3. out = {} => ~(r < t)
    <3>1. SUFFICES ASSUME r < t PROVE r + 1 \in out
      OBVIOUS
    <3> QED
      BY <2>2, <3>1
  <2>4. QueuesAgree(r, t)
    BY <2>1 DEF Serves
  <2>5. ASSUME NEW s \in hSq
        PROVE  (out = {} => sqes[s] \in hCq) /\ s <= nr_queues
    <3>1. s \in 1 .. granted /\ granted \in Nat /\ s \in hCq
      BY <2>4, <2>5 DEF QueuesAgree, Base, Types
    <3>2. out = {} => sqes[s] \in hCq
      BY <2>3, <2>4, <2>5, <3>1 DEF QueuesAgree, Carried
    <3>3. ~Carried(r, t, "set_queues", nr_queues)
      BY <2>4, <2>5 DEF QueuesAgree, Carried, Announced
    <3>4. granted = nr_queues
      BY <2>4, <3>1, <3>3 DEF QueuesAgree
    <3> QED
      BY <3>1, <3>2, <3>4
  <2>6. \A c \in hCq : out = {} => cqes[c]
    BY <2>3, <2>4 DEF QueuesAgree, Carried
  <2> QED
    BY <2>5, <2>6
<1> QED
  BY <1>1, Invariant, PTL
=============================================================================
