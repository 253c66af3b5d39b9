------------------------- MODULE WriteBufferProofs --------------------------
(***************************************************************************)
(* The write buffer balances, for any number of partitions, any sizes of   *)
(* buffer, page and wordline, and any sequence of page-aligned writes.     *)
(***************************************************************************)
EXTENDS WriteBuffer, SumLemmas

LEMMA Sizes ==
    /\ BufSize \in Nat /\ SecsPerPg \in Nat \ {0} /\ PgsPerOneshot \in Nat \ {0}
    /\ Parts \in Nat \ {0} /\ TtPgs \in Nat \ {0} /\ MaxReq \in Nat
    /\ Wordline \in Nat
<1>1. SecsPerPg \in Nat \ {0} /\ PgsPerOneshot \in Nat \ {0}
  BY BufferAssumption
<1>2. PgsPerOneshot * SecsPerPg \in Nat
  BY <1>1
<1> QED
  BY BufferAssumption, <1>1, <1>2 DEF Wordline

LEMMA PartsFinite == IsFiniteSet(Part)
  BY Sizes, FS_Interval DEF Part

(* An aligned write has as many logical pages as it has pages of sectors.  *)
LEMMA AlignedPages ==
    ASSUME HostAligned, NEW w \in Writes
    PROVE  \E k \in Nat : /\ w[2] = SecsPerPg * k
                          /\ IsFiniteSet(Lpns(w)) /\ Cardinality(Lpns(w)) = k
                          /\ Lpns(w) \subseteq Nat
<1>1. /\ w[1] \in Nat /\ w[2] \in Nat \ {0}
      /\ w[1] % SecsPerPg = 0 /\ w[2] % SecsPerPg = 0
  BY Sizes DEF Writes, Sectors
<1>2. PICK a \in Nat : w[1] = SecsPerPg * a
  BY <1>1, Sizes, Multiple
<1>3. PICK k \in Nat : w[2] = SecsPerPg * k
  BY <1>1, Sizes, Multiple
<1>4. k # 0
  BY <1>1, <1>3, Sizes
<1>5. w[1] \div SecsPerPg = a
  <2>1. w[1] = SecsPerPg * a + 0 /\ 0 \in 0 .. SecsPerPg - 1
    BY <1>2, Sizes
  <2> QED
    BY <2>1, Sizes, DivUnique
<1>6. (w[1] + w[2] - 1) \div SecsPerPg = a + k - 1
  <2>1. SecsPerPg * a + SecsPerPg * k = SecsPerPg * (a + k - 1) + SecsPerPg
    BY Sizes
  <2>2. SecsPerPg * (a + k - 1) \in Int
    BY Sizes
  <2>3. w[1] + w[2] - 1 = SecsPerPg * (a + k - 1) + (SecsPerPg - 1)
    BY <1>2, <1>3, <2>1, <2>2, Sizes, <1>1
  <2>4. a + k - 1 \in Nat /\ SecsPerPg - 1 \in 0 .. SecsPerPg - 1
    BY <1>4, Sizes
  <2> QED
    BY <2>3, <2>4, Sizes, DivUnique
<1>7. Lpns(w) = a .. a + k - 1
  BY <1>5, <1>6 DEF Lpns
<1>8. IsFiniteSet(a .. a + k - 1) /\ Cardinality(a .. a + k - 1) = k
  BY <1>4, FS_Interval
<1> QED
  BY <1>3, <1>7, <1>8

(* The pages of an aligned write, over all partitions.                     *)
LEMMA PagesSum ==
    ASSUME HostAligned, NEW w \in Writes, NEW n,
           \A p \in Part : n[p] = PagesOf(w, p)
    PROVE  /\ \A p \in Part : n[p] \in Nat
           /\ w[2] = SecsPerPg * SumFunctionOnSet(n, Part)
<1>1. PICK k \in Nat : /\ w[2] = SecsPerPg * k
                       /\ IsFiniteSet(Lpns(w)) /\ Cardinality(Lpns(w)) = k
                       /\ Lpns(w) \subseteq Nat
  BY AlignedPages
<1> DEFINE h == [lpn \in Lpns(w) |-> lpn % Parts]
<1>2. \A x \in Lpns(w) : h[x] \in Part
  BY <1>1, Sizes DEF Part
<1>3. \A p \in Part : n[p] = Cardinality({x \in Lpns(w) : h[x] = p})
  <2>1. \A p \in Part : {x \in Lpns(w) : h[x] = p} = {x \in Lpns(w) : x % Parts = p}
    OBVIOUS
  <2> QED
    BY <2>1 DEF PagesOf
<1>4. SumFunctionOnSet(n, Part) = k
  <2> HIDE DEF h
  <2> QED
    BY <1>1, <1>2, <1>3, PartsFinite, SumCount
<1>5. ASSUME NEW p \in Part
      PROVE  n[p] \in Nat
  <2> DEFINE V == {lpn \in Lpns(w) : lpn % Parts = p}
  <2>1. V \in SUBSET Lpns(w) /\ n[p] = Cardinality(V)
    BY DEF PagesOf
  <2> HIDE DEF V
  <2> QED
    BY <2>1, <1>1, FS_Subset, FS_CardinalityType
<1> QED
  BY <1>1, <1>4, <1>5

-----------------------------------------------------------------------------
(* The pages a write puts into the wordlines either complete some of them  *)
(* or stay in the open ones.                                               *)
LEMMA WordlinesBalance ==
    ASSUME NEW n, \A p \in Part : n[p] \in Nat,
           NEW f \in [Part -> 0 .. PgsPerOneshot - 1]
    PROVE  LET done == [p \in Part |-> Completed(f[p], n[p])]
               open == [p \in Part |-> FilledAfter(f[p], n[p])]
           IN  /\ SumFunctionOnSet(f, Part) + SumFunctionOnSet(n, Part)
                    = PgsPerOneshot * SumFunctionOnSet(done, Part) + SumFunctionOnSet(open, Part)
               /\ SumFunctionOnSet(done, Part) \in Nat
               /\ open \in [Part -> 0 .. PgsPerOneshot - 1]
<1> DEFINE done == [p \in Part |-> Completed(f[p], n[p])]
           open == [p \in Part |-> FilledAfter(f[p], n[p])]
<1>1. ASSUME NEW p \in Part
      PROVE  /\ done[p] \in Nat /\ open[p] \in 0 .. PgsPerOneshot - 1
             /\ f[p] \in Nat /\ n[p] \in Nat
             /\ f[p] + n[p] = PgsPerOneshot * done[p] + open[p]
  <2>1. f[p] \in Nat /\ n[p] \in Nat /\ f[p] + n[p] \in Nat
    BY Sizes
  <2>2. /\ (f[p] + n[p]) \div PgsPerOneshot \in Nat
        /\ (f[p] + n[p]) % PgsPerOneshot \in 0 .. PgsPerOneshot - 1
        /\ f[p] + n[p] = PgsPerOneshot * ((f[p] + n[p]) \div PgsPerOneshot)
                         + ((f[p] + n[p]) % PgsPerOneshot)
    BY <2>1, Sizes, DivMod
  <2> QED
    BY <2>1, <2>2 DEF Completed, FilledAfter
<1>2. open \in [Part -> 0 .. PgsPerOneshot - 1]
  BY <1>1
<1> HIDE DEF done, open
<1>3. \A p \in Part : /\ f[p] \in Int /\ n[p] \in Int /\ done[p] \in Int /\ open[p] \in Int
                      /\ f[p] + n[p] = PgsPerOneshot * done[p] + open[p]
  BY <1>1, Sizes
<1>4. SumFunctionOnSet(f, Part) + SumFunctionOnSet(n, Part)
        = PgsPerOneshot * SumFunctionOnSet(done, Part) + SumFunctionOnSet(open, Part)
  BY <1>3, PartsFinite, Sizes, SumCombine
<1>5. SumFunctionOnSet(done, Part) \in Nat
  BY <1>1, PartsFinite, SumType
<1> QED
  BY <1>2, <1>4, <1>5 DEF done, open

(* The arithmetic of one request: k pages of s sectors taken, c wordlines  *)
(* of g pages completed, a pages in open wordlines before and b after.     *)
LEMMA Balance ==
    ASSUME NEW s \in Nat, NEW g \in Nat, NEW k \in Int, NEW c \in Int, NEW a \in Int, NEW b \in Int,
           NEW rem \in Int, NEW rel \in Int, a + k = g * c + b
    PROVE  (rem - s * k) + (g * s) * (rel + c) + s * b = rem + (g * s) * rel + s * a
<1>1. s * (a + k) = s * (g * c + b)
  OBVIOUS
<1>2. g * c \in Int /\ g * s \in Int /\ s * k \in Int /\ s * a \in Int /\ s * b \in Int
  OBVIOUS
<1>3. s * (a + k) = s * a + s * k
  OBVIOUS
<1>4. s * (g * c + b) = s * (g * c) + s * b
  BY <1>2
<1>5. s * (g * c) = (g * s) * c
  OBVIOUS
<1>6. (g * s) * (rel + c) = (g * s) * rel + (g * s) * c
  OBVIOUS
<1>7. (g * s) * rel \in Int /\ (g * s) * c \in Int
  BY <1>2
<1> QED
  BY <1>1, <1>2, <1>3, <1>4, <1>5, <1>6, <1>7

Inv == TypeOK /\ BufferConserved

LEMMA InitInv == Init => Inv
<1> SUFFICES ASSUME Init
             PROVE  Inv
  OBVIOUS
<1>1. filled \in [Part -> 0 .. PgsPerOneshot - 1]
  BY Sizes DEF Init
<1>2. SumFunctionOnSet(filled, Part) = 0
  <2> DEFINE zero == [p \in Part |-> 0]
  <2>1. \A p \in Part : /\ zero[p] \in Int
                        /\ zero[p] + zero[p] = 0 * zero[p] + zero[p]
    OBVIOUS
  <2>2. filled = zero
    BY DEF Init
  <2> HIDE DEF zero
  <2>3. SumFunctionOnSet(zero, Part) + SumFunctionOnSet(zero, Part)
          = 0 * SumFunctionOnSet(zero, Part) + SumFunctionOnSet(zero, Part)
    BY <2>1, PartsFinite, SumCombine
  <2>4. SumFunctionOnSet(zero, Part) \in Int
    BY <2>1, PartsFinite, SumType
  <2>5. \A x \in Int : 0 * x = 0 /\ (x + x = 0 + x => x = 0)
    OBVIOUS
  <2> QED
    BY <2>2, <2>3, <2>4, <2>5
<1>3. SecsPerPg * 0 = 0 /\ Wordline * 0 = 0
  BY Sizes
<1>4. BufferConserved
  BY <1>2, <1>3, Sizes DEF Init, BufferConserved
<1> QED
  BY <1>1, <1>4, Sizes DEF Inv, TypeOK, Init

LEMMA NextInv ==
    ASSUME HostAligned, Inv, [Next]_vars
    PROVE  Inv'
<1>0. /\ remaining \in Nat /\ releases \in Nat
      /\ filled \in [Part -> 0 .. PgsPerOneshot - 1]
      /\ cmd = NoCmd \/ cmd \in Writes
  BY DEF Inv, TypeOK
<1>f. SumFunctionOnSet(filled, Part) \in Int
  <2>1. \A p \in Part : filled[p] \in Int
    BY <1>0, Sizes
  <2> QED
    BY <2>1, PartsFinite, SumType
<1>1. CASE HostWrite
  BY <1>1 DEF HostWrite, Inv, TypeOK, BufferConserved
<1>2. CASE conv_write
  <2>1. cmd \in Writes /\ remaining' = remaining - cmd[2] /\ cmd[2] <= remaining
    <3>1. cmd # NoCmd /\ Allocated(cmd[2]) = cmd[2] /\ remaining' = remaining - cmd[2]
      BY <1>2 DEF conv_write
    <3>2. cmd \in Writes /\ cmd[2] \in Nat \ {0}
      BY <3>1, <1>0, Sizes DEF Writes
    <3> QED
      BY <3>1, <3>2, <1>0 DEF Allocated
  <2>2. cmd[2] \in Nat
    BY <2>1, Sizes DEF Writes
  <2> DEFINE n == [p \in Part |-> PagesOf(cmd, p)]
             done == [p \in Part |-> Completed(filled[p], n[p])]
             open == [p \in Part |-> FilledAfter(filled[p], n[p])]
  <2>3. /\ filled' = open
        /\ releases' = releases + SumFunctionOnSet(done, Part)
        /\ cmd' = NoCmd
    <3>1. /\ done = [p \in Part |-> Completed(filled[p], PagesOf(cmd, p))]
          /\ open = [p \in Part |-> FilledAfter(filled[p], PagesOf(cmd, p))]
      OBVIOUS
    <3> HIDE DEF n, done, open
    <3> QED
      BY <1>2, <3>1 DEF conv_write
  <2>4. \A p \in Part : n[p] = PagesOf(cmd, p)
    OBVIOUS
  <2>5. PICK m : m = n
    OBVIOUS
  <2>6. /\ \A p \in Part : m[p] \in Nat
        /\ cmd[2] = SecsPerPg * SumFunctionOnSet(m, Part)
    <3> HIDE DEF n
    <3> QED
      BY <2>1, <2>4, <2>5, PagesSum
  <2>7. /\ SumFunctionOnSet(filled, Part) + SumFunctionOnSet(m, Part)
             = PgsPerOneshot * SumFunctionOnSet(done, Part) + SumFunctionOnSet(open, Part)
        /\ SumFunctionOnSet(done, Part) \in Nat
        /\ open \in [Part -> 0 .. PgsPerOneshot - 1]
    <3>1. /\ done = [p \in Part |-> Completed(filled[p], m[p])]
          /\ open = [p \in Part |-> FilledAfter(filled[p], m[p])]
      BY <2>5
    <3> HIDE DEF n, done, open
    <3> QED
      BY <3>1, <2>6, <1>0, WordlinesBalance
  <2> HIDE DEF n, done, open
  <2>8. SumFunctionOnSet(m, Part) \in Int /\ SumFunctionOnSet(open, Part) \in Int
    <3>1. \A p \in Part : m[p] \in Int /\ open[p] \in Int
      BY <2>6, <2>7, Sizes
    <3> QED
      BY <3>1, PartsFinite, SumType
  <2>9. BufferConserved'
    <3> DEFINE k == SumFunctionOnSet(m, Part)
               c == SumFunctionOnSet(done, Part)
               a == SumFunctionOnSet(filled, Part)
               b == SumFunctionOnSet(open, Part)
    <3>1. remaining + (PgsPerOneshot * SecsPerPg) * releases + SecsPerPg * a = BufSize
      BY DEF Inv, BufferConserved, Wordline
    <3>2. (remaining - SecsPerPg * k) + (PgsPerOneshot * SecsPerPg) * (releases + c)
            + SecsPerPg * b = remaining + (PgsPerOneshot * SecsPerPg) * releases + SecsPerPg * a
      <4>1. /\ k \in Int /\ c \in Int /\ a \in Int /\ b \in Int
            /\ a + k = PgsPerOneshot * c + b
        BY <2>7, <2>8, <1>f
      <4> HIDE DEF k, c, a, b
      <4> QED
        BY <4>1, <1>0, Sizes, Balance
    <3>3. /\ remaining' = remaining - SecsPerPg * k /\ releases' = releases + c
          /\ SumFunctionOnSet(filled', Part) = b
      BY <2>1, <2>3, <2>6
    <3> HIDE DEF k, c, a, b
    <3> QED
      BY <3>1, <3>2, <3>3 DEF BufferConserved, Wordline
  <2>10. TypeOK'
    BY <2>1, <2>2, <2>3, <2>7, <1>0 DEF TypeOK
  <2> QED
    BY <2>9, <2>10 DEF Inv
<1>3. CASE buffer_release
  <2>1. /\ releases - 1 \in Nat /\ releases' = releases - 1
        /\ remaining' = remaining + Wordline
        /\ filled' = filled /\ cmd' = cmd
    BY <1>3, <1>0 DEF buffer_release, Released
  <2>2. Wordline * releases = Wordline * (releases - 1) + Wordline
    BY <1>0, Sizes
  <2>3. Wordline * (releases - 1) \in Int /\ Wordline * releases \in Int
    BY <2>1, <1>0, Sizes
  <2>4. SecsPerPg * SumFunctionOnSet(filled, Part) \in Int
    BY <1>f, Sizes
  <2>5. BufferConserved'
    BY <2>1, <2>2, <2>3, <2>4, <1>0, Sizes DEF Inv, BufferConserved
  <2>6. TypeOK'
    BY <2>1, <1>0, Sizes DEF TypeOK
  <2> QED
    BY <2>5, <2>6 DEF Inv
<1>4. CASE UNCHANGED vars
  BY <1>4 DEF vars, Inv, TypeOK, BufferConserved
<1> QED
  BY <1>1, <1>2, <1>3, <1>4 DEF Next

(* buffer_allocate() and buffer_release() balance: what is not free waits  *)
(* in an open wordline or in an operation that will give it back, so that  *)
(* the buffer neither leaks nor grows over any number of requests.         *)
THEOREM BufferStaysBalanced ==
    ASSUME HostAligned
    PROVE  Spec => []BufferBalanced
<1>1. Inv /\ [Next]_vars => Inv'
  BY NextInv
<1>2. Inv => BufferBalanced
  BY DEF Inv, BufferBalanced
<1> QED
  BY <1>1, <1>2, InitInv, PTL DEF Spec
=============================================================================
