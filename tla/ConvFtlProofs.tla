---------------------------- MODULE ConvFtlProofs ----------------------------
(***************************************************************************)
(* Safety of ConvFtl for every number of lines, size of a line, threshold, *)
(* set of logical pages and choice of victims.                             *)
(*                                                                         *)
(* None of the properties is inductive alone.  That a closed line has no   *)
(* erased page rests on where the write pointer stands (OpenLines); that   *)
(* the counters are exact rests on a copied page going to an erased one    *)
(* (FreeLines); that the lists are disjoint rests on the page states; and  *)
(* that an erase loses nothing rests on the pages still to be copied.      *)
(* IInv is their conjunction.  There is one lemma per action.              *)
(* Last come the write credits and the refinement of NandStore.            *)
(***************************************************************************)
EXTENDS ConvFtl, SequencesExt, FiniteSetTheorems, TLAPS

(* What the three list operations of the FTL do to a list without          *)
(* duplicates: list_add_tail (Append), taking the first entry (Head and    *)
(* Tail) and list_del_init of an inner entry (RemoveFirst).                *)

(* Where the entries of a list go when one of them is taken out.            *)
LEMMA RemoveFirstIndices ==
    ASSUME NEW S, NEW s \in Seq(S), NEW e, NEW i \in 1 .. Len(s), s[i] = e,
           IsInjective(s)
    PROVE  /\ RemoveFirst(s, e) \in Seq(S)
           /\ Len(RemoveFirst(s, e)) = Len(s) - 1
           /\ \A j \in 1 .. Len(s) - 1 :
                RemoveFirst(s, e)[j] = IF j < i THEN s[j] ELSE s[j + 1]
<1>1. SelectInSeq(s, LAMBDA v : v = e) = i
  <2>1. {j \in 1 .. Len(s) : s[j] = e} = {i}
    BY DEF IsInjective
  <2>2. Min({i}) = i
    BY DEF Min
  <2> QED
    BY <2>1, <2>2 DEF SelectInSeq
<1>a. PICK a : a = SubSeq(s, 1, i - 1)
  OBVIOUS
<1>b. PICK b : b = SubSeq(s, i + 1, Len(s))
  OBVIOUS
<1>2. RemoveFirst(s, e) = a \o b
  BY <1>1, <1>a, <1>b DEF RemoveFirst, RemoveAt
<1>3. a \in Seq(S) /\ Len(a) = i - 1 /\ \A j \in 1 .. i - 1 : a[j] = s[j]
  BY <1>a
<1>4. b \in Seq(S) /\ Len(b) = Len(s) - i /\ \A j \in 1 .. Len(s) - i : b[j] = s[i + j]
  BY <1>b
<1>5. /\ a \o b \in Seq(S) /\ Len(a \o b) = Len(s) - 1
      /\ \A j \in 1 .. Len(s) - 1 : (a \o b)[j] = IF j <= i - 1 THEN a[j] ELSE b[j - (i - 1)]
  BY <1>3, <1>4
<1>6. ASSUME NEW j \in 1 .. Len(s) - 1
      PROVE  (a \o b)[j] = IF j < i THEN s[j] ELSE s[j + 1]
  <2>1. CASE j < i
    BY <2>1, <1>3, <1>5
  <2>2. CASE ~(j < i)
    <3>1. (a \o b)[j] = b[j - (i - 1)]
      BY <2>2, <1>5
    <3>2. j - (i - 1) \in 1 .. Len(s) - i /\ i + (j - (i - 1)) = j + 1
      BY <2>2
    <3>3. b[j - (i - 1)] = s[i + (j - (i - 1))]
      BY <3>2, <1>4
    <3> QED
      BY <3>1, <3>2, <3>3, <2>2
  <2> QED
    BY <2>1, <2>2
<1> QED
  BY <1>2, <1>5, <1>6

(* list_del_init() of an entry: the others stay, each once.                 *)
LEMMA RemoveList ==
    ASSUME NEW S, NEW s \in Seq(S), IsInjective(s), NEW e \in ToSet(s)
    PROVE  /\ RemoveFirst(s, e) \in Seq(S)
           /\ IsInjective(RemoveFirst(s, e))
           /\ ToSet(RemoveFirst(s, e)) = ToSet(s) \ {e}
           /\ Len(RemoveFirst(s, e)) = Len(s) - 1
<1>1. PICK i \in 1 .. Len(s) : s[i] = e
  BY DEF ToSet
<1>r. PICK r : r = RemoveFirst(s, e)
  OBVIOUS
<1>2. \A j, k \in 1 .. Len(s) : s[j] = s[k] => j = k
  BY DEF IsInjective
<1>3. /\ r \in Seq(S) /\ Len(r) = Len(s) - 1
      /\ \A j \in 1 .. Len(s) - 1 : r[j] = IF j < i THEN s[j] ELSE s[j + 1]
  <2>1. /\ RemoveFirst(s, e) \in Seq(S)
        /\ Len(RemoveFirst(s, e)) = Len(s) - 1
        /\ \A j \in 1 .. Len(s) - 1 :
             RemoveFirst(s, e)[j] = IF j < i THEN s[j] ELSE s[j + 1]
    BY <1>1, RemoveFirstIndices
  <2> QED
    BY <2>1, <1>r
<1>4. DOMAIN r = 1 .. Len(s) - 1 /\ DOMAIN s = 1 .. Len(s)
  BY <1>3
<1>5. IsInjective(r)
  <2> SUFFICES ASSUME NEW j \in 1 .. Len(s) - 1, NEW k \in 1 .. Len(s) - 1, r[j] = r[k]
               PROVE  j = k
    BY <1>4 DEF IsInjective
  <2> QED
    BY <1>2, <1>3
<1>6. ToSet(r) \subseteq ToSet(s) \ {e}
  <2> SUFFICES ASSUME NEW j \in 1 .. Len(s) - 1
               PROVE  r[j] \in ToSet(s) \ {e}
    BY <1>4 DEF ToSet
  <2>1. PICK k \in 1 .. Len(s) : r[j] = s[k] /\ k # i
    BY <1>3
  <2> QED
    BY <2>1, <1>1, <1>2, <1>4 DEF ToSet
<1>7. ToSet(s) \ {e} \subseteq ToSet(r)
  <2> SUFFICES ASSUME NEW k \in 1 .. Len(s), s[k] # e
               PROVE  s[k] \in ToSet(r)
    BY <1>4 DEF ToSet
  <2>1. CASE k < i
    BY <2>1, <1>3, <1>4 DEF ToSet
  <2>2. CASE k > i
    <3>1. k - 1 \in 1 .. Len(s) - 1 /\ r[k - 1] = s[k]
      BY <2>2, <1>3
    <3> QED
      BY <3>1, <1>4 DEF ToSet
  <2> QED
    BY <2>1, <2>2, <1>1
<1> QED
  BY <1>3, <1>5, <1>6, <1>7, <1>r

(* list_add_tail() of a new entry.                                          *)
LEMMA AppendList ==
    ASSUME NEW S, NEW s \in Seq(S), IsInjective(s), NEW e \in S, e \notin ToSet(s)
    PROVE  /\ Append(s, e) \in Seq(S)
           /\ IsInjective(Append(s, e))
           /\ ToSet(Append(s, e)) = ToSet(s) \cup {e}
           /\ Len(Append(s, e)) = Len(s) + 1
BY DEF IsInjective, ToSet

(* list_del_init() of the first entry.                                      *)
LEMMA TailList ==
    ASSUME NEW S, NEW s \in Seq(S), IsInjective(s), s # <<>>
    PROVE  /\ Tail(s) \in Seq(S)
           /\ IsInjective(Tail(s))
           /\ Head(s) \in ToSet(s)
           /\ ToSet(Tail(s)) = ToSet(s) \ {Head(s)}
           /\ Len(Tail(s)) = Len(s) - 1
           /\ Len(s) > 0
<1>1. /\ Tail(s) \in Seq(S) /\ Len(Tail(s)) = Len(s) - 1 /\ Len(s) > 0
      /\ \A i \in 1 .. Len(s) - 1 : Tail(s)[i] = s[i + 1]
  OBVIOUS
<1>2. Head(s) = s[1]
  OBVIOUS
<1> DEFINE t == Tail(s)
<1> HIDE DEF t
<1>3. t \in Seq(S) /\ DOMAIN t = 1 .. Len(s) - 1 /\ \A i \in 1 .. Len(s) - 1 : t[i] = s[i + 1]
  BY <1>1 DEF t
<1>4. IsInjective(t)
  BY <1>3 DEF IsInjective
<1>5. ToSet(t) \subseteq ToSet(s) \ {s[1]}
  BY <1>3 DEF ToSet, IsInjective
<1>6. ASSUME NEW i \in 1 .. Len(s), s[i] # s[1]
      PROVE  s[i] \in ToSet(t)
  <2>1. i - 1 \in 1 .. Len(s) - 1 /\ t[i - 1] = s[i]
    BY <1>3, <1>6
  <2> QED
    BY <2>1, <1>3 DEF ToSet
<1>7. ToSet(s) \ {s[1]} \subseteq ToSet(t)
  BY <1>6 DEF ToSet
<1>8. s[1] \in ToSet(s)
  BY <1>1 DEF ToSet
<1> QED
  BY <1>1, <1>2, <1>4, <1>5, <1>7, <1>8 DEF t
-----------------------------------------------------------------------------

(* Two pages are equal if and only if line and rank are.                    *)
LEMMA PpaEq ==
    ASSUME NEW a, NEW b, NEW c, NEW d
    PROVE  (Ppa(a, b) = Ppa(c, d)) <=> (a = c /\ b = d)
BY DEF Ppa

(* The fields of a page address.                                            *)
LEMMA PpaFields ==
    ASSUME NEW a, NEW b
    PROVE  Ppa(a, b).blk = a /\ Ppa(a, b).pg = b
BY DEF Ppa

(* The pages of the device are the pairs of a line and a rank in it.        *)
LEMMA PpasDef ==
    /\ \A ln \in Lines : \A k \in 0 .. PgsPerLine(ln) - 1 : Ppa(ln, k) \in Ppas
    /\ \A p \in Ppas : /\ p.blk \in Lines
                       /\ p.pg \in 0 .. PgsPerLine(p.blk) - 1
                       /\ p = Ppa(p.blk, p.pg)
BY DEF Ppas, PagesOf, Ppa

(* The pages of a line are the device's pages with that line number.        *)
LEMMA PagesOfDef ==
    ASSUME NEW ln \in Lines
    PROVE  PagesOf(ln) = {p \in Ppas : p.blk = ln}
BY PpasDef DEF PagesOf, Ppa, Ppas


(* Every line has at least one page.                                        *)
LEMMA PgsPerLineType ==
    ASSUME NEW ln
    PROVE  PgsPerLine(ln) \in Nat /\ PgsPerLine(ln) > 0
BY PageCounts DEF PgsPerLine

Offsets(ln) == 0 .. PgsPerLine(ln) - 1
OffsetsWith(f, ln, st) == {k \in Offsets(ln) : f[Ppa(ln, k)] = st}

(* A line has as many ranks as pages.                                       *)
LEMMA OffsetsFinite ==
    ASSUME NEW ln \in Lines
    PROVE  /\ IsFiniteSet(Offsets(ln))
           /\ Cardinality(Offsets(ln)) = PgsPerLine(ln)
<1>1. 0 \in Int /\ PgsPerLine(ln) - 1 \in Int /\ 0 <= PgsPerLine(ln) - 1
  BY PgsPerLineType
<1>2. /\ IsFiniteSet(0 .. PgsPerLine(ln) - 1)
      /\ Cardinality(0 .. PgsPerLine(ln) - 1) =
            IF 0 > PgsPerLine(ln) - 1 THEN 0 ELSE (PgsPerLine(ln) - 1) - 0 + 1
  BY <1>1, FS_Interval
<1> QED
  BY <1>1, <1>2, PgsPerLineType DEF Offsets

(* A count of pages is a natural number up to the size of the line.         *)
LEMMA CountFinite ==
    ASSUME NEW f, NEW ln \in Lines, NEW st
    PROVE  /\ IsFiniteSet(OffsetsWith(f, ln, st))
           /\ Count(f, ln, st) = Cardinality(OffsetsWith(f, ln, st))
           /\ Count(f, ln, st) \in Nat
           /\ Count(f, ln, st) <= PgsPerLine(ln)
           /\ Count(f, ln, st) = PgsPerLine(ln) => OffsetsWith(f, ln, st) = Offsets(ln)
<1>1. OffsetsWith(f, ln, st) \subseteq Offsets(ln)
  BY DEF OffsetsWith
<1>2. Count(f, ln, st) = Cardinality(OffsetsWith(f, ln, st))
  BY DEF Count, OffsetsWith, Offsets
<1>3. /\ IsFiniteSet(OffsetsWith(f, ln, st))
      /\ Cardinality(OffsetsWith(f, ln, st)) <= Cardinality(Offsets(ln))
      /\ Cardinality(OffsetsWith(f, ln, st)) = Cardinality(Offsets(ln)) =>
            OffsetsWith(f, ln, st) = Offsets(ln)
  BY <1>1, OffsetsFinite, FS_Subset
<1>4. Cardinality(OffsetsWith(f, ln, st)) \in Nat
  BY <1>3, FS_CardinalityType
<1> QED
  BY <1>2, <1>3, <1>4, OffsetsFinite

(* The count equals the size of the line when all pages have the status.    *)
LEMMA CountFull ==
    ASSUME NEW f, NEW ln \in Lines, NEW st
    PROVE  Count(f, ln, st) = PgsPerLine(ln) <=> \A p \in PagesOf(ln) : f[p] = st
<1>1. (\A p \in PagesOf(ln) : f[p] = st) <=> OffsetsWith(f, ln, st) = Offsets(ln)
  BY DEF PagesOf, OffsetsWith, Offsets
<1> QED
  BY <1>1, CountFinite, OffsetsFinite

(* The count is zero when no page has the status.                           *)
LEMMA CountNone ==
    ASSUME NEW f, NEW ln \in Lines, NEW st, \A p \in PagesOf(ln) : f[p] # st
    PROVE  Count(f, ln, st) = 0
<1>1. OffsetsWith(f, ln, st) = {}
  BY DEF PagesOf, OffsetsWith, Offsets
<1> QED
  BY <1>1, CountFinite, FS_EmptySet

(* g is f but for page p, which goes from status old to status new. *)
Flips(f, g, p, old, new) ==
    /\ f \in [Ppas -> Statuses] /\ p \in Ppas
    /\ old \in Statuses /\ new \in Statuses /\ old # new
    /\ f[p] = old /\ g = [f EXCEPT ![p] = new]

(* Counting when one page changes its status. *)
LEMMA CountStep ==
    ASSUME NEW f, NEW g, NEW p, NEW old, NEW new, Flips(f, g, p, old, new)
    PROVE  /\ \A ln \in Lines, st \in Statuses :
                ln # p.blk \/ (st # new /\ st # old) => Count(g, ln, st) = Count(f, ln, st)
           /\ Count(g, p.blk, new) = Count(f, p.blk, new) + 1
           /\ Count(g, p.blk, old) = Count(f, p.blk, old) - 1
<1> DEFINE ln == p.blk
           k == p.pg
<1>1. ln \in Lines /\ k \in Offsets(ln) /\ p = Ppa(ln, k)
  BY PpasDef DEF Offsets, Flips
<1>2. \A q \in Ppas : g[q] = IF q = p THEN new ELSE f[q]
  BY DEF Flips
<1> f[p] = old /\ old # new
  BY DEF Flips
<1>3. \A x \in Lines : \A j \in Offsets(x) :
        /\ Ppa(x, j) \in Ppas
        /\ Ppa(x, j) = p <=> x = ln /\ j = k
  BY PpasDef, PpaEq, <1>1 DEF Offsets
<1>4. ASSUME NEW x \in Lines, NEW st \in Statuses,
             x # ln \/ (st # new /\ st # old)
      PROVE  Count(g, x, st) = Count(f, x, st)
  <2>1. OffsetsWith(g, x, st) = OffsetsWith(f, x, st)
    BY <1>1, <1>2, <1>3, <1>4 DEF OffsetsWith, Offsets
  <2>2. Count(g, x, st) = Cardinality(OffsetsWith(g, x, st))
    BY DEF Count, OffsetsWith, Offsets
  <2> QED
    BY <2>1, <2>2, CountFinite
<1>5. Count(g, ln, new) = Count(f, ln, new) + 1
  <2>1. OffsetsWith(g, ln, new) = OffsetsWith(f, ln, new) \cup {k} /\ k \notin OffsetsWith(f, ln, new)
    BY <1>1, <1>2, <1>3 DEF OffsetsWith, Offsets
  <2>2. Count(g, ln, new) = Cardinality(OffsetsWith(g, ln, new))
    BY DEF Count, OffsetsWith, Offsets
  <2> QED
    <3>1. IsFiniteSet(OffsetsWith(f, ln, new)) /\ Count(f, ln, new) = Cardinality(OffsetsWith(f, ln, new))
      BY <1>1, CountFinite
    <3>2. Cardinality(OffsetsWith(f, ln, new) \cup {k}) = Cardinality(OffsetsWith(f, ln, new)) + 1
      BY <3>1, <2>1, FS_AddElement
    <3> QED
      BY <3>1, <3>2, <2>1, <2>2
<1>6. Count(g, ln, old) = Count(f, ln, old) - 1
  <2>1. OffsetsWith(g, ln, old) = OffsetsWith(f, ln, old) \ {k} /\ k \in OffsetsWith(f, ln, old)
    BY <1>1, <1>2, <1>3 DEF OffsetsWith, Offsets
  <2>2. Count(g, ln, old) = Cardinality(OffsetsWith(g, ln, old))
    BY DEF Count, OffsetsWith, Offsets
  <2> QED
    <3>1. IsFiniteSet(OffsetsWith(f, ln, old)) /\ Count(f, ln, old) = Cardinality(OffsetsWith(f, ln, old))
      BY <1>1, CountFinite
    <3>2. Cardinality(OffsetsWith(f, ln, old) \ {k}) = Cardinality(OffsetsWith(f, ln, old)) - 1
      BY <3>1, <2>1, FS_RemoveElement
    <3> QED
      BY <3>1, <3>2, <2>1, <2>2
<1> QED
  BY <1>1, <1>4, <1>5, <1>6

(* The SLC and TLC areas split the lines; each kind of write has its own.   *)
LEMMA LineModes ==
    /\ \A m \in Modes : LinesOf(m) \subseteq Lines /\ NULL \notin LinesOf(m)
    /\ \A ln \in Lines : ModeOf(ln) \in Modes /\ ln \in LinesOf(ModeOf(ln))
    /\ \A m \in Modes : \A ln \in LinesOf(m) : ModeOf(ln) = m
    /\ \A io \in IoTypes : ModeFor(io) \in Modes
    /\ \A i, j \in IoTypes : ModeFor(i) = ModeFor(j) => i = j
BY LineCounts, NullIsFresh
   DEF Lines, SlcLines, TlcLines, LinesOf, Modes, ModeOf, ModeFor, IoTypes

(* The invariants of the page states and of the line lists. *)
Struct == CountsExact /\ ClosedLinesUsedUp /\ OpenLines /\ FreeLines /\ ListsExact

(* Programming the page at a write pointer and moving the pointer on keeps *)
(* the page counters, the line lists and the open lines sound.             *)
LEMMA WriteStep ==
    ASSUME TypeOK, Struct, NEW io \in IoTypes, wp[io].line # NULL,
           NEW l \in Lpns, MapPage(l, GetNewPage(io)), AdvanceWritePointer(io),
           UNCHANGED victim_line
    PROVE  /\ TablesOK' /\ ListsOK' /\ Struct'
           /\ wp' \in [IoTypes -> [line : Lines \cup {NULL}, pg : Nat]]
           /\ \A x \in IoTypes : x # io => wp'[x] = wp[x]
           /\ GetNewPage(io) \in Ppas
           /\ status[GetNewPage(io)] = "FREE"
<1>n. PICK n : n = GetNewPage(io)
  OBVIOUS
<1>ln. PICK ln : ln = wp[io].line
  OBVIOUS
<1> DEFINE m == ModeFor(io)
           sz == PgsPerLine(ln)
<1>1. /\ wp[io].pg \in Nat /\ wp[io].pg < sz /\ sz \in Nat
      /\ ln \in Lines /\ ln \in LinesOf(m) /\ m \in Modes /\ ModeOf(ln) = m
  BY <1>ln, LineModes, PgsPerLineType DEF TypeOK, ControlOK, Struct, OpenLines
<1>2. n \in Ppas /\ n.blk = ln /\ n.pg = wp[io].pg /\ n \in PagesOf(ln)
  BY <1>n, <1>ln, <1>1, PpasDef, PpaFields DEF GetNewPage, PagesOf
<1>3. status[n] = "FREE"
  BY <1>ln, <1>1, <1>2 DEF Struct, OpenLines
<1>4. /\ status' = [status EXCEPT ![n] = "VALID"]
      /\ vpc' = [vpc EXCEPT ![ln] = @ + 1]
      /\ ipc' = ipc
      /\ maptbl' = [maptbl EXCEPT ![l] = n]
      /\ rmap' = [rmap EXCEPT ![n] = l]
  BY <1>n, <1>2 DEF MapPage, MarkPageValid
<1>5. \A q \in Ppas : status'[q] = IF q = n THEN "VALID" ELSE status[q]
  BY <1>4 DEF TypeOK, TablesOK
<1>6. \A x \in Lines : x # ln => \A p \in PagesOf(x) : status'[p] = status[p]
  BY <1>2, <1>5, PagesOfDef
<1>7. TablesOK'
  BY <1>1, <1>2, <1>4 DEF TypeOK, TablesOK, Statuses
<1>8. CountsExact'
  <2>1. /\ \A x \in Lines, st \in Statuses : x # ln \/ (st # "VALID" /\ st # "FREE") =>
                Count(status', x, st) = Count(status, x, st)
        /\ Count(status', ln, "VALID") = Count(status, ln, "VALID") + 1
    <3>1. Flips(status, status', n, "FREE", "VALID")
      BY <1>2, <1>3, <1>4 DEF Flips, TypeOK, TablesOK, Statuses
    <3>2. /\ \A x \in Lines, st \in Statuses : x # n.blk \/ (st # "VALID" /\ st # "FREE") =>
                Count(status', x, st) = Count(status, x, st)
          /\ Count(status', n.blk, "VALID") = Count(status, n.blk, "VALID") + 1
      BY <3>1, CountStep
    <3> QED
      BY <3>2, <1>2
  <2> SUFFICES ASSUME NEW x \in Lines
               PROVE  vpc'[x] = Count(status', x, "VALID") /\ ipc'[x] = Count(status', x, "INVALID")
    BY DEF CountsExact
  <2>2. vpc[x] = Count(status, x, "VALID") /\ ipc[x] = Count(status, x, "INVALID")
    BY DEF Struct, CountsExact
  <2> QED
    BY <2>1, <2>2, <1>1, <1>4 DEF TypeOK, TablesOK, Statuses
<1>9. \A x \in Modes : ln \notin ToSet(full_line_list[x]) \cup victim_line_pq[x]
                                    \cup ToSet(free_line_list[x])
  <2>1. \A x \in Modes : ln \notin ToSet(full_line_list[x]) \cup victim_line_pq[x]
    BY <1>2, <1>3 DEF Struct, ClosedLinesUsedUp
  <2>2. \A x \in Modes : ToSet(free_line_list[x]) \subseteq LinesOf(x)
    BY DEF TypeOK, ListsOK, ToSet
  <2>3. ln \notin ToSet(free_line_list[m])
    BY <1>ln, <1>1 DEF Struct, OpenLines
  <2> QED
    BY <2>1, <2>2, <2>3, <1>1, LineModes
<1>10. ln # victim_line
  BY <1>1, <1>2, <1>3, LineModes DEF Struct, ClosedLinesUsedUp
<1>a. \A x \in Modes : \A y \in ToSet(full_line_list[x]) \cup victim_line_pq[x]
                                    \cup ToSet(free_line_list[x]) :
        y \in Lines /\ y # ln /\ \A p \in PagesOf(y) : status'[p] = status[p]
  <2>1. \A x \in Modes : ToSet(full_line_list[x]) \cup victim_line_pq[x]
                            \cup ToSet(free_line_list[x]) \subseteq Lines
    BY LineModes DEF TypeOK, ListsOK, ToSet
  <2> QED
    BY <2>1, <1>6, <1>9
<1>b. \A x \in Modes :
        /\ \A y \in ToSet(free_line_list[x]) : \A p \in PagesOf(y) : status'[p] = "FREE"
        /\ \A y \in ToSet(full_line_list[x]) : \A p \in PagesOf(y) : status'[p] = "VALID"
        /\ \A y \in victim_line_pq[x] :
                /\ \A p \in PagesOf(y) : status'[p] # "FREE"
                /\ \E p \in PagesOf(y) : status'[p] = "INVALID"
  BY <1>a DEF Struct, FreeLines, ClosedLinesUsedUp
<1>c. victim_line # NULL => \A p \in PagesOf(victim_line) : status'[p] # "FREE"
  <2>1. victim_line # NULL => victim_line \in Lines
    BY DEF TypeOK, ControlOK
  <2> QED
    BY <2>1, <1>6, <1>10 DEF Struct, ClosedLinesUsedUp, Modes
<1>11. CASE wp[io].pg + 1 < sz
  <2>1. /\ wp' = [wp EXCEPT ![io].pg = @ + 1]
        /\ UNCHANGED <<freeVars, fullVars, victimVars>>
    BY <1>11, <1>ln DEF AdvanceWritePointer
  <2>2. UNCHANGED <<free_line_list, free_line_cnt, full_line_list, full_line_cnt,
                    victim_line_pq, victim_line_cnt, victim_line>>
    BY <2>1 DEF freeVars, fullVars, victimVars
  <2>3. /\ wp' \in [IoTypes -> [line : Lines \cup {NULL}, pg : Nat]]
        /\ wp'[io].line = ln /\ wp'[io].pg = wp[io].pg + 1
        /\ \A x \in IoTypes : wp'[x].line = wp[x].line
        /\ \A x \in IoTypes : x # io => wp'[x] = wp[x]
    BY <2>1, <1>1, <1>ln DEF TypeOK, ControlOK
  <2>4. ListsOK'
    BY <2>2 DEF TypeOK, ListsOK
  <2>5. ListsExact'
    BY <2>2, <2>3 DEF Struct, ListsExact
  <2>6. FreeLines'
    BY <2>2, <1>b DEF FreeLines
  <2>7. ClosedLinesUsedUp'
    BY <2>2, <1>b, <1>c DEF ClosedLinesUsedUp
  <2>8. OpenLines'
    <3> SUFFICES ASSUME NEW x \in IoTypes, wp'[x].line # NULL
                 PROVE  /\ wp'[x].line \in LinesOf(ModeFor(x))
                        /\ wp'[x].pg < PgsPerLine(wp'[x].line)
                        /\ \A p \in PagesOf(wp'[x].line) :
                                status'[p] = "FREE" <=> wp'[x].pg <= p.pg
                        /\ wp'[x].line \notin ToSet(free_line_list[ModeFor(x)])
      BY <2>2 DEF OpenLines
    <3>1. CASE x = io
      BY <3>1, <2>3, <1>ln, <1>1, <1>2, <1>5, <1>11, PagesOfDef, PpasDef DEF Struct, OpenLines
    <3>2. CASE x # io
      BY <3>2, <2>3, <1>1, <1>6, LineModes DEF Struct, OpenLines
    <3> QED
      BY <3>1, <3>2
  <2> QED
    BY <1>n, <1>2, <1>3, <1>7, <1>8, <2>3, <2>4, <2>5, <2>6, <2>7, <2>8 DEF Struct
<1>12. CASE ~(wp[io].pg + 1 < sz)
  <2>1. CloseLine(ln) /\ OpenNextLine(io)
    BY <1>12, <1>ln DEF AdvanceWritePointer
  <2>2. \A p \in PagesOf(ln) : status'[p] # "FREE"
    BY <1>ln, <1>1, <1>2, <1>5, <1>12, PagesOfDef, PpasDef DEF Struct, OpenLines
  <2>3. vpc'[ln] = Count(status', ln, "VALID")
    BY <1>1, <1>8 DEF CountsExact
  <2>4. /\ DOMAIN full_line_list' = Modes /\ DOMAIN victim_line_pq' = Modes
        /\ full_line_cnt' \in [Modes -> Nat] /\ victim_line_cnt' \in [Modes -> Nat]
        /\ \A x \in Modes :
            /\ full_line_list'[x] \in Seq(LinesOf(x)) /\ IsInjective(full_line_list'[x])
            /\ full_line_cnt'[x] = Len(full_line_list'[x])
            /\ victim_line_pq'[x] \subseteq LinesOf(x) /\ IsFiniteSet(victim_line_pq'[x])
            /\ victim_line_cnt'[x] = Cardinality(victim_line_pq'[x])
            /\ ToSet(full_line_list'[x]) \cup victim_line_pq'[x] =
                 ToSet(full_line_list[x]) \cup victim_line_pq[x] \cup (IF x = m THEN {ln} ELSE {})
            /\ \A y \in ToSet(full_line_list'[x]) : \A p \in PagesOf(y) : status'[p] = "VALID"
            /\ \A y \in victim_line_pq'[x] :
                    /\ \A p \in PagesOf(y) : status'[p] # "FREE"
                    /\ \E p \in PagesOf(y) : status'[p] = "INVALID"
    <3>1. CASE vpc'[ln] = sz
      <4>1. /\ full_line_list' = [full_line_list EXCEPT ![m] = Append(@, ln)]
            /\ full_line_cnt' = [full_line_cnt EXCEPT ![m] = @ + 1]
            /\ victim_line_pq' = victim_line_pq /\ victim_line_cnt' = victim_line_cnt
        BY <3>1, <2>1, <1>1 DEF CloseLine, victimVars
      <4>2. \A p \in PagesOf(ln) : status'[p] = "VALID"
        <5>1. Count(status', ln, "VALID") = PgsPerLine(ln)
          BY <3>1, <2>3
        <5> QED
          BY <5>1, <1>1, CountFull
      <4>3. /\ Append(full_line_list[m], ln) \in Seq(LinesOf(m))
            /\ IsInjective(Append(full_line_list[m], ln))
            /\ ToSet(Append(full_line_list[m], ln)) = ToSet(full_line_list[m]) \cup {ln}
            /\ Len(Append(full_line_list[m], ln)) = Len(full_line_list[m]) + 1
        BY <1>1, <1>9, AppendList DEF TypeOK, ListsOK, Struct, ListsExact
      <4>4. full_line_cnt[m] = Len(full_line_list[m]) /\ full_line_cnt \in [Modes -> Nat]
            /\ victim_line_cnt \in [Modes -> Nat] /\ DOMAIN full_line_list = Modes
            /\ DOMAIN victim_line_pq = Modes
        BY <1>1 DEF TypeOK, ListsOK, Struct, ListsExact
      <4>5. ASSUME NEW x \in Modes, x # m
            PROVE  full_line_list'[x] = full_line_list[x] /\ full_line_cnt'[x] = full_line_cnt[x]
        BY <4>1, <4>4, <4>5
      <4>6. /\ full_line_list'[m] = Append(full_line_list[m], ln)
            /\ full_line_cnt'[m] = full_line_cnt[m] + 1
            /\ full_line_cnt' \in [Modes -> Nat] /\ DOMAIN full_line_list' = Modes
        BY <4>1, <4>4, <1>1
      <4>7. ASSUME NEW x \in Modes, x = m
            PROVE  /\ full_line_list'[x] \in Seq(LinesOf(x)) /\ IsInjective(full_line_list'[x])
                   /\ full_line_cnt'[x] = Len(full_line_list'[x])
                   /\ ToSet(full_line_list'[x]) = ToSet(full_line_list[x]) \cup {ln}
        BY <4>3, <4>4, <4>6, <4>7
      <4>8. ASSUME NEW x \in Modes
            PROVE  /\ victim_line_pq'[x] \subseteq LinesOf(x) /\ IsFiniteSet(victim_line_pq'[x])
                   /\ victim_line_cnt'[x] = Cardinality(victim_line_pq'[x])
                   /\ x # m => /\ full_line_list'[x] \in Seq(LinesOf(x))
                               /\ IsInjective(full_line_list'[x])
                               /\ full_line_cnt'[x] = Len(full_line_list'[x])
        BY <4>1, <4>5 DEF TypeOK, ListsOK, Struct, ListsExact
      <4>9. ASSUME NEW x \in Modes, NEW y \in ToSet(full_line_list'[x])
            PROVE  y = ln \/ y \in ToSet(full_line_list[x])
        BY <4>5, <4>7
      <4>10. ASSUME NEW x \in Modes
             PROVE  ToSet(full_line_list'[x]) = ToSet(full_line_list[x]) \cup (IF x = m THEN {ln} ELSE {})
        BY <4>5, <4>7
      <4> QED
        BY <4>1, <4>2, <4>4, <4>6, <4>7, <4>8, <4>9, <4>10, <1>b
    <3>2. CASE vpc'[ln] # sz
      <4>1. /\ victim_line_pq' = [victim_line_pq EXCEPT ![m] = @ \cup {ln}]
            /\ victim_line_cnt' = [victim_line_cnt EXCEPT ![m] = @ + 1]
            /\ full_line_list' = full_line_list /\ full_line_cnt' = full_line_cnt
        BY <3>2, <2>1, <1>1 DEF CloseLine, fullVars
      <4>2. \E p \in PagesOf(ln) : status'[p] = "INVALID"
        <5>1. \E p \in PagesOf(ln) : status'[p] # "VALID"
          BY <3>2, <2>3, <1>1, CountFull
        <5> QED
          BY <5>1, <2>2, <1>1, <1>7, PagesOfDef DEF TablesOK, Statuses
      <4>3. /\ IsFiniteSet(victim_line_pq[m] \cup {ln})
            /\ Cardinality(victim_line_pq[m] \cup {ln}) = victim_line_cnt[m] + 1
        <5>1. IsFiniteSet(victim_line_pq[m]) /\ ln \notin victim_line_pq[m]
              /\ victim_line_cnt[m] = Cardinality(victim_line_pq[m])
          BY <1>1, <1>9 DEF Struct, ListsExact
        <5> QED
          BY <5>1, FS_AddElement
      <4> QED
        BY <4>1, <4>2, <4>3, <2>2, <1>1, <1>b DEF TypeOK, ListsOK, Struct, ListsExact
    <3> QED
      BY <3>1, <3>2
  <2>5. /\ DOMAIN free_line_list' = Modes /\ free_line_cnt' \in [Modes -> Nat]
        /\ \A x \in Modes :
            /\ free_line_list'[x] \in Seq(LinesOf(x)) /\ IsInjective(free_line_list'[x])
            /\ free_line_cnt'[x] = Len(free_line_list'[x])
            /\ ToSet(free_line_list'[x]) \subseteq ToSet(free_line_list[x])
            /\ x # m => free_line_list'[x] = free_line_list[x]
        /\ wp' \in [IoTypes -> [line : Lines \cup {NULL}, pg : Nat]]
        /\ \A x \in IoTypes : x # io => wp'[x] = wp[x]
        /\ \/ wp'[io].line = NULL /\ free_line_list' = free_line_list
           \/ /\ wp'[io].line \in ToSet(free_line_list[m]) /\ wp'[io].pg = 0
              /\ ToSet(free_line_list'[m]) = ToSet(free_line_list[m]) \ {wp'[io].line}
    <3>1. CASE free_line_list[m] = <<>>
      <4>1. /\ wp' = [wp EXCEPT ![io] = [line |-> NULL, pg |-> 0]]
            /\ free_line_list' = free_line_list /\ free_line_cnt' = free_line_cnt
        BY <3>1, <2>1 DEF OpenNextLine, freeVars
      <4> QED
        BY <4>1, <1>1 DEF TypeOK, ListsOK, ControlOK, Struct, ListsExact
    <3>2. CASE free_line_list[m] # <<>>
      <4>1. /\ wp' = [wp EXCEPT ![io] = [line |-> Head(free_line_list[m]), pg |-> 0]]
            /\ free_line_list' = [free_line_list EXCEPT ![m] = Tail(@)]
            /\ free_line_cnt' = [free_line_cnt EXCEPT ![m] = @ - 1]
        BY <3>2, <2>1 DEF OpenNextLine
      <4>2. /\ Tail(free_line_list[m]) \in Seq(LinesOf(m))
            /\ IsInjective(Tail(free_line_list[m]))
            /\ Head(free_line_list[m]) \in ToSet(free_line_list[m])
            /\ ToSet(Tail(free_line_list[m])) =
                    ToSet(free_line_list[m]) \ {Head(free_line_list[m])}
            /\ Len(Tail(free_line_list[m])) = Len(free_line_list[m]) - 1
            /\ Len(free_line_list[m]) > 0
        BY <3>2, <1>1, TailList DEF TypeOK, ListsOK, Struct, ListsExact
      <4>3. Head(free_line_list[m]) \in Lines
        BY <4>2, <1>1, <1>a
      <4>4. wp' \in [IoTypes -> [line : Lines \cup {NULL}, pg : Nat]]
        BY <4>1, <4>3 DEF TypeOK, ControlOK
      <4>5. /\ wp'[io] = [line |-> Head(free_line_list[m]), pg |-> 0]
            /\ \A x \in IoTypes : x # io => wp'[x] = wp[x]
        BY <4>1 DEF TypeOK, ControlOK
      <4>6. free_line_cnt[m] = Len(free_line_list[m]) /\ free_line_cnt \in [Modes -> Nat]
        BY <1>1 DEF TypeOK, ListsOK, Struct, ListsExact
      <4>7. free_line_cnt' \in [Modes -> Nat]
        <5>1. free_line_cnt[m] - 1 \in Nat
          BY <4>2, <4>6, <1>1
        <5> QED
          BY <5>1, <4>1, <4>6
      <4> QED
        BY <4>1, <4>2, <4>4, <4>5, <4>6, <4>7, <1>1 DEF TypeOK, ListsOK, Struct, ListsExact
    <3> QED
      BY <3>1, <3>2
  <2>6. ListsOK'
    BY <2>4, <2>5 DEF ListsOK
  <2>7. FreeLines'
    BY <2>5, <1>b DEF FreeLines
  <2>8. ClosedLinesUsedUp'
    BY <2>4, <1>c DEF ClosedLinesUsedUp
  <2>9. ListsExact'
    <3>1. ASSUME NEW x \in Modes
          PROVE  victim_line' \notin victim_line_pq'[x] \cup ToSet(full_line_list'[x])
      BY <2>4, <1>10 DEF Struct, ListsExact
    <3>2. ASSUME NEW x \in Modes, NEW y \in LinesOf(x)
          PROVE  \/ y \in ToSet(free_line_list'[x]) \/ y \in ToSet(full_line_list'[x])
                 \/ y \in victim_line_pq'[x] \/ y = victim_line'
                 \/ \E z \in IoTypes : wp'[z].line = y
      <4>1. \/ y \in ToSet(free_line_list[x]) \/ y \in ToSet(full_line_list[x])
            \/ y \in victim_line_pq[x] \/ y = victim_line
            \/ \E z \in IoTypes : wp[z].line = y
        BY DEF Struct, ListsExact
      <4>2. y = ln => x = m
        BY <1>1, LineModes
      <4> QED
        <5>1. CASE y \in ToSet(free_line_list[x])
          BY <5>1, <2>5
        <5>2. CASE y \in ToSet(full_line_list[x]) \cup victim_line_pq[x]
          BY <5>2, <2>4
        <5>3. CASE y = ln
          BY <5>3, <4>2, <2>4
        <5>4. ASSUME NEW z \in IoTypes, wp[z].line = y, y # ln
              PROVE  wp'[z].line = y
          BY <5>4, <2>5, <1>ln
        <5> QED
          BY <4>1, <5>1, <5>2, <5>3, <5>4
    <3> QED
      BY <3>1, <3>2, <2>4, <2>5 DEF ListsExact
  <2>10. OpenLines'
    <3> SUFFICES ASSUME NEW x \in IoTypes, wp'[x].line # NULL
                 PROVE  /\ wp'[x].line \in LinesOf(ModeFor(x))
                        /\ wp'[x].pg < PgsPerLine(wp'[x].line)
                        /\ \A p \in PagesOf(wp'[x].line) :
                                status'[p] = "FREE" <=> wp'[x].pg <= p.pg
                        /\ wp'[x].line \notin ToSet(free_line_list'[ModeFor(x)])
      BY DEF OpenLines
    <3>1. CASE x = io
      <4>1. /\ wp'[io].line \in ToSet(free_line_list[m]) /\ wp'[io].pg = 0
            /\ wp'[io].line \notin ToSet(free_line_list'[m])
        BY <3>1, <2>5
      <4>2. wp'[io].line \in LinesOf(m)
        BY <4>1, <1>1 DEF TypeOK, ListsOK, ToSet
      <4>3. \A p \in PagesOf(wp'[io].line) : status'[p] = "FREE" /\ 0 <= p.pg
        BY <4>1, <4>2, <1>1, <1>b, PagesOfDef, PpasDef, LineModes
      <4>4. 0 < PgsPerLine(wp'[io].line)
        BY PgsPerLineType
      <4>5. \A p \in PagesOf(wp'[io].line) : status'[p] = "FREE" <=> wp'[io].pg <= p.pg
        BY <4>1, <4>3
      <4> QED
        BY <3>1, <4>1, <4>2, <4>4, <4>5
    <3>2. CASE x # io
      <4>1. wp'[x] = wp[x] /\ ModeFor(x) # m /\ ModeFor(x) \in Modes
        BY <3>2, <2>5, LineModes
      <4>2. free_line_list'[ModeFor(x)] = free_line_list[ModeFor(x)]
        BY <4>1, <2>5
      <4>3. wp[x].line \in LinesOf(ModeFor(x))
        BY <4>1 DEF Struct, OpenLines
      <4>4. wp[x].line \in Lines /\ wp[x].line # ln
        BY <4>1, <4>3, <1>1, LineModes
      <4> QED
        BY <4>1, <4>2, <4>4, <1>6 DEF Struct, OpenLines
    <3> QED
      BY <3>1, <3>2
  <2> QED
    BY <1>n, <1>2, <1>3, <1>7, <1>8, <2>5, <2>6, <2>7, <2>8, <2>9, <2>10 DEF Struct
<1> QED
  BY <1>11, <1>12

(* Pages of a line on a list or in a queue are pages. *)
LEMMA ListTypes ==
    ASSUME ListsOK, NEW x \in Modes
    PROVE  /\ ToSet(free_line_list[x]) \subseteq LinesOf(x)
           /\ ToSet(full_line_list[x]) \subseteq LinesOf(x)
           /\ victim_line_pq[x] \subseteq LinesOf(x)
           /\ LinesOf(x) \subseteq Lines
BY LineModes DEF ListsOK, ToSet

(* Outside a collection no page waits to be copied.                         *)
LEMMA TodoEmpty ==
    ASSUME TypeOK, ControlSound, victim_line = NULL
    PROVE  todo = {}
BY PpasDef, NullIsFresh DEF TypeOK, ControlOK, ControlSound

(* The page at a write pointer is an erased page of the open line. *)
LEMMA OpenHasFree ==
    ASSUME TypeOK, OpenLines, NEW io \in IoTypes, wp[io].line # NULL
    PROVE  /\ wp[io].line \in Lines
           /\ GetNewPage(io) \in PagesOf(wp[io].line)
           /\ GetNewPage(io) \in Ppas
           /\ GetNewPage(io).blk = wp[io].line
           /\ GetNewPage(io).pg = wp[io].pg
           /\ status[GetNewPage(io)] = "FREE"
<1>1. /\ wp[io].pg \in Nat /\ wp[io].pg < PgsPerLine(wp[io].line)
      /\ PgsPerLine(wp[io].line) \in Nat /\ wp[io].line \in Lines
  BY PgsPerLineType DEF TypeOK, ControlOK, OpenLines
<1>2. /\ GetNewPage(io) \in Ppas /\ GetNewPage(io).blk = wp[io].line
      /\ GetNewPage(io).pg = wp[io].pg /\ GetNewPage(io) \in PagesOf(wp[io].line)
  BY <1>1, PpasDef, PpaFields DEF GetNewPage, PagesOf
<1> QED
  BY <1>1, <1>2 DEF OpenLines

(* The victim's own lists apart, the state of one page of a closed or open *)
(* line goes from valid to invalid.                                        *)
LEMMA InvalidateStep ==
    ASSUME IInv, NEW l \in Lpns, Invalidate(l)
    PROVE  IInv'
<1> USE DEF Invalidate
<1>0. /\ pc = "host" /\ pc' = "program" /\ lpn' = l /\ victim_line = NULL /\ todo = {}
      /\ UNCHANGED <<maptbl, free_line_list, free_line_cnt, wp, write_credits,
                     credits_to_refill, dyn_slc_mode, victim_line, todo, resume>>
  BY TodoEmpty DEF IInv, ControlSound, freeVars, credits, gcVars
<1>1. CASE maptbl[l] = NULL
  <2>1. UNCHANGED <<rmap, status, vpc, ipc, full_line_list, full_line_cnt,
                    victim_line_pq, victim_line_cnt>>
    BY <1>1 DEF pages, fullVars, victimVars
  <2>2. TypeOK'
    BY <1>0, <2>1 DEF IInv, TypeOK, TablesOK, ListsOK, ControlOK
  <2>3. CountsExact' /\ ClosedLinesUsedUp' /\ OpenLines' /\ FreeLines' /\ ListsExact'
    BY <1>0, <2>1
       DEF IInv, CountsExact, ClosedLinesUsedUp, OpenLines, FreeLines, ListsExact
  <2>4. ControlSound'
    BY <1>0, <1>1, <2>1 DEF IInv, ControlSound
  <2>5. MappingSound'
    BY <1>0, <1>1, <2>1 DEF IInv, MappingSound, InFlight
  <2> QED
    BY <2>2, <2>3, <2>4, <2>5 DEF IInv
<1>2. CASE maptbl[l] # NULL
  <2>p. PICK p : p = maptbl[l]
    OBVIOUS
  <2>ln. PICK ln : ln = p.blk
    OBVIOUS
  <2>m. PICK m : m = ModeOf(ln)
    OBVIOUS
  <2>1. p \in Ppas /\ ln \in Lines /\ m \in Modes /\ ln \in LinesOf(m) /\ p \in PagesOf(ln)
    BY <1>2, <2>p, <2>ln, <2>m, PpasDef, PagesOfDef, LineModes DEF IInv, TypeOK, TablesOK
  <2>2. status[p] = "VALID" /\ rmap[p] = l
    BY <1>0, <1>2, <2>p DEF IInv, MappingSound, InFlight
  <2>3. /\ status' = [status EXCEPT ![p] = "INVALID"]
        /\ ipc' = [ipc EXCEPT ![ln] = @ + 1]
        /\ vpc' = [vpc EXCEPT ![ln] = @ - 1]
        /\ rmap' = [rmap EXCEPT ![p] = NULL]
    BY <1>2, <2>p, <2>ln DEF MarkPageInvalid
  <2>4. \A q \in Ppas : /\ status'[q] = IF q = p THEN "INVALID" ELSE status[q]
                        /\ rmap'[q] = IF q = p THEN NULL ELSE rmap[q]
    BY <2>3 DEF IInv, TypeOK, TablesOK
  <2>5. /\ \A x \in Lines, st \in Statuses : x # ln \/ (st # "INVALID" /\ st # "VALID") =>
                Count(status', x, st) = Count(status, x, st)
        /\ Count(status', ln, "INVALID") = Count(status, ln, "INVALID") + 1
        /\ Count(status', ln, "VALID") = Count(status, ln, "VALID") - 1
        /\ Count(status', ln, "VALID") \in Nat
    <3>1. Flips(status, status', p, "VALID", "INVALID")
      BY <2>1, <2>2, <2>3 DEF Flips, IInv, TypeOK, TablesOK, Statuses
    <3>2. Count(status', ln, "VALID") \in Nat
      BY <2>1, CountFinite
    <3> QED
      BY <3>1, <3>2, <2>ln, CountStep
  <2>6. \A x \in Lines : /\ vpc[x] = Count(status, x, "VALID")
                         /\ ipc[x] = Count(status, x, "INVALID")
    BY DEF IInv, CountsExact
  <2>7. TablesOK'
    <3>1. vpc[ln] - 1 \in Nat
      BY <2>1, <2>5, <2>6
    <3>2. vpc' \in [Lines -> Nat] /\ ipc' \in [Lines -> Nat]
      BY <3>1, <2>1, <2>3 DEF IInv, TypeOK, TablesOK
    <3> QED
      BY <3>2, <2>1, <2>3, <1>0 DEF IInv, TypeOK, TablesOK, Statuses
  <2>8. CountsExact'
    <3> SUFFICES ASSUME NEW x \in Lines
                 PROVE  /\ vpc'[x] = Count(status', x, "VALID")
                        /\ ipc'[x] = Count(status', x, "INVALID")
      BY DEF CountsExact
    <3>1. /\ vpc'[x] = IF x = ln THEN vpc[x] - 1 ELSE vpc[x]
          /\ ipc'[x] = IF x = ln THEN ipc[x] + 1 ELSE ipc[x]
      BY <2>3 DEF IInv, TypeOK, TablesOK
    <3> QED
      BY <3>1, <2>5, <2>6 DEF Statuses
  <2>9. ASSUME NEW x \in Modes
        PROVE  ln \notin ToSet(free_line_list[x])
    BY <2>1, <2>2 DEF IInv, FreeLines
  <2>10. WasFullLine(ln) <=> \A q \in PagesOf(ln) : status[q] = "VALID"
    BY <2>1, <2>6, CountFull DEF WasFullLine
  <2>11. \A x \in Lines : \A q \in PagesOf(x) :
            /\ status'[q] = "FREE" <=> status[q] = "FREE"
            /\ status[q] = "INVALID" => status'[q] = "INVALID"
            /\ x # ln => status'[q] = status[q]
    BY <2>1, <2>2, <2>4, <2>ln, PagesOfDef
  <2>12. /\ DOMAIN full_line_list' = Modes /\ DOMAIN victim_line_pq' = Modes
         /\ full_line_cnt' \in [Modes -> Nat] /\ victim_line_cnt' \in [Modes -> Nat]
         /\ \A x \in Modes :
             /\ full_line_list'[x] \in Seq(LinesOf(x)) /\ IsInjective(full_line_list'[x])
             /\ full_line_cnt'[x] = Len(full_line_list'[x])
             /\ victim_line_pq'[x] \subseteq LinesOf(x) /\ IsFiniteSet(victim_line_pq'[x])
             /\ victim_line_cnt'[x] = Cardinality(victim_line_pq'[x])
             /\ ToSet(full_line_list'[x]) \cup victim_line_pq'[x] =
                  ToSet(full_line_list[x]) \cup victim_line_pq[x]
             /\ ToSet(full_line_list'[x]) \subseteq ToSet(full_line_list[x]) \ {ln}
             /\ victim_line_pq'[x] \subseteq victim_line_pq[x] \cup {ln}
             /\ ln \in victim_line_pq'[x] => \A q \in PagesOf(ln) : status[q] # "FREE"
    <3>0. /\ DOMAIN full_line_list = Modes /\ DOMAIN victim_line_pq = Modes
          /\ full_line_cnt \in [Modes -> Nat] /\ victim_line_cnt \in [Modes -> Nat]
          /\ \A x \in Modes :
             /\ full_line_list[x] \in Seq(LinesOf(x)) /\ IsInjective(full_line_list[x])
             /\ full_line_cnt[x] = Len(full_line_list[x])
             /\ victim_line_pq[x] \subseteq LinesOf(x) /\ IsFiniteSet(victim_line_pq[x])
             /\ victim_line_cnt[x] = Cardinality(victim_line_pq[x])
      BY DEF IInv, TypeOK, ListsOK, ListsExact
    <3>1. CASE WasFullLine(ln)
      <4>1. /\ full_line_list' = [full_line_list EXCEPT ![m] = RemoveFirst(@, ln)]
            /\ full_line_cnt' = [full_line_cnt EXCEPT ![m] = @ - 1]
            /\ victim_line_pq' = [victim_line_pq EXCEPT ![m] = @ \cup {ln}]
            /\ victim_line_cnt' = [victim_line_cnt EXCEPT ![m] = @ + 1]
        BY <3>1, <1>2, <2>p, <2>ln, <2>m DEF MarkPageInvalid
      <4>2. ln \notin victim_line_pq[m] /\ \A io \in IoTypes : wp[io].line # ln
        <5>1. ln \notin victim_line_pq[m]
          BY <3>1, <2>1, <2>10 DEF IInv, ClosedLinesUsedUp
        <5>2. ASSUME NEW io \in IoTypes, wp[io].line = ln
              PROVE  FALSE
          <6>1. wp[io].line # NULL
            BY <5>2, <2>1, NullIsFresh
          <6> QED
            BY <6>1, <5>2, <3>1, <2>10, OpenHasFree DEF IInv
        <5> QED
          BY <5>1, <5>2
      <4>3. ln \in ToSet(full_line_list[m])
        BY <4>2, <1>0, <2>1, <2>9, NullIsFresh DEF IInv, ListsExact
      <4>4. /\ RemoveFirst(full_line_list[m], ln) \in Seq(LinesOf(m))
            /\ IsInjective(RemoveFirst(full_line_list[m], ln))
            /\ ToSet(RemoveFirst(full_line_list[m], ln)) = ToSet(full_line_list[m]) \ {ln}
            /\ Len(RemoveFirst(full_line_list[m], ln)) = Len(full_line_list[m]) - 1
        BY <4>3, <3>0, <2>1, RemoveList
      <4>5. /\ IsFiniteSet(victim_line_pq[m] \cup {ln})
            /\ Cardinality(victim_line_pq[m] \cup {ln}) = Cardinality(victim_line_pq[m]) + 1
        BY <4>2, <3>0, <2>1, FS_AddElement
      <4>6. full_line_cnt[m] - 1 \in Nat /\ full_line_cnt[m] - 1 = Len(RemoveFirst(full_line_list[m], ln))
        BY <4>4, <3>0, <2>1
      <4>7. /\ DOMAIN full_line_list' = Modes /\ DOMAIN victim_line_pq' = Modes
            /\ full_line_cnt' \in [Modes -> Nat] /\ victim_line_cnt' \in [Modes -> Nat]
        BY <4>1, <4>6, <3>0, <2>1
      <4>8. /\ full_line_list'[m] = RemoveFirst(full_line_list[m], ln)
            /\ full_line_cnt'[m] = full_line_cnt[m] - 1
            /\ victim_line_pq'[m] = victim_line_pq[m] \cup {ln}
            /\ victim_line_cnt'[m] = victim_line_cnt[m] + 1
        BY <4>1, <3>0, <2>1
      <4>9. ASSUME NEW x \in Modes, x # m
            PROVE  /\ full_line_list'[x] = full_line_list[x] /\ full_line_cnt'[x] = full_line_cnt[x]
                   /\ victim_line_pq'[x] = victim_line_pq[x]
                   /\ victim_line_cnt'[x] = victim_line_cnt[x]
                   /\ ln \notin ToSet(full_line_list[x]) /\ ln \notin victim_line_pq[x]
        <5>1. ln \notin LinesOf(x)
          BY <4>9, <2>1, LineModes
        <5> QED
          BY <5>1, <4>1, <4>9, <3>0, ListTypes DEF IInv, TypeOK
      <4>10. \A q \in PagesOf(ln) : status[q] # "FREE"
        BY <3>1, <2>10
      <4>11. /\ full_line_list'[m] \in Seq(LinesOf(m)) /\ IsInjective(full_line_list'[m])
             /\ full_line_cnt'[m] = Len(full_line_list'[m])
             /\ victim_line_pq'[m] \subseteq LinesOf(m) /\ IsFiniteSet(victim_line_pq'[m])
             /\ victim_line_cnt'[m] = Cardinality(victim_line_pq'[m])
             /\ ToSet(full_line_list'[m]) = ToSet(full_line_list[m]) \ {ln}
             /\ victim_line_pq'[m] = victim_line_pq[m] \cup {ln}
        BY <4>4, <4>5, <4>6, <4>8, <3>0, <2>1
      <4>12. ASSUME NEW x \in Modes
             PROVE  /\ full_line_list'[x] \in Seq(LinesOf(x)) /\ IsInjective(full_line_list'[x])
                    /\ full_line_cnt'[x] = Len(full_line_list'[x])
                    /\ victim_line_pq'[x] \subseteq LinesOf(x) /\ IsFiniteSet(victim_line_pq'[x])
                    /\ victim_line_cnt'[x] = Cardinality(victim_line_pq'[x])
        <5>1. CASE x = m
          BY <5>1, <4>11
        <5>2. CASE x # m
          BY <5>2, <4>9, <3>0
        <5> QED
          BY <5>1, <5>2
      <4>13. ASSUME NEW x \in Modes
             PROVE  /\ ToSet(full_line_list'[x]) \cup victim_line_pq'[x] =
                         ToSet(full_line_list[x]) \cup victim_line_pq[x]
                    /\ ToSet(full_line_list'[x]) \subseteq ToSet(full_line_list[x]) \ {ln}
                    /\ victim_line_pq'[x] \subseteq victim_line_pq[x] \cup {ln}
        <5>1. CASE x = m
          BY <5>1, <4>3, <4>11
        <5>2. CASE x # m
          BY <5>2, <4>9
        <5> QED
          BY <5>1, <5>2
      <4> QED
        BY <4>7, <4>10, <4>12, <4>13
    <3>2. CASE ~WasFullLine(ln)
      <4>1. UNCHANGED <<full_line_list, full_line_cnt, victim_line_pq, victim_line_cnt>>
        BY <3>2, <1>2, <2>p, <2>ln DEF MarkPageInvalid, fullVars, victimVars
      <4>2. ASSUME NEW x \in Modes
            PROVE  /\ ln \notin ToSet(full_line_list[x])
                   /\ ln \in victim_line_pq[x] => \A q \in PagesOf(ln) : status[q] # "FREE"
        BY <3>2, <2>10 DEF IInv, ClosedLinesUsedUp
      <4> QED
        BY <4>1, <4>2, <3>0
    <3> QED
      BY <3>1, <3>2
  <2>13. ListsOK'
    BY <2>12, <1>0 DEF IInv, TypeOK, ListsOK
  <2>14. ClosedLinesUsedUp'
    <3> SUFFICES ASSUME NEW x \in Modes
                 PROVE  /\ \A y \in ToSet(full_line_list'[x]) :
                                \A q \in PagesOf(y) : status'[q] = "VALID"
                        /\ \A y \in victim_line_pq'[x] :
                                /\ \A q \in PagesOf(y) : status'[q] # "FREE"
                                /\ \E q \in PagesOf(y) : status'[q] = "INVALID"
      BY <1>0 DEF ClosedLinesUsedUp
    <3>0. ToSet(full_line_list[x]) \subseteq Lines /\ victim_line_pq[x] \subseteq Lines
      BY ListTypes DEF IInv, TypeOK
    <3>1. \A y \in ToSet(full_line_list'[x]) : \A q \in PagesOf(y) : status'[q] = "VALID"
      <4>1. \A y \in ToSet(full_line_list'[x]) : y \in ToSet(full_line_list[x]) /\ y # ln
        BY <2>12
      <4> QED
        BY <4>1, <3>0, <2>11 DEF IInv, ClosedLinesUsedUp
    <3>2. ASSUME NEW y \in victim_line_pq'[x], y # ln
          PROVE  /\ \A q \in PagesOf(y) : status'[q] # "FREE"
                 /\ \E q \in PagesOf(y) : status'[q] = "INVALID"
      <4>1. y \in victim_line_pq[x]
        BY <3>2, <2>12
      <4> QED
        BY <4>1, <3>0, <2>11 DEF IInv, ClosedLinesUsedUp
    <3>3. ASSUME ln \in victim_line_pq'[x]
          PROVE  /\ \A q \in PagesOf(ln) : status'[q] # "FREE"
                 /\ \E q \in PagesOf(ln) : status'[q] = "INVALID"
      <4>1. status'[p] = "INVALID"
        BY <2>1, <2>4
      <4> QED
        BY <4>1, <3>3, <2>1, <2>11, <2>12
    <3> QED
      BY <3>1, <3>2, <3>3
  <2>15. FreeLines'
    BY <1>0, <2>11, ListTypes DEF IInv, TypeOK, FreeLines
  <2>16. OpenLines'
    <3>1. ASSUME NEW io \in IoTypes, wp[io].line # NULL
          PROVE  wp[io].line \in Lines
      BY <3>1 DEF IInv, TypeOK, ControlOK
    <3> QED
      BY <3>1, <1>0, <2>11 DEF IInv, OpenLines
  <2>17. ListsExact'
    <3>1. ASSUME NEW x \in Modes
          PROVE  NULL \notin victim_line_pq'[x] \cup ToSet(full_line_list'[x])
      BY <2>13, ListTypes, NullIsFresh, <2>12, LineModes DEF IInv, TypeOK
    <3>2. ASSUME NEW x \in Modes, NEW y \in LinesOf(x)
          PROVE  \/ y \in ToSet(free_line_list[x]) \/ y \in ToSet(full_line_list'[x])
                 \/ y \in victim_line_pq'[x] \/ y = victim_line
                 \/ \E z \in IoTypes : wp[z].line = y
      <4>1. \/ y \in ToSet(free_line_list[x]) \/ y \in ToSet(full_line_list[x]) \cup victim_line_pq[x]
            \/ y = victim_line \/ \E z \in IoTypes : wp[z].line = y
        BY DEF IInv, ListsExact
      <4> QED
        BY <4>1, <2>12
    <3>3. ASSUME NEW x \in Modes
          PROVE  IsInjective(free_line_list[x]) /\ free_line_cnt[x] = Len(free_line_list[x])
      BY DEF IInv, ListsExact
    <3> QED
      BY <3>1, <3>2, <3>3, <2>12, <1>0 DEF ListsExact
  <2>18. ControlOK' /\ ControlSound'
    BY <1>0, <2>1, <2>4, <2>p DEF IInv, TypeOK, ControlOK, ControlSound
  <2>19. MappingSound'
    <3>1. ASSUME NEW k \in Lpns, maptbl[k] # NULL, k # l
          PROVE  status'[maptbl[k]] = "VALID" /\ rmap'[maptbl[k]] = k
      <4>1. status[maptbl[k]] = "VALID" /\ rmap[maptbl[k]] = k /\ maptbl[k] \in Ppas
        BY <3>1, <1>0 DEF IInv, TypeOK, TablesOK, MappingSound, InFlight
      <4>2. maptbl[k] # p
        BY <4>1, <3>1, <2>2
      <4> QED
        BY <4>1, <4>2, <2>4
    <3>2. ASSUME NEW q \in Ppas, status'[q] = "VALID"
          PROVE  rmap'[q] \in Lpns /\ maptbl[rmap'[q]] = q
      <4>1. q # p /\ status[q] = "VALID" /\ rmap'[q] = rmap[q]
        BY <3>2, <2>4
      <4>2. q.blk # victim_line
        BY <1>0, PpasDef, NullIsFresh
      <4> QED
        BY <4>1, <4>2 DEF IInv, MappingSound
    <3>3. ASSUME NEW k \in Lpns, maptbl[k] # NULL
          PROVE  maptbl[k].blk # victim_line
      BY <3>3, <1>0, PpasDef, NullIsFresh DEF IInv, TypeOK, TablesOK
    <3> QED
      BY <3>1, <3>2, <3>3, <1>0 DEF MappingSound, InFlight
  <2> QED
    BY <2>7, <2>8, <2>13, <2>14, <2>15, <2>16, <2>17, <2>18, <2>19 DEF IInv, TypeOK
<1> QED
  BY <1>1, <1>2

(* Second half of a host write: IInv is preserved.                          *)
LEMMA ProgramStep ==
    ASSUME IInv, Program
    PROVE  IInv'
<1>1. /\ pc = "program" /\ MapPage(lpn, GetNewPage("USER")) /\ AdvanceWritePointer("USER")
      /\ write_credits' = Decrement(write_credits)
      /\ pc' = NextPc("USER", IF write_credits' = 0 THEN "fg" ELSE "host")
      /\ lpn' = NULL
      /\ UNCHANGED <<credits_to_refill, victim_line, todo, resume>>
  BY DEF Program, gcVars
<1>2. "USER" \in IoTypes /\ wp["USER"].line # NULL /\ lpn \in Lpns /\ victim_line = NULL /\ todo = {}
      /\ (maptbl[lpn] # NULL => status[maptbl[lpn]] = "INVALID")
  BY <1>1, TodoEmpty DEF IInv, ControlSound, IoTypes
<1>3. /\ TablesOK' /\ ListsOK' /\ Struct'
      /\ wp' \in [IoTypes -> [line : Lines \cup {NULL}, pg : Nat]]
      /\ \A x \in IoTypes : x # "USER" => wp'[x] = wp[x]
      /\ GetNewPage("USER") \in Ppas /\ status[GetNewPage("USER")] = "FREE"
  BY <1>1, <1>2, WriteStep DEF IInv, Struct
<1>n. PICK n : n = GetNewPage("USER")
  OBVIOUS
<1>4. /\ \A q \in Ppas : status'[q] = IF q = n THEN "VALID" ELSE status[q]
      /\ \A q \in Ppas : rmap'[q] = IF q = n THEN lpn ELSE rmap[q]
      /\ \A k \in Lpns : maptbl'[k] = IF k = lpn THEN n ELSE maptbl[k]
  BY <1>1, <1>3, <1>n DEF MapPage, MarkPageValid, IInv, TypeOK, TablesOK
<1>5. pc' \in {"bug", "fg", "host"} /\ (\A io \in IoTypes : wp'[io].line = NULL => pc' = "bug")
  <2>1. wp'["USER"].line = NULL => pc' = "bug"
    BY <1>1 DEF NextPc
  <2>2. \A io \in IoTypes : io # "USER" => wp'[io].line # NULL
    BY <1>1, <1>3 DEF IInv, ControlSound
  <2> QED
    BY <1>1, <2>1, <2>2 DEF NextPc
<1>6. ControlOK'
  <2>1. write_credits' \in 0 .. UINT32_MAX
    BY <1>1, CreditWidth DEF Decrement, IInv, TypeOK, ControlOK
  <2>2. dyn_slc_mode' \in Modes
    BY <1>1, <1>2, LineModes DEF AdvanceWritePointer, IInv, TypeOK, ControlOK
  <2> QED
    BY <2>1, <2>2, <1>1, <1>3, <1>5 DEF IInv, TypeOK, ControlOK
<1>7. ControlSound'
  BY <1>1, <1>2, <1>5 DEF ControlSound
<1>8. MappingSound'
  <2>1. ASSUME NEW k \in Lpns, maptbl'[k] # NULL
        PROVE  status'[maptbl'[k]] = "VALID" /\ rmap'[maptbl'[k]] = k
    <3>1. CASE k = lpn
      BY <3>1, <1>3, <1>4, <1>n
    <3>2. CASE k # lpn
      <4>1. /\ maptbl'[k] = maptbl[k] /\ maptbl[k] \in Ppas
            /\ status[maptbl[k]] = "VALID" /\ rmap[maptbl[k]] = k
        BY <2>1, <3>2, <1>4 DEF IInv, TypeOK, TablesOK, MappingSound, InFlight
      <4> QED
        BY <4>1, <1>3, <1>4, <1>n
    <3> QED
      BY <3>1, <3>2
  <2>2. ASSUME NEW q \in Ppas, status'[q] = "VALID"
        PROVE  rmap'[q] \in Lpns /\ maptbl'[rmap'[q]] = q
    <3>1. CASE q = n
      BY <3>1, <1>2, <1>4
    <3>2. CASE q # n
      <4>1. status[q] = "VALID" /\ rmap'[q] = rmap[q]
        BY <2>2, <3>2, <1>4
      <4>2. q.blk # victim_line
        BY <1>2, PpasDef, NullIsFresh
      <4>3. rmap[q] \in Lpns /\ maptbl[rmap[q]] = q
        BY <4>1, <4>2 DEF IInv, MappingSound
      <4>4. rmap[q] # lpn
        BY <4>1, <4>3, <1>2, NullIsFresh
      <4> QED
        BY <4>1, <4>3, <4>4, <1>4
    <3> QED
      BY <3>1, <3>2
  <2>3. ASSUME NEW k \in Lpns, maptbl'[k] # NULL
        PROVE  maptbl'[k].blk # NULL
    BY <2>3, <1>3, PpasDef, NullIsFresh DEF TablesOK
  <2> QED
    BY <2>1, <2>2, <2>3, <1>1, <1>2 DEF MappingSound
<1> QED
  BY <1>3, <1>6, <1>7, <1>8 DEF IInv, TypeOK, Struct

(* Copying one page of the victim preserves IInv.                           *)
LEMMA GcWritePageStep ==
    ASSUME IInv, NEW p \in todo, GcWritePage(p)
    PROVE  IInv'
<1>l. PICK l : l = rmap[p]
  OBVIOUS
<1>n. PICK n : n = GetNewPage("GC")
  OBVIOUS
<1>1. /\ pc = "clean" /\ MapPage(l, n) /\ MapPage(l, GetNewPage("GC")) /\ AdvanceWritePointer("GC")
      /\ todo' = todo \ {p} /\ pc' = NextPc("GC", "clean")
      /\ UNCHANGED <<write_credits, credits_to_refill, lpn, victim_line, resume>>
  BY <1>l, <1>n DEF GcWritePage, credits
<1>2. /\ "GC" \in IoTypes /\ wp["GC"].line # NULL /\ victim_line # NULL /\ victim_line \in Lines
      /\ p \in Ppas /\ status[p] = "VALID" /\ p.blk = victim_line
      /\ l \in Lpns /\ maptbl[l] = p
  BY <1>1, <1>l DEF IInv, TypeOK, ControlOK, ControlSound, MappingSound, IoTypes
<1>3. /\ TablesOK' /\ ListsOK' /\ Struct'
      /\ wp' \in [IoTypes -> [line : Lines \cup {NULL}, pg : Nat]]
      /\ \A x \in IoTypes : x # "GC" => wp'[x] = wp[x]
      /\ n \in Ppas /\ status[n] = "FREE"
  BY <1>1, <1>2, <1>n, WriteStep DEF IInv, Struct
<1>4. /\ \A q \in Ppas : status'[q] = IF q = n THEN "VALID" ELSE status[q]
      /\ \A q \in Ppas : rmap'[q] = IF q = n THEN l ELSE rmap[q]
      /\ \A k \in Lpns : maptbl'[k] = IF k = l THEN n ELSE maptbl[k]
  BY <1>1, <1>3 DEF MapPage, MarkPageValid, IInv, TypeOK, TablesOK
<1>5. n.blk # victim_line
  BY <1>2, <1>3, PagesOfDef DEF IInv, ClosedLinesUsedUp, Modes
<1>6. pc' \in {"bug", "clean"} /\ (\A io \in IoTypes : wp'[io].line = NULL => pc' = "bug")
  <2>1. wp'["GC"].line = NULL => pc' = "bug"
    BY <1>1 DEF NextPc
  <2>2. \A io \in IoTypes : io # "GC" => wp'[io].line # NULL
    BY <1>1, <1>3 DEF IInv, ControlSound
  <2> QED
    BY <1>1, <2>1, <2>2 DEF NextPc
<1>7. ControlOK'
  <2>1. dyn_slc_mode' \in Modes
    BY <1>1, <1>2, LineModes DEF AdvanceWritePointer, IInv, TypeOK, ControlOK
  <2> QED
    BY <2>1, <1>1, <1>3, <1>6 DEF IInv, TypeOK, ControlOK
<1>8. ControlSound'
  <2>1. \A q \in todo' : status'[q] = "VALID" /\ q.blk = victim_line'
    BY <1>1, <1>3, <1>4 DEF IInv, ControlSound, TypeOK, ControlOK
  <2> QED
    BY <2>1, <1>1, <1>2, <1>6 DEF IInv, ControlSound
<1>9. MappingSound'
  <2>1. ASSUME NEW k \in Lpns, maptbl'[k] # NULL
        PROVE  status'[maptbl'[k]] = "VALID" /\ rmap'[maptbl'[k]] = k
    <3>1. CASE k = l
      BY <3>1, <1>3, <1>4
    <3>2. CASE k # l
      <4>1. /\ maptbl'[k] = maptbl[k] /\ maptbl[k] \in Ppas
            /\ status[maptbl[k]] = "VALID" /\ rmap[maptbl[k]] = k
        BY <2>1, <3>2, <1>1, <1>4 DEF IInv, TypeOK, TablesOK, MappingSound, InFlight
      <4> QED
        BY <4>1, <1>3, <1>4
    <3> QED
      BY <3>1, <3>2
  <2>2. ASSUME NEW q \in Ppas, status'[q] = "VALID", q.blk = victim_line => q \in todo \ {p}
        PROVE  rmap'[q] \in Lpns /\ maptbl'[rmap'[q]] = q
    <3>1. CASE q = n
      BY <3>1, <1>2, <1>4
    <3>2. CASE q # n
      <4>1. status[q] = "VALID" /\ rmap'[q] = rmap[q]
        BY <2>2, <3>2, <1>4
      <4>2. q # p
        BY <2>2, <1>2
      <4>3. rmap[q] \in Lpns /\ maptbl[rmap[q]] = q
        BY <4>1, <2>2 DEF IInv, MappingSound
      <4> QED
        BY <4>1, <4>2, <4>3, <1>2, <1>4
    <3> QED
      BY <3>1, <3>2
  <2>3. ASSUME NEW k \in Lpns, maptbl'[k] # NULL, maptbl'[k].blk = victim_line
        PROVE  maptbl'[k] \in todo \ {p}
    <3>1. k # l
      BY <2>3, <1>4, <1>5
    <3>2. maptbl'[k] = maptbl[k] /\ maptbl[k] \in todo /\ rmap[maptbl[k]] = k
      BY <3>1, <2>3, <1>1, <1>4 DEF IInv, MappingSound, InFlight
    <3> QED
      BY <3>1, <3>2, <1>l
  <2> QED
    BY <2>1, <2>2, <2>3, <1>1 DEF MappingSound
<1> QED
  BY <1>3, <1>7, <1>8, <1>9 DEF IInv, TypeOK, Struct

(* Taking a victim out of its queue or from the head of the full list. *)
LEMMA DoGcStep ==
    ASSUME IInv, pc \notin {"clean", "bug"}, pc # "program", NEW m \in Modes, NEW ln,
           \/ ln = NULL
           \/ ln \in victim_line_pq[m]
           \/ full_line_list[m] # <<>> /\ ln = Head(full_line_list[m]),
           NEW return, return = IF m = "TLC" THEN "mig" ELSE "refill",
           DoGc(m, ln, return)
    PROVE  IInv'
<1>1. /\ dyn_slc_mode' = m /\ victim_line = NULL /\ todo = {}
      /\ UNCHANGED <<maptbl, rmap, status, vpc, ipc, free_line_list, free_line_cnt, wp,
                     write_credits, lpn>>
  BY TodoEmpty DEF DoGc, mapping, pages, freeVars, IInv, ControlSound
<1>2. TablesOK' /\ CountsExact' /\ FreeLines' /\ OpenLines'
  BY <1>1 DEF IInv, TypeOK, TablesOK, CountsExact, FreeLines, OpenLines
<1>3. return \in {"mig", "refill"}
  OBVIOUS
<1>4. CASE ln = NULL
  <2>1. /\ pc' = return
        /\ UNCHANGED <<full_line_list, full_line_cnt, victim_line_pq, victim_line_cnt,
                       credits_to_refill, victim_line, todo, resume>>
    BY <1>4 DEF DoGc, fullVars, victimVars, gcVars
  <2>2. ListsOK' /\ ClosedLinesUsedUp' /\ ListsExact'
    BY <1>1, <2>1 DEF IInv, TypeOK, ListsOK, ClosedLinesUsedUp, ListsExact
  <2>3. ControlOK' /\ ControlSound'
    BY <1>1, <1>3, <2>1 DEF IInv, TypeOK, ControlOK, ControlSound
  <2>4. MappingSound'
    BY <1>1, <1>3, <2>1 DEF IInv, MappingSound, InFlight
  <2> QED
    BY <1>2, <2>2, <2>3, <2>4 DEF IInv, TypeOK
<1>5. CASE ln # NULL
  <2>1. /\ TakeVictim(ln) /\ credits_to_refill' = CreditsFor(m, ln) /\ victim_line' = ln
        /\ todo' = {p \in PagesOf(ln) : status[p] = "VALID"}
        /\ resume' = return /\ pc' = "clean"
    BY <1>5 DEF DoGc, VictimPages
  <2>0. /\ DOMAIN full_line_list = Modes /\ DOMAIN victim_line_pq = Modes
        /\ full_line_cnt \in [Modes -> Nat] /\ victim_line_cnt \in [Modes -> Nat]
        /\ \A x \in Modes :
             /\ full_line_list[x] \in Seq(LinesOf(x)) /\ IsInjective(full_line_list[x])
             /\ full_line_cnt[x] = Len(full_line_list[x])
             /\ victim_line_pq[x] \subseteq LinesOf(x) /\ IsFiniteSet(victim_line_pq[x])
             /\ victim_line_cnt[x] = Cardinality(victim_line_pq[x])
    BY DEF IInv, TypeOK, ListsOK, ListsExact
  <2>2. ln \in victim_line_pq[m] \/ (full_line_list[m] # <<>> /\ ln = Head(full_line_list[m]))
    BY <1>5
  <2>3. ln \in victim_line_pq[m] \cup ToSet(full_line_list[m])
    BY <2>0, <2>2, TailList
  <2>4. ln \in LinesOf(m) /\ ln \in Lines /\ ModeOf(ln) = m
    BY <2>3, ListTypes, LineModes DEF IInv, TypeOK
  <2>5. \A p \in PagesOf(ln) : status[p] # "FREE"
    BY <2>3 DEF IInv, ClosedLinesUsedUp
  <2>6. \A x \in Modes : ~(ln \in victim_line_pq[x] /\ ln \in ToSet(full_line_list[x]))
    BY DEF IInv, ClosedLinesUsedUp
  <2>7. /\ DOMAIN full_line_list' = Modes /\ DOMAIN victim_line_pq' = Modes
        /\ full_line_cnt' \in [Modes -> Nat] /\ victim_line_cnt' \in [Modes -> Nat]
        /\ \A x \in Modes :
             /\ full_line_list'[x] \in Seq(LinesOf(x)) /\ IsInjective(full_line_list'[x])
             /\ full_line_cnt'[x] = Len(full_line_list'[x])
             /\ victim_line_pq'[x] \subseteq LinesOf(x) /\ IsFiniteSet(victim_line_pq'[x])
             /\ victim_line_cnt'[x] = Cardinality(victim_line_pq'[x])
             /\ ToSet(full_line_list'[x]) = ToSet(full_line_list[x]) \ {ln}
             /\ victim_line_pq'[x] = victim_line_pq[x] \ {ln}
    <3>0. ASSUME NEW x \in Modes, x # m
          PROVE  ln \notin ToSet(full_line_list[x]) /\ ln \notin victim_line_pq[x]
      BY <3>0, <2>4, ListTypes, LineModes DEF IInv, TypeOK
    <3>1. CASE ln \in victim_line_pq[m]
      <4>1. /\ victim_line_pq' = [victim_line_pq EXCEPT ![m] = @ \ {ln}]
            /\ victim_line_cnt' = [victim_line_cnt EXCEPT ![m] = @ - 1]
            /\ full_line_list' = full_line_list /\ full_line_cnt' = full_line_cnt
        BY <3>1, <2>1, <2>4 DEF TakeVictim, fullVars
      <4>2. /\ IsFiniteSet(victim_line_pq[m] \ {ln})
            /\ Cardinality(victim_line_pq[m] \ {ln}) = Cardinality(victim_line_pq[m]) - 1
        BY <3>1, <2>0, FS_RemoveElement
      <4>3. Cardinality(victim_line_pq[m] \ {ln}) \in Nat
        BY <4>2, FS_CardinalityType
      <4>4. victim_line_cnt[m] - 1 = Cardinality(victim_line_pq[m] \ {ln})
        BY <4>2, <2>0
      <4>5. victim_line_cnt' \in [Modes -> Nat]
        BY <4>1, <4>3, <4>4, <2>0
      <4>6. /\ victim_line_pq'[m] = victim_line_pq[m] \ {ln}
            /\ victim_line_cnt'[m] = Cardinality(victim_line_pq'[m])
            /\ \A x \in Modes : x # m => /\ victim_line_pq'[x] = victim_line_pq[x]
                                         /\ victim_line_cnt'[x] = victim_line_cnt[x]
        BY <4>1, <4>4, <2>0
      <4>7. ASSUME NEW x \in Modes
            PROVE  ln \notin ToSet(full_line_list[x])
        BY <3>0, <3>1, <2>6
      <4> QED
        BY <4>1, <4>2, <4>5, <4>6, <4>7, <3>0, <2>0
    <3>2. CASE ln \notin victim_line_pq[m]
      <4>0. full_line_list[m] # <<>> /\ ln = Head(full_line_list[m])
        BY <3>2, <2>2
      <4>1. /\ full_line_list' = [full_line_list EXCEPT ![m] = Tail(@)]
            /\ full_line_cnt' = [full_line_cnt EXCEPT ![m] = @ - 1]
            /\ victim_line_pq' = victim_line_pq /\ victim_line_cnt' = victim_line_cnt
        BY <3>2, <2>1, <2>4 DEF TakeVictim, victimVars
      <4>2. /\ Tail(full_line_list[m]) \in Seq(LinesOf(m))
            /\ IsInjective(Tail(full_line_list[m]))
            /\ ToSet(Tail(full_line_list[m])) = ToSet(full_line_list[m]) \ {ln}
            /\ Len(Tail(full_line_list[m])) = Len(full_line_list[m]) - 1
            /\ Len(full_line_list[m]) > 0
        BY <4>0, <2>0, TailList
      <4>3. full_line_cnt[m] - 1 \in Nat /\ full_line_cnt[m] - 1 = Len(Tail(full_line_list[m]))
        BY <4>2, <2>0
      <4>4. full_line_cnt' \in [Modes -> Nat]
        BY <4>1, <4>3, <2>0
      <4>5. /\ full_line_list'[m] = Tail(full_line_list[m])
            /\ full_line_cnt'[m] = Len(full_line_list'[m])
            /\ \A x \in Modes : x # m => /\ full_line_list'[x] = full_line_list[x]
                                         /\ full_line_cnt'[x] = full_line_cnt[x]
        BY <4>1, <4>3, <2>0
      <4>6. ASSUME NEW x \in Modes
            PROVE  ln \notin victim_line_pq[x]
        BY <3>0, <3>2
      <4> QED
        BY <4>1, <4>2, <4>4, <4>5, <4>6, <3>0, <2>0
    <3> QED
      BY <3>1, <3>2
  <2>8. ListsOK'
    BY <1>1, <2>7 DEF IInv, TypeOK, ListsOK
  <2>9. ClosedLinesUsedUp'
    BY <1>1, <2>1, <2>5, <2>7 DEF IInv, ClosedLinesUsedUp
  <2>10. ListsExact'
    <3>1. ASSUME NEW x \in Modes, NEW y \in LinesOf(x)
          PROVE  \/ y \in ToSet(free_line_list[x]) \/ y \in ToSet(full_line_list'[x])
                 \/ y \in victim_line_pq'[x] \/ y = ln
                 \/ \E z \in IoTypes : wp[z].line = y
      <4>1. y # victim_line
        BY <1>1, LineModes
      <4> QED
        BY <4>1, <2>7 DEF IInv, ListsExact
    <3>2. ASSUME NEW x \in Modes
          PROVE  IsInjective(free_line_list[x]) /\ free_line_cnt[x] = Len(free_line_list[x])
      BY DEF IInv, ListsExact
    <3> QED
      BY <3>1, <3>2, <1>1, <2>1, <2>7 DEF ListsExact
  <2>11. ControlOK'
    <3>1. credits_to_refill' \in 0 .. UINT32_MAX
      <4>1. ipc[ln] = Count(status, ln, "INVALID")
        BY <2>4 DEF IInv, CountsExact
      <4>2. ipc[ln] \in Nat /\ ipc[ln] <= PgsPerLine(ln)
        BY <4>1, <2>4, CountFinite
      <4> QED
        BY <4>2, <2>1, CreditWidth, PageCounts DEF CreditsFor, PgsPerLine
    <3>2. todo' \subseteq Ppas
      BY <2>1, <2>4, PagesOfDef
    <3> QED
      BY <3>1, <3>2, <1>1, <1>3, <2>1, <2>4 DEF IInv, TypeOK, ControlOK
  <2>12. ControlSound'
    <3>1. \A p \in todo' : status[p] = "VALID" /\ p.blk = ln
      BY <2>1, <2>4, PagesOfDef
    <3>2. ln \in LinesOf(IF return = "mig" THEN "TLC" ELSE "SLC")
      BY <2>4 DEF Modes
    <3> QED
      BY <3>1, <3>2, <1>1, <1>5, <2>1 DEF IInv, ControlSound
  <2>13. MappingSound'
    <3>1. ASSUME NEW k \in Lpns, maptbl[k] # NULL
          PROVE  /\ status[maptbl[k]] = "VALID" /\ rmap[maptbl[k]] = k
                 /\ maptbl[k].blk = ln => maptbl[k] \in todo'
      <4>1. status[maptbl[k]] = "VALID" /\ rmap[maptbl[k]] = k /\ maptbl[k] \in Ppas
        BY <3>1 DEF IInv, TypeOK, TablesOK, MappingSound, InFlight
      <4> QED
        BY <4>1, <2>1, <2>4, PagesOfDef
    <3>2. ASSUME NEW q \in Ppas, status[q] = "VALID"
          PROVE  rmap[q] \in Lpns /\ maptbl[rmap[q]] = q
      <4>1. q.blk # victim_line
        BY <1>1, PpasDef, NullIsFresh
      <4> QED
        BY <4>1, <3>2 DEF IInv, MappingSound
    <3> QED
      BY <3>1, <3>2, <1>1, <2>1 DEF MappingSound
  <2> QED
    BY <1>2, <2>8, <2>9, <2>10, <2>11, <2>12, <2>13 DEF IInv, TypeOK
<1> QED
  BY <1>4, <1>5

(* Erasing the cleaned line: no logical page is left in it, so the tables  *)
(* stay sound, and the line joins the free list of its area.               *)
LEMMA EraseLineStep ==
    ASSUME IInv, EraseLine
    PROVE  IInv'
<1>v. PICK v : v = victim_line
  OBVIOUS
<1>1. /\ pc = "clean" /\ todo = {} /\ v # NULL /\ v \in Lines /\ pc' = resume
      /\ victim_line' = NULL /\ resume \in {"mig", "refill"}
      /\ status' = [p \in Ppas |-> IF p.blk = v THEN "FREE" ELSE status[p]]
      /\ UNCHANGED <<maptbl, rmap, full_line_list, full_line_cnt, victim_line_pq,
                     victim_line_cnt, wp, write_credits, credits_to_refill,
                     dyn_slc_mode, lpn, todo, resume>>
  BY <1>v DEF EraseLine, MarkBlocksFree, IInv, TypeOK, ControlOK, ControlSound, mapping, fullVars,
              victimVars, credits
<1>m. PICK m : m = ModeOf(v)
  OBVIOUS
<1>2. /\ vpc' = [vpc EXCEPT ![v] = 0] /\ ipc' = [ipc EXCEPT ![v] = 0]
      /\ free_line_list' = [free_line_list EXCEPT ![m] = Append(@, v)]
      /\ free_line_cnt' = [free_line_cnt EXCEPT ![m] = @ + 1]
  BY <1>v, <1>m DEF EraseLine, MarkBlocksFree, MarkLineFree
<1>3. m \in Modes /\ v \in LinesOf(m)
  BY <1>1, <1>m, LineModes
<1>4. \A p \in PagesOf(v) : p \in Ppas /\ status[p] # "FREE" /\ status'[p] = "FREE"
  <2>1. \A p \in PagesOf(v) : p \in Ppas /\ p.blk = v
    BY <1>1, PagesOfDef
  <2> QED
    BY <2>1, <1>1, <1>v DEF IInv, ClosedLinesUsedUp, Modes
<1>5. \A x \in Lines : x # v => \A p \in PagesOf(x) : p \in Ppas /\ status'[p] = status[p]
  BY <1>1, PagesOfDef
<1>6. ASSUME NEW x \in Modes
      PROVE  v \notin ToSet(free_line_list[x]) \cup ToSet(full_line_list[x]) \cup victim_line_pq[x]
  <2>1. v \notin ToSet(full_line_list[x]) \cup victim_line_pq[x]
    BY <1>v DEF IInv, ListsExact
  <2>2. Ppa(v, 0) \in PagesOf(v)
    BY PgsPerLineType DEF PagesOf
  <2> QED
    BY <2>1, <2>2, <1>4 DEF IInv, FreeLines
<1>7. ASSUME NEW io \in IoTypes
      PROVE  wp[io].line # v
  BY <1>4, <1>1, OpenHasFree DEF IInv
<1>8. TablesOK'
  BY <1>1, <1>2 DEF IInv, TypeOK, TablesOK, Statuses
<1>9. CountsExact'
  <2> SUFFICES ASSUME NEW x \in Lines
               PROVE  /\ vpc'[x] = Count(status', x, "VALID")
                      /\ ipc'[x] = Count(status', x, "INVALID")
    BY DEF CountsExact
  <2>1. CASE x = v
    <3>1. Count(status', x, "VALID") = 0 /\ Count(status', x, "INVALID") = 0
      BY <2>1, <1>4, CountNone
    <3> QED
      BY <3>1, <2>1, <1>2 DEF IInv, TypeOK, TablesOK
  <2>2. CASE x # v
    <3>1. \A k \in 0 .. PgsPerLine(x) - 1 : status'[Ppa(x, k)] = status[Ppa(x, k)]
      BY <2>2, <1>5 DEF PagesOf
    <3>2. /\ Count(status', x, "VALID") = Count(status, x, "VALID")
          /\ Count(status', x, "INVALID") = Count(status, x, "INVALID")
      BY <3>1 DEF Count
    <3> QED
      BY <3>2, <2>2, <1>2 DEF IInv, TypeOK, TablesOK, CountsExact
  <2> QED
    BY <2>1, <2>2
<1>a. ASSUME NEW x \in Modes,
             NEW y \in ToSet(free_line_list[x]) \cup ToSet(full_line_list[x]) \cup victim_line_pq[x]
      PROVE  \A p \in PagesOf(y) : status'[p] = status[p]
  <2>1. y \in Lines /\ y # v
    BY <1>6, ListTypes DEF IInv, TypeOK
  <2> QED
    BY <2>1, <1>5
<1>10. ClosedLinesUsedUp'
  <2>1. ASSUME NEW x \in Modes
        PROVE  /\ \A y \in ToSet(full_line_list[x]) : \A p \in PagesOf(y) : status'[p] = "VALID"
               /\ \A y \in victim_line_pq[x] :
                       /\ \A p \in PagesOf(y) : status'[p] # "FREE"
                       /\ \E p \in PagesOf(y) : status'[p] = "INVALID"
    <3>1. \A y \in ToSet(full_line_list[x]) \cup victim_line_pq[x] :
             \A p \in PagesOf(y) : status'[p] = status[p]
      BY <1>a
    <3> QED
      BY <3>1 DEF IInv, ClosedLinesUsedUp
  <2> QED
    BY <2>1, <1>1 DEF ClosedLinesUsedUp
<1>11. /\ DOMAIN free_line_list' = Modes /\ free_line_cnt' \in [Modes -> Nat]
       /\ \A x \in Modes :
            /\ free_line_list'[x] \in Seq(LinesOf(x)) /\ IsInjective(free_line_list'[x])
            /\ free_line_cnt'[x] = Len(free_line_list'[x])
            /\ ToSet(free_line_list'[x]) = ToSet(free_line_list[x]) \cup (IF x = m THEN {v} ELSE {})
  <2>1. /\ DOMAIN free_line_list = Modes /\ free_line_cnt \in [Modes -> Nat]
        /\ \A x \in Modes :
             /\ free_line_list[x] \in Seq(LinesOf(x)) /\ IsInjective(free_line_list[x])
             /\ free_line_cnt[x] = Len(free_line_list[x])
    BY DEF IInv, TypeOK, ListsOK, ListsExact
  <2>2. /\ Append(free_line_list[m], v) \in Seq(LinesOf(m))
        /\ IsInjective(Append(free_line_list[m], v))
        /\ ToSet(Append(free_line_list[m], v)) = ToSet(free_line_list[m]) \cup {v}
        /\ Len(Append(free_line_list[m], v)) = Len(free_line_list[m]) + 1
    BY <2>1, <1>3, <1>6, AppendList
  <2>3. /\ free_line_list'[m] = Append(free_line_list[m], v)
        /\ free_line_cnt'[m] = Len(free_line_list[m]) + 1
        /\ \A x \in Modes : x # m => /\ free_line_list'[x] = free_line_list[x]
                                      /\ free_line_cnt'[x] = free_line_cnt[x]
    BY <1>2, <1>3, <2>1
  <2>4. DOMAIN free_line_list' = Modes /\ free_line_cnt' \in [Modes -> Nat]
    BY <1>2, <1>3, <2>1
  <2> QED
    BY <2>1, <2>2, <2>3, <2>4
<1>12. ListsOK'
  BY <1>1, <1>11 DEF IInv, TypeOK, ListsOK
<1>13. FreeLines'
  <2> SUFFICES ASSUME NEW x \in Modes, NEW y \in ToSet(free_line_list'[x])
               PROVE  \A p \in PagesOf(y) : status'[p] = "FREE"
    BY DEF FreeLines
  <2>1. CASE y = v
    BY <2>1, <1>4
  <2>2. CASE y # v
    <3>1. y \in ToSet(free_line_list[x])
      BY <2>2, <1>11
    <3> QED
      BY <3>1, <1>a DEF IInv, FreeLines
  <2> QED
    BY <2>1, <2>2
<1>14. OpenLines'
  <2> SUFFICES ASSUME NEW io \in IoTypes, wp[io].line # NULL
               PROVE  /\ wp[io].line \in LinesOf(ModeFor(io))
                      /\ wp[io].pg < PgsPerLine(wp[io].line)
                      /\ \A p \in PagesOf(wp[io].line) : status'[p] = "FREE" <=> wp[io].pg <= p.pg
                      /\ wp[io].line \notin ToSet(free_line_list'[ModeFor(io)])
    BY <1>1 DEF OpenLines
  <2>1. ModeFor(io) \in Modes /\ wp[io].line \in Lines
    BY LineModes DEF IInv, OpenLines
  <2> QED
    BY <2>1, <1>5, <1>7, <1>11 DEF IInv, OpenLines
<1>15. ListsExact'
  <2>1. ASSUME NEW x \in Modes, NEW y \in LinesOf(x)
        PROVE  \/ y \in ToSet(free_line_list'[x]) \/ y \in ToSet(full_line_list[x])
               \/ y \in victim_line_pq[x]
               \/ \E io \in IoTypes : wp[io].line = y
    <3>1. y = v => x = m
      BY <1>m, LineModes
    <3> QED
      BY <3>1, <1>v, <1>11 DEF IInv, ListsExact
  <2>2. ASSUME NEW x \in Modes
        PROVE  NULL \notin victim_line_pq[x] \cup ToSet(full_line_list[x])
    BY ListTypes, LineModes DEF IInv, TypeOK
  <2>3. ASSUME NEW x \in Modes
        PROVE  /\ IsInjective(full_line_list[x]) /\ full_line_cnt[x] = Len(full_line_list[x])
               /\ IsFiniteSet(victim_line_pq[x])
               /\ victim_line_cnt[x] = Cardinality(victim_line_pq[x])
    BY DEF IInv, ListsExact
  <2> QED
    BY <2>1, <2>2, <2>3, <1>1, <1>11 DEF ListsExact
<1>16. ControlOK'
  BY <1>1 DEF IInv, TypeOK, ControlOK
<1>17. ControlSound'
  BY <1>1 DEF IInv, ControlSound
<1>18. MappingSound'
  <2>1. ASSUME NEW l \in Lpns, maptbl[l] # NULL
        PROVE  /\ status'[maptbl[l]] = "VALID" /\ rmap[maptbl[l]] = l
               /\ maptbl[l].blk # NULL
    <3>1. maptbl[l] \in Ppas /\ maptbl[l].blk # v
      BY <2>1, <1>1, <1>v DEF IInv, TypeOK, TablesOK, MappingSound
    <3>2. status[maptbl[l]] = "VALID" /\ rmap[maptbl[l]] = l
      BY <2>1, <1>1 DEF IInv, MappingSound, InFlight
    <3> QED
      BY <3>1, <3>2, <1>1, PpasDef, NullIsFresh
  <2>2. ASSUME NEW p \in Ppas, status'[p] = "VALID"
        PROVE  rmap[p] \in Lpns /\ maptbl[rmap[p]] = p
    <3>1. p.blk # v /\ status[p] = "VALID"
      BY <2>2, <1>1
    <3> QED
      BY <3>1, <1>v DEF IInv, MappingSound
  <2> QED
    BY <2>1, <2>2, <1>1 DEF MappingSound
<1> QED
  BY <1>8, <1>9, <1>10, <1>12, <1>13, <1>14, <1>15, <1>16, <1>17, <1>18 DEF IInv, TypeOK

(* A victim comes out of the queue or off the head of the full list.       *)
LEMMA Victims ==
    /\ \A ln \in SelectVictimLine : ln = NULL \/ ln \in victim_line_pq["TLC"]
    /\ \A ln \in SelectVictimLineSlc :
            \/ ln = NULL \/ ln \in victim_line_pq["SLC"]
            \/ full_line_list["SLC"] # <<>> /\ ln = Head(full_line_list["SLC"])
BY DEF SelectVictimLine, SelectVictimLineSlc

(* The steps that move only the program counter and the credits.           *)
LEMMA ControlStep ==
    ASSUME IInv, pc \in {"fg", "refill"}, pc' \in {"host", "mig", "refill"},
           write_credits' \in 0 .. UINT32_MAX,
           UNCHANGED <<mapping, pages, freeVars, fullVars, victimVars, wp,
                       credits_to_refill, dyn_slc_mode, lpn, gcVars>>
    PROVE  IInv'
<1>1. UNCHANGED <<maptbl, rmap, status, vpc, ipc, free_line_list, free_line_cnt,
                  full_line_list, full_line_cnt, victim_line_pq, victim_line_cnt, wp,
                  credits_to_refill, dyn_slc_mode, lpn, victim_line, todo, resume>>
  BY DEF mapping, pages, freeVars, fullVars, victimVars, gcVars
<1>2. TablesOK' /\ ListsOK'
  BY <1>1 DEF IInv, TypeOK, TablesOK, ListsOK
<1>3. ControlOK'
  BY <1>1 DEF IInv, TypeOK, ControlOK
<1>4. CountsExact' /\ ClosedLinesUsedUp' /\ OpenLines' /\ FreeLines' /\ ListsExact'
  BY <1>1 DEF IInv, CountsExact, ClosedLinesUsedUp, OpenLines, FreeLines, ListsExact
<1>5. ControlSound'
  BY <1>1 DEF IInv, ControlSound
<1>6. MappingSound'
  BY <1>1 DEF IInv, MappingSound, InFlight
<1> QED
  BY <1>2, <1>3, <1>4, <1>5, <1>6 DEF IInv, TypeOK

(* A step that changes nothing preserves IInv.                              *)
LEMMA StutterStep ==
    ASSUME IInv, UNCHANGED vars
    PROVE  IInv'
<1>1. UNCHANGED <<maptbl, rmap, status, vpc, ipc, free_line_list, free_line_cnt,
                  full_line_list, full_line_cnt, victim_line_pq, victim_line_cnt, wp,
                  write_credits, credits_to_refill, dyn_slc_mode, pc, lpn,
                  victim_line, todo, resume>>
  BY DEF vars, mapping, pages, freeVars, fullVars, victimVars, credits, gcVars
<1>2. TypeOK'
  BY <1>1 DEF IInv, TypeOK, TablesOK, ListsOK, ControlOK
<1>3. CountsExact' /\ ClosedLinesUsedUp' /\ OpenLines' /\ FreeLines' /\ ListsExact'
  BY <1>1 DEF IInv, CountsExact, ClosedLinesUsedUp, OpenLines, FreeLines, ListsExact
<1>4. ControlSound' /\ MappingSound'
  BY <1>1 DEF IInv, ControlSound, MappingSound, InFlight
<1> QED
  BY <1>2, <1>3, <1>4 DEF IInv

(* Every step of the host or the dispatcher preserves IInv.                 *)
LEMMA NextStep ==
    ASSUME IInv, [Next]_vars
    PROVE  IInv'
<1>1. CASE \E l \in Lpns : Invalidate(l)
  BY <1>1, InvalidateStep
<1>2. CASE Program
  BY <1>2, ProgramStep
<1>3. CASE FgSkip
  <2>1. pc = "fg" /\ pc' = "refill" /\ write_credits' = write_credits
    BY <1>3 DEF FgSkip, credits
  <2>2. write_credits' \in 0 .. UINT32_MAX
    BY <2>1 DEF IInv, TypeOK, ControlOK
  <2> QED
    BY <1>3, <2>1, <2>2, ControlStep DEF FgSkip, credits
<1>4. CASE FgGc
  <2>1. PICK ln \in SelectVictimLine : DoGc("TLC", ln, "mig")
    BY <1>4 DEF FgGc
  <2>2. pc = "fg" /\ (ln = NULL \/ ln \in victim_line_pq["TLC"])
    BY <1>4, Victims DEF FgGc
  <2> QED
    BY <2>1, <2>2, DoGcStep DEF Modes
<1>5. CASE FgNoGc
  <2>1. pc = "fg" /\ pc' = "mig" /\ write_credits' = write_credits
    BY <1>5 DEF FgNoGc, credits
  <2>2. write_credits' \in 0 .. UINT32_MAX
    BY <2>1 DEF IInv, TypeOK, ControlOK
  <2> QED
    BY <1>5, <2>1, <2>2, ControlStep DEF FgNoGc, credits
<1>6. CASE Migrate
  <2>1. PICK ln \in SelectVictimLineSlc : DoGc("SLC", ln, "refill")
    BY <1>6 DEF Migrate
  <2>2. /\ pc = "mig"
        /\ \/ ln = NULL \/ ln \in victim_line_pq["SLC"]
           \/ full_line_list["SLC"] # <<>> /\ ln = Head(full_line_list["SLC"])
    BY <1>6, Victims DEF Migrate
  <2> QED
    BY <2>1, <2>2, DoGcStep DEF Modes
<1>7. CASE \E p \in todo : GcWritePage(p)
  BY <1>7, GcWritePageStep
<1>8. CASE EraseLine
  BY <1>8, EraseLineStep
<1>9. CASE Refill
  <2>1. pc = "refill" /\ pc' = "host" /\ write_credits' = Add(write_credits, credits_to_refill)
    BY <1>9 DEF Refill
  <2>2. write_credits' \in 0 .. UINT32_MAX
    BY <2>1, CreditWidth DEF IInv, TypeOK, ControlOK, Add
  <2> QED
    BY <1>9, <2>1, <2>2, ControlStep DEF Refill
<1>10. CASE UNCHANGED vars
  BY <1>10, StutterStep
<1> QED
  BY <1>1, <1>2, <1>3, <1>4, <1>5, <1>6, <1>7, <1>8, <1>9, <1>10 DEF Next, Dispatch

(* conv_init_ftl() establishes IInv.                                        *)
LEMMA InitIInv ==
    ASSUME Init
    PROVE  IInv
<1> USE DEF Init, InitTables, InitLines, PrepareWritePointers, InitWriteFlowControl
<1>0. 0 \in SlcLines /\ tt_lines_slc \in TlcLines /\ 0 \in Lines /\ tt_lines_slc \in Lines
  BY LineCounts DEF SlcLines, TlcLines, Lines
<1>1. TablesOK
  BY DEF TablesOK, Statuses
<1>2. /\ free_line_list["SLC"] \in Seq(SlcLines) /\ Len(free_line_list["SLC"]) = tt_lines_slc - 1
      /\ IsInjective(free_line_list["SLC"])
      /\ ToSet(free_line_list["SLC"]) = SlcLines \ {0}
  <2>s. PICK s : s = [i \in 1 .. tt_lines_slc - 1 |-> i]
    OBVIOUS
  <2>1. /\ s \in Seq(SlcLines) /\ Len(s) = tt_lines_slc - 1 /\ DOMAIN s = 1 .. tt_lines_slc - 1
        /\ \A i \in 1 .. tt_lines_slc - 1 : s[i] = i
    BY <2>s, LineCounts DEF SlcLines
  <2>2. IsInjective(s)
    BY <2>1 DEF IsInjective
  <2>3. SlcLines \ {0} = 1 .. tt_lines_slc - 1
    BY LineCounts DEF SlcLines
  <2>4. ToSet(s) = 1 .. tt_lines_slc - 1
    BY <2>1 DEF ToSet
  <2> QED
    BY <2>s, <2>1, <2>2, <2>3, <2>4
<1>3. /\ free_line_list["TLC"] \in Seq(TlcLines) /\ Len(free_line_list["TLC"]) = tt_lines_tlc - 1
      /\ IsInjective(free_line_list["TLC"])
      /\ ToSet(free_line_list["TLC"]) = TlcLines \ {tt_lines_slc}
  <2>s. PICK s : s = [i \in 1 .. tt_lines_tlc - 1 |-> tt_lines_slc + i]
    OBVIOUS
  <2>1. /\ s \in Seq(TlcLines) /\ Len(s) = tt_lines_tlc - 1 /\ DOMAIN s = 1 .. tt_lines_tlc - 1
        /\ \A i \in 1 .. tt_lines_tlc - 1 : s[i] = tt_lines_slc + i
    BY <2>s, LineCounts DEF TlcLines
  <2>2. IsInjective(s)
    BY <2>1, LineCounts DEF IsInjective
  <2>3. ASSUME NEW y \in TlcLines, y # tt_lines_slc
        PROVE  y \in ToSet(s)
    <3>1. y - tt_lines_slc \in 1 .. tt_lines_tlc - 1 /\ s[y - tt_lines_slc] = y
      BY <2>1, <2>3, LineCounts DEF TlcLines
    <3> QED
      BY <3>1, <2>1 DEF ToSet
  <2>4. ToSet(s) \subseteq TlcLines \ {tt_lines_slc}
    BY <2>1, LineCounts DEF ToSet, TlcLines
  <2> QED
    BY <2>s, <2>1, <2>2, <2>3, <2>4
<1>4. /\ <<>> \in Seq(SlcLines) /\ <<>> \in Seq(TlcLines) /\ Len(<<>>) = 0
      /\ ToSet(<<>>) = {} /\ IsInjective(<<>>)
  BY DEF ToSet, IsInjective
<1>5. ListsOK
  BY <1>2, <1>3, <1>4, LineCounts DEF ListsOK, Modes, LinesOf
<1>6. ControlOK
  BY <1>0, CreditWidth, PageCounts DEF ControlOK, IoTypes, Modes
<1>7. CountsExact
  <2> SUFFICES ASSUME NEW ln \in Lines
               PROVE  Count(status, ln, "VALID") = 0 /\ Count(status, ln, "INVALID") = 0
    BY DEF CountsExact
  <2>1. \A p \in PagesOf(ln) : status[p] = "FREE"
    BY PagesOfDef
  <2> QED
    BY <2>1, CountNone
<1>8. ClosedLinesUsedUp
  BY <1>4 DEF ClosedLinesUsedUp
<1>9. FreeLines
  <2>1. ASSUME NEW m \in Modes, NEW ln \in ToSet(free_line_list[m])
        PROVE  ln \in Lines
    BY <2>1, <1>5, ListTypes
  <2> QED
    BY <2>1, PagesOfDef DEF FreeLines
<1>10. OpenLines
  <2> SUFFICES ASSUME NEW io \in IoTypes
               PROVE  /\ wp[io].line \in LinesOf(ModeFor(io))
                      /\ wp[io].pg < PgsPerLine(wp[io].line)
                      /\ \A p \in PagesOf(wp[io].line) : status[p] = "FREE" <=> wp[io].pg <= p.pg
                      /\ wp[io].line \notin ToSet(free_line_list[ModeFor(io)])
    BY DEF OpenLines
  <2>1. wp[io].pg = 0 /\ wp[io].line = (IF io = "USER" THEN 0 ELSE tt_lines_slc)
    BY DEF IoTypes
  <2>2. wp[io].line \in LinesOf(ModeFor(io)) /\ wp[io].line \in Lines
    BY <2>1, <1>0 DEF LinesOf, ModeFor
  <2>3. \A p \in PagesOf(wp[io].line) : status[p] = "FREE" /\ p.pg \in Nat
    BY <2>2, PagesOfDef, PpasDef, PgsPerLineType
  <2>4. wp[io].line \notin ToSet(free_line_list[ModeFor(io)])
    BY <2>1, <1>2, <1>3 DEF ModeFor, IoTypes
  <2> QED
    BY <2>1, <2>2, <2>3, <2>4, PgsPerLineType
<1>11. ListsExact
  <2> SUFFICES ASSUME NEW m \in Modes
               PROVE  /\ IsInjective(free_line_list[m]) /\ free_line_cnt[m] = Len(free_line_list[m])
                      /\ IsInjective(full_line_list[m]) /\ full_line_cnt[m] = Len(full_line_list[m])
                      /\ IsFiniteSet(victim_line_pq[m])
                      /\ victim_line_cnt[m] = Cardinality(victim_line_pq[m])
                      /\ victim_line \notin victim_line_pq[m] \cup ToSet(full_line_list[m])
                      /\ \A ln \in LinesOf(m) :
                           \/ ln \in ToSet(free_line_list[m])
                           \/ \E io \in IoTypes : wp[io].line = ln
    BY DEF ListsExact
  <2>1. IsInjective(free_line_list[m]) /\ free_line_cnt[m] = Len(free_line_list[m])
    <3>1. free_line_cnt["SLC"] = tt_lines_slc - 1 /\ free_line_cnt["TLC"] = tt_lines_tlc - 1
      OBVIOUS
    <3>2. m = "SLC" \/ m = "TLC"
      BY DEF Modes
    <3> HIDE DEF Init, InitTables, InitLines, PrepareWritePointers, InitWriteFlowControl
    <3> QED
      BY <3>1, <3>2, <1>2, <1>3
  <2>2. /\ IsInjective(full_line_list[m]) /\ full_line_cnt[m] = Len(full_line_list[m])
        /\ victim_line \notin victim_line_pq[m] \cup ToSet(full_line_list[m])
    BY <1>4
  <2>3. IsFiniteSet(victim_line_pq[m]) /\ victim_line_cnt[m] = Cardinality(victim_line_pq[m])
    BY FS_EmptySet
  <2>4. \A ln \in LinesOf(m) : \/ ln \in ToSet(free_line_list[m])
                               \/ \E io \in IoTypes : wp[io].line = ln
    BY <1>2, <1>3 DEF Modes, LinesOf, IoTypes
  <2> QED
    BY <2>1, <2>2, <2>3, <2>4
<1>12. ControlSound
  BY <1>0, NullIsFresh DEF ControlSound, IoTypes
<1>13. MappingSound
  BY DEF MappingSound
<1> QED
  BY <1>1, <1>5, <1>6, <1>7, <1>8, <1>9, <1>10, <1>11, <1>12, <1>13 DEF IInv, TypeOK

(* The inductive invariant holds in every reachable state.                 *)
THEOREM Invariance == Spec => []IInv
<1>1. Init => IInv
  BY InitIInv
<1>2. IInv /\ [Next]_vars => IInv'
  BY NextStep
<1> QED
  BY <1>1, <1>2, PTL DEF Spec

(* Type correctness: no counter that the code decrements (vpc, ipc, the    *)
(* list counters) goes below zero, and every reverse entry, list and       *)
(* pointer names a page or line of the device.                             *)
THEOREM TypeCorrect == Spec => []TypeOK
<1>1. IInv => TypeOK
  BY DEF IInv
<1> QED
  BY <1>1, Invariance, PTL

(* maptbl and rmap agree with the page states, in the middle of a host     *)
(* write and of a collection too.                                          *)
THEOREM MappingCorrect == Spec => []MappingSound
<1>1. IInv => MappingSound
  BY DEF IInv
<1> QED
  BY <1>1, Invariance, PTL

(* line->vpc and line->ipc are the number of valid and invalid pages.      *)
THEOREM CountsCorrect == Spec => []CountsExact
<1>1. IInv => CountsExact
  BY DEF IInv
<1> QED
  BY <1>1, Invariance, PTL

(* The assertions "there shouldn't be any free page in victim blocks" of   *)
(* clean_one_flashpg() and "there must be some invalid pages in this line" *)
(* of advance_write_pointer() never fail.                                  *)
THEOREM ClosedLinesCorrect == Spec => []ClosedLinesUsedUp
<1>1. IInv => ClosedLinesUsedUp
  BY DEF IInv
<1> QED
  BY <1>1, Invariance, PTL

(* The page states tell the holders of a line apart.                       *)
LEMMA HoldersDisjoint ==
    ASSUME IInv
    PROVE  /\ Lines = UNION {Held[h] : h \in Holders}
           /\ \A g, h \in Holders : g # h => Held[g] \cap Held[h] = {}
<1>f. PICK F : F = UNION {ToSet(free_line_list[m]) : m \in Modes}
  OBVIOUS
<1>u. PICK U : U = UNION {ToSet(full_line_list[m]) : m \in Modes}
  OBVIOUS
<1>v. PICK V : V = UNION {victim_line_pq[m] : m \in Modes}
  OBVIOUS
<1>o. PICK O : O = {wp[io].line : io \in IoTypes} \ {NULL}
  OBVIOUS
<1>c. PICK C : C = {victim_line} \ {NULL}
  OBVIOUS
<1>h. /\ Held["free"] = F /\ Held["full"] = U /\ Held["victim"] = V
      /\ Held["open"] = O /\ Held["cleaning"] = C
  BY <1>f, <1>u, <1>v, <1>o, <1>c DEF Held
<1>1. F \subseteq Lines /\ U \subseteq Lines /\ V \subseteq Lines
  BY <1>f, <1>u, <1>v, ListTypes DEF IInv, TypeOK
<1>2. O \subseteq Lines /\ C \subseteq Lines
  BY <1>o, <1>c DEF IInv, TypeOK, ControlOK
<1>3. Lines \subseteq F \cup U \cup V \cup O \cup C
  <2> SUFFICES ASSUME NEW x \in Lines
               PROVE  x \in F \cup U \cup V \cup O \cup C
    OBVIOUS
  <2>m. PICK m \in Modes : x \in LinesOf(m)
    BY LineModes
  <2>1. \/ x \in ToSet(free_line_list[m]) \/ x \in ToSet(full_line_list[m])
        \/ x \in victim_line_pq[m] \/ x = victim_line
        \/ \E io \in IoTypes : wp[io].line = x
    BY <2>m DEF IInv, ListsExact
  <2>2. x # NULL
    BY NullIsFresh
  <2> QED
    BY <2>1, <2>2, <1>f, <1>u, <1>v, <1>o, <1>c
<1>4. Lines = UNION {Held[h] : h \in Holders}
  BY <1>h, <1>1, <1>2, <1>3 DEF Holders
<1>5. ASSUME NEW x \in Lines
      PROVE  Ppa(x, 0) \in PagesOf(x)
  BY PgsPerLineType DEF PagesOf
<1>6. \A x \in F : \A p \in PagesOf(x) : status[p] = "FREE"
  BY <1>f DEF IInv, FreeLines
<1>7. \A x \in U : \A p \in PagesOf(x) : status[p] = "VALID"
  BY <1>u DEF IInv, ClosedLinesUsedUp
<1>8. \A x \in V : /\ \A p \in PagesOf(x) : status[p] # "FREE"
                   /\ \E p \in PagesOf(x) : status[p] = "INVALID"
  BY <1>v DEF IInv, ClosedLinesUsedUp
<1>9. \A x \in C : \A p \in PagesOf(x) : status[p] # "FREE"
  BY <1>c DEF IInv, ClosedLinesUsedUp, Modes
<1>10. \A x \in O : \E p \in PagesOf(x) : status[p] = "FREE"
  BY <1>o, OpenHasFree DEF IInv
<1>11. F \cap U = {} /\ F \cap V = {} /\ F \cap C = {}
  BY <1>1, <1>2, <1>5, <1>6, <1>7, <1>8, <1>9
<1>12. U \cap V = {} /\ O \cap U = {} /\ O \cap V = {} /\ O \cap C = {}
  BY <1>7, <1>8, <1>9, <1>10
<1>13. C \cap U = {} /\ C \cap V = {}
  BY <1>c, <1>u, <1>v DEF IInv, ListsExact
<1>14. F \cap O = {}
  <2> SUFFICES ASSUME NEW x \in O, NEW m \in Modes, x \in ToSet(free_line_list[m])
               PROVE  FALSE
    BY <1>f
  <2>1. PICK io \in IoTypes : wp[io].line = x /\ x # NULL
    BY <1>o
  <2>2. /\ x \in LinesOf(ModeFor(io)) /\ ModeFor(io) \in Modes
        /\ x \notin ToSet(free_line_list[ModeFor(io)])
    BY <2>1, LineModes DEF IInv, OpenLines
  <2>3. x \in LinesOf(m)
    BY ListTypes DEF IInv, TypeOK
  <2>4. m = ModeFor(io)
    BY <2>2, <2>3, LineModes
  <2> QED
    BY <2>2, <2>4
<1>15. ASSUME NEW g \in Holders, NEW h \in Holders, g # h
       PROVE  Held[g] \cap Held[h] = {}
  BY <1>15, <1>h, <1>11, <1>12, <1>13, <1>14 DEF Holders
<1> QED
  BY <1>4, <1>15

(* No line is ever lost or held twice, and the counters behind             *)
(* should_migration_high() and should_gc_high() are exact.                 *)
THEOREM LinesCorrect == Spec => []LinesConserved
<1>1. IInv => LinesConserved
  <2> SUFFICES ASSUME IInv PROVE LinesConserved
    OBVIOUS
  <2>1. \A m \in Modes :
          /\ IsInjective(free_line_list[m]) /\ free_line_cnt[m] = Len(free_line_list[m])
          /\ IsInjective(full_line_list[m]) /\ full_line_cnt[m] = Len(full_line_list[m])
          /\ victim_line_cnt[m] = Cardinality(victim_line_pq[m])
    BY DEF IInv, ListsExact
  <2> QED
    BY <2>1, HoldersDisjoint DEF LinesConserved
<1> QED
  BY <1>1, Invariance, PTL

-----------------------------------------------------------------------------
(* Write flow control: the credits count down the open SLC line exactly,   *)
(* and a host write always finds an SLC line to continue in.  FlowInv is   *)
(* inductive relative to IInv: foreground_gc() is only called when an SLC  *)
(* line has just been closed, so do_gc() has something to migrate, and the *)
(* line it erases is the next host line.                                   *)
(*                                                                         *)
(* Storage: ConvFtl implements NandStore.  The mapping forgets everything  *)
(* but the forward table and which pages are programmed.  Programming a    *)
(* host page or a copy is a Program step of the store, the erase of a      *)
(* cleaned line an Erase step; everything else leaves the store alone.     *)


(* The SLC half of the line bookkeeping and the host's write pointer.      *)
SlcSame ==
    /\ wp'["USER"] = wp["USER"]
    /\ free_line_list'["SLC"] = free_line_list["SLC"]
    /\ full_line_list'["SLC"] = full_line_list["SLC"]
    /\ victim_line_pq'["SLC"] = victim_line_pq["SLC"]

(* The types the steps below need, with the SLC area singled out.           *)
LEMMA FlowTypes ==
    ASSUME IInv
    PROVE  /\ wp \in [IoTypes -> [line : Lines \cup {NULL}, pg : Nat]]
           /\ DOMAIN free_line_list = Modes /\ DOMAIN full_line_list = Modes
           /\ DOMAIN victim_line_pq = Modes /\ "SLC" \in Modes /\ "TLC" \in Modes
           /\ "USER" \in IoTypes /\ "GC" \in IoTypes
           /\ write_credits \in Nat /\ write_credits <= UINT32_MAX /\ UINT32_MAX \in Nat
           /\ pgs_per_line_slc \in Nat /\ pgs_per_line_slc > 0
           /\ free_line_list["SLC"] \in Seq(SlcLines)
           /\ full_line_list["SLC"] \in Seq(SlcLines)
           /\ free_line_cnt["SLC"] = Len(free_line_list["SLC"])
BY CreditWidth, PageCounts
   DEF IInv, TypeOK, ListsOK, ControlOK, ListsExact, Modes, IoTypes, LinesOf

(* A host page uses up one credit, and the line's last page the last one.  *)
LEMMA FlowProgram ==
    ASSUME IInv, FlowInv, Program
    PROVE  FlowInv'
<1>1. /\ pc = "program" /\ write_credits + wp["USER"].pg = pgs_per_line_slc
      /\ free_line_list["SLC"] # <<>> /\ credits_to_refill = pgs_per_line_slc
      /\ wp["USER"].line # NULL
  BY DEF Program, FlowInv
<1>2. /\ write_credits' = Decrement(write_credits)
      /\ AdvanceWritePointer("USER")
      /\ pc' = NextPc("USER", IF write_credits' = 0 THEN "fg" ELSE "host")
      /\ credits_to_refill' = credits_to_refill
  BY DEF Program
<1>ln. PICK ln : ln = wp["USER"].line
  OBVIOUS
<1>3. ln \in SlcLines /\ ModeOf(ln) = "SLC" /\ PgsPerLine(ln) = pgs_per_line_slc
      /\ wp["USER"].pg \in Nat /\ wp["USER"].pg < pgs_per_line_slc
  BY <1>1, <1>ln, FlowTypes, LineCounts
     DEF IInv, OpenLines, ModeFor, LinesOf, SlcLines, ModeOf, PgsPerLine
<1>4. write_credits \in Nat /\ write_credits > 0 /\ write_credits' = write_credits - 1
  BY <1>1, <1>2, <1>3, FlowTypes DEF Decrement
<1>5. CASE wp["USER"].pg + 1 < pgs_per_line_slc
  <2>1. /\ wp' = [wp EXCEPT !["USER"].pg = @ + 1]
        /\ free_line_list' = free_line_list
    BY <1>2, <1>3, <1>5, <1>ln DEF AdvanceWritePointer, freeVars
  <2>2. wp'["USER"].line = ln /\ wp'["USER"].pg = wp["USER"].pg + 1
    BY <2>1, <1>ln, FlowTypes
  <2>3. write_credits' # 0 /\ pc' = "host"
    BY <1>1, <1>2, <1>3, <1>4, <1>5, <1>ln, <2>2 DEF NextPc
  <2> QED
    BY <2>1, <2>2, <2>3, <1>1, <1>2, <1>3, <1>4, <1>ln DEF FlowInv
<1>6. CASE ~(wp["USER"].pg + 1 < pgs_per_line_slc)
  <2>1. CloseLine(ln) /\ OpenNextLine("USER")
    BY <1>2, <1>3, <1>6, <1>ln DEF AdvanceWritePointer
  <2>2. victim_line_pq'["SLC"] # {} \/ full_line_list'["SLC"] # <<>>
    <3>1. \/ full_line_list' = [full_line_list EXCEPT !["SLC"] = Append(@, ln)]
          \/ victim_line_pq' = [victim_line_pq EXCEPT !["SLC"] = @ \cup {ln}]
      BY <2>1, <1>3 DEF CloseLine
    <3>2. Append(full_line_list["SLC"], ln) # <<>>
      <4>1. PICK s \in Seq(SlcLines) : s = full_line_list["SLC"]
        BY FlowTypes
      <4>2. Append(s, ln) # <<>>
        BY <1>3
      <4> QED
        BY <4>1, <4>2
    <3> QED
      BY <3>1, <3>2, FlowTypes
  <2>3. wp' = [wp EXCEPT !["USER"] = [line |-> Head(free_line_list["SLC"]), pg |-> 0]]
    BY <2>1, <1>1 DEF OpenNextLine, ModeFor
  <2>4. wp'["USER"].line = Head(free_line_list["SLC"]) /\ wp'["USER"].pg = 0
    BY <2>3, FlowTypes
  <2>5. Head(free_line_list["SLC"]) # NULL
    <3>1. Head(free_line_list["SLC"]) \in SlcLines
      BY FlowTypes, <1>1
    <3> QED
      BY <3>1, NullIsFresh DEF Lines
  <2>6. write_credits' = 0
    BY <1>1, <1>3, <1>4, <1>6
  <2>7. pc' = "fg"
    BY <1>2, <2>4, <2>5, <2>6 DEF NextPc
  <2> QED
    BY <2>2, <2>4, <2>5, <2>6, <2>7, <1>1, <1>2 DEF FlowInv
<1> QED
  BY <1>5, <1>6

(* Copying a page of the victim leaves the SLC area alone.                 *)
LEMMA FlowGcWritePage ==
    ASSUME IInv, FlowInv, NEW p, GcWritePage(p)
    PROVE  FlowInv'
<1>1. /\ pc = "clean" /\ pc' \in {"clean", "bug"} /\ AdvanceWritePointer("GC")
      /\ UNCHANGED <<write_credits, credits_to_refill, resume>>
  BY DEF GcWritePage, NextPc, credits
<1>ln. PICK ln : ln = wp["GC"].line
  OBVIOUS
<1>2. ModeOf(ln) = "TLC"
  <2>1. ln # NULL
    BY <1>1, <1>ln, FlowTypes DEF IInv, ControlSound
  <2> QED
    BY <2>1, <1>ln, FlowTypes, LineModes DEF IInv, OpenLines, ModeFor
<1>3. SlcSame
  <2>1. CASE wp["GC"].pg + 1 < PgsPerLine(ln)
    BY <2>1, <1>1, <1>ln, FlowTypes
       DEF AdvanceWritePointer, SlcSame, freeVars, fullVars, victimVars
  <2>2. CASE ~(wp["GC"].pg + 1 < PgsPerLine(ln))
    <3>1. CloseLine(ln) /\ OpenNextLine("GC")
      BY <2>2, <1>1, <1>ln DEF AdvanceWritePointer
    <3>2. /\ full_line_list'["SLC"] = full_line_list["SLC"]
          /\ victim_line_pq'["SLC"] = victim_line_pq["SLC"]
      BY <3>1, <1>2, FlowTypes DEF CloseLine, fullVars, victimVars
    <3>3. wp'["USER"] = wp["USER"] /\ free_line_list'["SLC"] = free_line_list["SLC"]
      BY <3>1, FlowTypes DEF OpenNextLine, ModeFor, freeVars
    <3> QED
      BY <3>2, <3>3 DEF SlcSame
  <2> QED
    BY <2>1, <2>2
<1> QED
  BY <1>1, <1>3 DEF SlcSame, FlowInv

(* do_gc() without the copies.  In SLC mode there is a line to migrate.    *)
LEMMA FlowFgGc ==
    ASSUME IInv, FlowInv, FgGc
    PROVE  FlowInv'
<1>1. PICK ln \in SelectVictimLine : DoGc("TLC", ln, "mig")
  BY DEF FgGc
<1>2. pc = "fg" /\ (ln = NULL \/ ln \in victim_line_pq["TLC"])
  BY Victims DEF FgGc
<1>3. UNCHANGED <<wp, write_credits, free_line_list>>
  BY <1>1 DEF DoGc, freeVars
<1>4. /\ victim_line_pq'["SLC"] = victim_line_pq["SLC"]
      /\ full_line_list'["SLC"] = full_line_list["SLC"]
      /\ pc' = "mig" \/ (pc' = "clean" /\ resume' = "mig")
  <2>1. CASE ln = NULL
    BY <2>1, <1>1 DEF DoGc, fullVars, victimVars
  <2>2. CASE ln # NULL
    <3>1. TakeVictim(ln) /\ pc' = "clean" /\ resume' = "mig"
      BY <2>2, <1>1 DEF DoGc
    <3>2. ln \in victim_line_pq["TLC"] /\ ModeOf(ln) = "TLC"
      BY <2>2, <1>2, ListTypes, LineModes, FlowTypes DEF IInv, TypeOK
    <3> QED
      BY <3>1, <3>2, FlowTypes DEF TakeVictim, fullVars
  <2> QED
    BY <2>1, <2>2
<1> QED
  BY <1>2, <1>3, <1>4 DEF FlowInv

(* A migration finds a line, because one has just been closed.              *)
LEMMA FlowMigrate ==
    ASSUME IInv, FlowInv, Migrate
    PROVE  FlowInv'
<1>1. PICK ln \in SelectVictimLineSlc : DoGc("SLC", ln, "refill")
  BY DEF Migrate
<1>2. pc = "mig" /\ (victim_line_pq["SLC"] # {} \/ full_line_list["SLC"] # <<>>)
  BY DEF Migrate, FlowInv
<1>3. ln # NULL
  <2>1. ln \in victim_line_pq["SLC"] \/ (full_line_list["SLC"] # <<>> /\ ln = Head(full_line_list["SLC"]))
    BY <1>2 DEF SelectVictimLineSlc
  <2>2. ln \in SlcLines
    BY <2>1, FlowTypes, ListTypes DEF IInv, TypeOK, LinesOf
  <2> QED
    BY <2>2, NullIsFresh DEF Lines
<1>4. /\ UNCHANGED <<wp, write_credits>> /\ pc' = "clean" /\ resume' = "refill"
      /\ credits_to_refill' = pgs_per_line_slc
  BY <1>1, <1>3 DEF DoGc, CreditsFor
<1> QED
  BY <1>2, <1>4 DEF FlowInv

(* The erased line goes back to its area: after a migration the host has a *)
(* free SLC line.                                                          *)
LEMMA FlowEraseLine ==
    ASSUME IInv, FlowInv, EraseLine
    PROVE  FlowInv'
<1>1. /\ pc = "clean" /\ pc' = resume /\ resume' = resume /\ resume \in {"mig", "refill"}
      /\ MarkLineFree(victim_line) /\ victim_line # NULL
      /\ UNCHANGED <<wp, write_credits, credits_to_refill, victim_line_pq, full_line_list>>
  BY DEF EraseLine, MarkBlocksFree, credits, fullVars, victimVars, IInv, TypeOK, ControlOK, ControlSound
<1>2. CASE resume = "mig"
  BY <1>1, <1>2 DEF FlowInv
<1>3. CASE resume = "refill"
  <2>1. victim_line \in SlcLines /\ ModeOf(victim_line) = "SLC"
    BY <1>1, <1>3, LineModes, FlowTypes DEF IInv, ControlSound, LinesOf
  <2>2. free_line_list'["SLC"] = Append(free_line_list["SLC"], victim_line)
    BY <1>1, <2>1, FlowTypes DEF MarkLineFree
  <2>3. free_line_list'["SLC"] # <<>>
    BY <2>1, <2>2, FlowTypes
  <2> QED
    BY <1>1, <1>3, <2>3 DEF FlowInv
<1> QED
  BY <1>1, <1>2, <1>3

(* Every step of the dispatcher keeps the flow-control invariant.           *)
LEMMA FlowStep ==
    ASSUME IInv, FlowInv, [Next]_vars
    PROVE  FlowInv'
<1>1. CASE \E l \in Lpns : Invalidate(l)
  <2>1. /\ pc = "host" /\ pc' = "program"
        /\ UNCHANGED <<free_line_list, wp, write_credits, credits_to_refill>>
    BY <1>1 DEF Invalidate, freeVars, credits
  <2> QED
    BY <2>1 DEF FlowInv
<1>2. CASE Program
  BY <1>2, FlowProgram
<1>3. CASE FgSkip
  <2>1. /\ pc = "fg" /\ pc' = "refill" /\ free_line_cnt["SLC"] > mig_thres_lines_high
        /\ UNCHANGED <<free_line_list, wp, write_credits, credits_to_refill>>
    BY <1>3, FlowTypes, Thresholds DEF FgSkip, freeVars, credits, ShouldMigrationHigh
  <2>2. free_line_list["SLC"] # <<>>
    BY <2>1, FlowTypes, Thresholds
  <2> QED
    BY <2>1, <2>2 DEF FlowInv
<1>4. CASE FgGc
  BY <1>4, FlowFgGc
<1>5. CASE FgNoGc
  <2>1. /\ pc = "fg" /\ pc' = "mig"
        /\ UNCHANGED <<victim_line_pq, full_line_list, wp, write_credits>>
    BY <1>5 DEF FgNoGc, victimVars, fullVars, credits
  <2> QED
    BY <2>1 DEF FlowInv
<1>6. CASE Migrate
  BY <1>6, FlowMigrate
<1>7. CASE \E p \in todo : GcWritePage(p)
  BY <1>7, FlowGcWritePage
<1>8. CASE EraseLine
  BY <1>8, FlowEraseLine
<1>9. CASE Refill
  <2>1. /\ pc = "refill" /\ pc' = "host"
        /\ write_credits' = Add(write_credits, credits_to_refill)
        /\ UNCHANGED <<free_line_list, wp, credits_to_refill>>
    BY <1>9 DEF Refill, freeVars
  <2>2. /\ write_credits = 0 /\ credits_to_refill = pgs_per_line_slc /\ wp["USER"].pg = 0
        /\ free_line_list["SLC"] # <<>> /\ wp["USER"].line # NULL
    BY <2>1 DEF FlowInv
  <2>3. write_credits' = pgs_per_line_slc
    BY <2>1, <2>2, CreditWidth, PageCounts DEF Add
  <2> QED
    BY <2>1, <2>2, <2>3, PageCounts DEF FlowInv
<1>10. CASE UNCHANGED vars
  BY <1>10 DEF vars, freeVars, fullVars, victimVars, credits, gcVars, FlowInv
<1> QED
  BY <1>1, <1>2, <1>3, <1>4, <1>5, <1>6, <1>7, <1>8, <1>9, <1>10 DEF Next, Dispatch

(* conv_init_ftl() grants one line's worth of credits and leaves a free line. *)
LEMMA InitFlow ==
    ASSUME Init
    PROVE  FlowInv
<1>1. /\ wp["USER"].line = 0 /\ wp["USER"].pg = 0 /\ write_credits = pgs_per_line_slc
      /\ credits_to_refill = pgs_per_line_slc /\ pc = "host"
  BY DEF Init, PrepareWritePointers, InitWriteFlowControl
<1>2. free_line_list["SLC"] # <<>>
  <2>1. PICK s : s = [i \in 1 .. tt_lines_slc - 1 |-> i]
    OBVIOUS
  <2>2. 1 \in DOMAIN s /\ s[1] = 1
    BY <2>1, LineCounts
  <2>3. s # <<>>
    BY <2>2
  <2> QED
    BY <2>1, <2>3 DEF Init, InitLines
<1>3. 0 # NULL
  BY LineCounts, NullIsFresh DEF Lines, SlcLines
<1> QED
  BY <1>1, <1>2, <1>3, PageCounts DEF FlowInv

(* The flow-control invariant holds in every reachable state.              *)
THEOREM FlowInvariance == Spec => []FlowInv
<1>1. Init => FlowInv
  BY InitFlow
<1>2. IInv /\ FlowInv /\ [Next]_vars => FlowInv'
  BY FlowStep
<1> QED
  BY <1>1, <1>2, Invariance, PTL DEF Spec

(* Credits run out exactly at the end of an SLC line, so foreground_gc()   *)
(* runs once for each line and write_credits never wraps below zero.       *)
THEOREM CreditsCorrect == Spec => []CreditsTrackLine
<1>1. FlowInv => CreditsTrackLine
  BY DEF FlowInv, CreditsTrackLine
<1> QED
  BY <1>1, FlowInvariance, PTL

(* advance_write_pointer(USER_IO) never hits NVMEV_ASSERT(wpp->curline).   *)
THEOREM HostNeverStarves == Spec => []HostFindsLine
<1>1. FlowInv => HostFindsLine
  BY DEF FlowInv, HostFindsLine
<1> QED
  BY <1>1, FlowInvariance, PTL
-----------------------------------------------------------------------------
Programmed == {p \in Ppas : status[p] # "FREE"}

(* The store and the FTL agree on the pages of a line.                      *)
LEMMA StorePages ==
    ASSUME NEW ln \in Lines
    PROVE  Store!PagesOf(ln) = PagesOf(ln)
BY DEF Store!PagesOf, PagesOf, Ppa

(* Programming the page at a write pointer keeps the order of the pages    *)
(* and does not touch a page twice.                                        *)
LEMMA WriteImplements ==
    ASSUME IInv, NEW io \in IoTypes, wp[io].line # NULL, NEW l \in Lpns,
           MapPage(l, GetNewPage(io))
    PROVE  Store!Next
<1>n. PICK n : n = GetNewPage(io)
  OBVIOUS
<1>ln. PICK ln : ln = wp[io].line
  OBVIOUS
<1>k. PICK k : k = wp[io].pg
  OBVIOUS
<1>1. /\ ln \in Lines /\ n \in Ppas /\ n = [blk |-> ln, pg |-> k] /\ status[n] = "FREE"
      /\ k \in Nat /\ k < PgsPerLine(ln) /\ PgsPerLine(ln) \in Nat
  BY <1>n, <1>ln, <1>k, OpenHasFree, PgsPerLineType
     DEF IInv, TypeOK, ControlOK, OpenLines, GetNewPage, Ppa
<1>2. /\ status' = [status EXCEPT ![n] = "VALID"] /\ maptbl' = [maptbl EXCEPT ![l] = n]
  BY <1>n DEF MapPage, MarkPageValid
<1>3. Programmed' = Programmed \cup {n} /\ n \notin Programmed
  BY <1>1, <1>2 DEF Programmed, IInv, TypeOK, TablesOK
<1>4. ASSUME NEW j \in 0 .. k - 1
      PROVE  [blk |-> ln, pg |-> j] \in Programmed
  <2>1. j \in 0 .. PgsPerLine(ln) - 1 /\ ~(k <= j)
    BY <1>1
  <2>2. Ppa(ln, j) \in PagesOf(ln) /\ Ppa(ln, j) \in Ppas /\ Ppa(ln, j).pg = j
    BY <1>1, <2>1, PpasDef, PpaFields DEF PagesOf
  <2>3. status[Ppa(ln, j)] # "FREE"
    BY <2>1, <2>2, <1>ln, <1>k DEF IInv, OpenLines
  <2> QED
    BY <2>2, <2>3 DEF Programmed, Ppa
<1>5. Store!Program(l, ln, k)
  BY <1>1, <1>2, <1>3, <1>4 DEF Store!Program, Programmed
<1>6. k \in 0 .. [x \in Lines |-> PgsPerLine(x)][ln] - 1
  BY <1>1
<1> QED
  BY <1>1, <1>5, <1>6 DEF Store!Next

(* The erased line is used up and no logical page is left in it.           *)
LEMMA EraseImplements ==
    ASSUME IInv, EraseLine
    PROVE  Store!Next
<1>v. PICK v : v = victim_line
  OBVIOUS
<1>1. /\ v \in Lines /\ todo = {} /\ maptbl' = maptbl
      /\ status' = [p \in Ppas |-> IF p.blk = v THEN "FREE" ELSE status[p]]
  BY <1>v DEF EraseLine, MarkBlocksFree, IInv, TypeOK, ControlOK, ControlSound, mapping
<1>2. PagesOf(v) = {p \in Ppas : p.blk = v}
  BY <1>1, PagesOfDef
<1>3. PagesOf(v) \subseteq Programmed
  <2>1. \A p \in PagesOf(v) : status[p] # "FREE"
    BY <1>1, <1>v, NullIsFresh DEF IInv, ClosedLinesUsedUp, Modes
  <2> QED
    BY <2>1, <1>2 DEF Programmed
<1>4. \A l \in Lpns : maptbl[l] \notin PagesOf(v)
  <2>1. NULL \notin PagesOf(v)
    BY <1>2, NullIsFresh
  <2> QED
    BY <2>1, <1>1, <1>2, <1>v DEF IInv, MappingSound
<1>5. Programmed' = Programmed \ PagesOf(v)
  BY <1>1, <1>2 DEF Programmed
<1>6. Store!PagesOf(v) = PagesOf(v)
  BY <1>1, StorePages
<1>7. Store!Erase(v)
  BY <1>1, <1>3, <1>4, <1>5, <1>6 DEF Store!Erase, Programmed
<1> QED
  BY <1>1, <1>7 DEF Store!Next

(* A page that is superseded stays programmed.                             *)
LEMMA InvalidateImplements ==
    ASSUME IInv, NEW l \in Lpns, Invalidate(l)
    PROVE  UNCHANGED Store!vars
<1>1. maptbl' = maptbl /\ pc = "host"
  BY DEF Invalidate
<1>2. CASE maptbl[l] = NULL
  <2>1. status' = status
    BY <1>2 DEF Invalidate, pages
  <2> QED
    BY <1>1, <2>1 DEF Store!vars
<1>3. CASE maptbl[l] # NULL
  <2>1. status' = [status EXCEPT ![maptbl[l]] = "INVALID"]
    BY <1>3 DEF Invalidate, MarkPageInvalid
  <2>2. maptbl[l] \in Ppas /\ status[maptbl[l]] = "VALID"
    BY <1>1, <1>3 DEF IInv, TypeOK, TablesOK, MappingSound, InFlight
  <2>3. {p \in Ppas : status'[p] # "FREE"} = {p \in Ppas : status[p] # "FREE"}
    BY <2>1, <2>2 DEF IInv, TypeOK, TablesOK
  <2> QED
    BY <1>1, <2>3 DEF Store!vars
<1> QED
  BY <1>2, <1>3

(* Every step of the FTL is a step of the store or leaves it alone.         *)
LEMMA StepImplements ==
    ASSUME IInv, [Next]_vars
    PROVE  [Store!Next]_(Store!vars)
<1>0. ASSUME maptbl' = maptbl, status' = status
      PROVE  UNCHANGED Store!vars
  BY <1>0 DEF Store!vars
<1>1. CASE \E l \in Lpns : Invalidate(l)
  BY <1>1, InvalidateImplements
<1>2. CASE Program
  <2>1. pc = "program" /\ MapPage(lpn, GetNewPage("USER"))
    BY <1>2 DEF Program
  <2>2. "USER" \in IoTypes /\ lpn \in Lpns /\ wp["USER"].line # NULL
    BY <2>1 DEF IInv, ControlSound, IoTypes
  <2> QED
    BY <2>1, <2>2, WriteImplements
<1>3. CASE FgSkip \/ FgNoGc \/ Refill
  BY <1>0, <1>3 DEF FgSkip, FgNoGc, Refill, mapping, pages
<1>4. CASE FgGc \/ Migrate
  BY <1>0, <1>4 DEF FgGc, Migrate, DoGc, mapping, pages
<1>5. CASE \E p \in todo : GcWritePage(p)
  <2>1. PICK p \in todo : GcWritePage(p)
    BY <1>5
  <2>2. pc = "clean" /\ MapPage(rmap[p], GetNewPage("GC"))
    BY <2>1 DEF GcWritePage
  <2>3. p \in Ppas /\ status[p] = "VALID"
    BY <2>1 DEF IInv, TypeOK, ControlOK, ControlSound
  <2>4. rmap[p] \in Lpns
    BY <2>1, <2>3 DEF IInv, MappingSound
  <2>5. "GC" \in IoTypes /\ wp["GC"].line # NULL
    BY <2>2 DEF IInv, ControlSound, IoTypes
  <2> QED
    BY <2>2, <2>4, <2>5, WriteImplements
<1>6. CASE EraseLine
  BY <1>6, EraseImplements
<1>7. CASE UNCHANGED vars
  BY <1>0, <1>7 DEF vars, mapping, pages
<1> QED
  BY <1>1, <1>2, <1>3, <1>4, <1>5, <1>6, <1>7 DEF Next, Dispatch

(* Whatever the collection order, the ages and the sizes, the FTL programs *)
(* every page at most once between erases and in order, erases a line only *)
(* when it is used up and empty, and never forgets a written logical page. *)
THEOREM Refinement == Spec => ImplementsStore
<1>1. Init => Store!Init
  BY DEF Init, InitTables, Store!Init
<1>2. IInv /\ [Next]_vars => [Store!Next]_(Store!vars)
  BY StepImplements
<1> QED
  BY <1>1, <1>2, Invariance, PTL DEF Spec, ImplementsStore, Store!Spec
=============================================================================
