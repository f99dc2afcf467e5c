------------------------------- MODULE Sorts -------------------------------
(***************************************************************************)
(* lib/ints: the in-place merge sort that sorts a slice together with the  *)
(* indices of its elements, and the merge of two slices by distance.       *)
(* Indices are the code's plus one.                                        *)
(***************************************************************************)
EXTENDS Integers, Sequences, SequencesExt, FiniteSetsExt

CONSTANTS SoValues,    \* elements of the slices
          SoThreshold, \* slices up to this length are sorted by insertion, 7 in the code
          SoMaxLen     \* bound: elements of a slice
ASSUME SoAssumption == SoValues \subseteq Int /\ SoThreshold \in Nat \ {0} /\ SoMaxLen \in Nat

VARIABLES soOrg,   \* the slice as it was
          soD, soIdx, \* the slice sorted, and its indices
          soAsc,   \* the order that was asked for
          soOut,   \* the last MergeByDistance: [a, b, distance, out]
          soDone   \* a call has returned
soVars == <<soOrg, soD, soIdx, soAsc, soOut, soDone>>

SoNoOut == [a |-> <<>>, b |-> <<>>, distance |-> 0, out |-> <<>>]
SoInit == soOrg = <<>> /\ soD = <<>> /\ soIdx = <<>> /\ soAsc = TRUE /\ soOut = SoNoOut /\ soDone = FALSE

\* A slice and its indices, which are swapped together.
SoPair(d, idx) == [d |-> d, idx |-> idx]
SoSwapSeq(s, x, y) == [s EXCEPT ![x] = s[y], ![y] = s[x]]
SoSwap(p, x, y) == SoPair(SoSwapSeq(p.d, x, y), SoSwapSeq(p.idx, x, y))
SoBefore(a, b, asc) == IF asc THEN a < b ELSE a > b

\* InplaceInsertionSort of [l, r): each position takes in turn every element that belongs before it.
SoInsertion(p, l, r, asc) ==
  LET inner(q, x) == FoldLeft(LAMBDA s, y : IF SoBefore(s.d[y], s.d[x], asc) THEN SoSwap(s, x, y) ELSE s, q,
                              [k \in 1..r - x - 1 |-> x + k])
  IN FoldLeft(inner, p, [k \in 1..r - l |-> l + k - 1])

\* MinRange or MaxRange: the last of the elements of [l, r) that come first.
SoExtreme(d, l, r, asc) == Max({i \in l..r - 1 : \A j \in l..r - 1 : ~SoBefore(d[j], d[i], asc)})
\* minY: x goes on while the element it is at belongs there.
RECURSIVE SoMinY(_, _, _, _, _)
SoMinY(d, x, y, r, asc) ==
  IF x >= r THEN [x |-> x, y |-> y]
  ELSE LET at == SoExtreme(d, x, r, asc) IN IF at # x THEN [x |-> x, y |-> at] ELSE SoMinY(d, x + 1, at, r, asc)
\* moveY: the elements from y on that belong before the one at x, as long as none comes before the first.
SoMoveY(d, x, y, r, asc) ==
  Min({r} \cup {z \in y + 1..r - 1 : ~SoBefore(d[z], d[x], asc) \/ SoBefore(d[z], d[y], asc)})
\* inplaceMultiswap, which compares the same way whatever the order.
RECURSIVE SoMultiswap(_, _, _, _)
SoMultiswap(p, x, y, ylast) ==
  LET q == SoSwap(p, x, y)
  IN IF y >= ylast THEN p
     ELSE IF y + 1 >= ylast THEN q
     ELSE IF q.d[x + 1] <= q.d[y + 1] THEN q
     ELSE SoMultiswap(q, x + 1, y + 1, ylast)
\* Mutant of SoMerge: the smallest element that is left is not looked for again.
RECURSIVE SoMergeStay(_, _, _, _, _)
SoMergeStay(p, x, y, r, asc) ==
  IF x >= r \/ y >= r THEN p
  ELSE IF ~SoBefore(p.d[y], p.d[x], asc) THEN SoMergeStay(p, x + 1, IF x + 1 >= y THEN y + 1 ELSE y, r, asc)
  ELSE SoMergeStay(SoMultiswap(p, x, y, SoMoveY(p.d, x, y, r, asc)), x + 1, y, r, asc)
RECURSIVE SoMerge(_, _, _, _, _)
SoMerge(p, x, y, r, asc) ==
  LET inPlace == ~SoBefore(p.d[y], p.d[x], asc)
      q == IF inPlace THEN p ELSE SoMultiswap(p, x, y, SoMoveY(p.d, x, y, r, asc))
      next == SoMinY(q.d, IF inPlace THEN x + 1 ELSE x, y, r, asc)
  IN IF x >= r \/ y >= r THEN p
     ELSE IF inPlace /\ x + 1 < y THEN SoMerge(p, x + 1, y, r, asc)
     ELSE SoMerge(q, next.x, next.y, r, asc)
\* InplaceMergesort of [l, r), with l counted from 0 for the middle.
RECURSIVE SoMergesort(_, _, _, _)
SoMergesort(p, l, r, asc) ==
  LET c == ((r + l) \div 2) + ((r + l) % 2)
      q == SoMergesort(SoMergesort(p, l, c, asc), c, r, asc)
  IN IF l + SoThreshold >= r THEN SoInsertion(p, l + 1, r + 1, asc)
     ELSE IF ~SoBefore(q.d[c + 1], q.d[c], asc) THEN q
     ELSE SoMerge(q, l + 1, c + 1, r + 1, asc)

\* Mutant of SoMergeByDistance: the distance is taken from the element before, kept or not.
SoMergeByDistanceStep(a, b, distance) ==
  LET ab == SortSeq(a \o b, <)
  IN SelectSeq([i \in DOMAIN ab |-> IF i = 1 \/ ab[i] > ab[i - 1] + distance THEN ab[i] ELSE -1], LAMBDA v : v >= 0)
SoMergeByDistance(a, b, distance) ==
  FoldLeft(LAMBDA out, v : IF out = <<>> THEN <<v>> ELSE IF v > Last(out) + distance THEN Append(out, v) ELSE out, <<>>, SortSeq(a \o b, <))

-----------------------------------------------------------------------------
SoAdd == \E v \in SoValues :
  ~soDone /\ Len(soOrg) < SoMaxLen /\ soOrg' = Append(soOrg, v) /\ UNCHANGED <<soD, soIdx, soAsc, soOut, soDone>>
SoIndirectSort == \E asc \in BOOLEAN :
  LET p == SoMergesort(SoPair(soOrg, [i \in DOMAIN soOrg |-> i]), 0, Len(soOrg), asc)
  IN /\ ~soDone /\ soDone' = TRUE /\ soD' = p.d /\ soIdx' = p.idx /\ soAsc' = asc /\ UNCHANGED <<soOrg, soOut>>
SoMergeSlices == \E n \in 0..Len(soOrg), distance \in 0..2 :
  LET a == SubSeq(soOrg, 1, n) b == SubSeq(soOrg, n + 1, Len(soOrg))
  IN /\ ~soDone /\ soDone' = TRUE /\ Len(soOrg) <= SoThreshold
     /\ soOut' = [a |-> a, b |-> b, distance |-> distance, out |-> SoMergeByDistance(a, b, distance)]
     /\ UNCHANGED <<soOrg, soD, soIdx, soAsc>>
SoNext == SoAdd \/ SoIndirectSort \/ SoMergeSlices
SoSpec == SoInit /\ [][SoNext]_soVars

-----------------------------------------------------------------------------
SoTypeOK == Len(soOrg) <= SoMaxLen /\ soAsc \in BOOLEAN /\ soDone \in BOOLEAN

(* The merge sort leaves the slice in the order that was asked for, also   *)
(* descending and with equal elements, which its merge step compares       *)
(* without looking at the order; and the indices it returns lead from each *)
(* place of the sorted slice to the element the slice had there, so that   *)
(* SortByIndex sorts another column the same way.                          *)
SoSorted == soDone /\ soOut = SoNoOut =>
  /\ \A i \in 1..Len(soD) - 1 : ~SoBefore(soD[i + 1], soD[i], soAsc)
  /\ Range(soIdx) = DOMAIN soOrg
  /\ \A i \in DOMAIN soD : soD[i] = soOrg[soIdx[i]]

(* What MergeByDistance returns is farther apart than the distance, and    *)
(* every element of the two slices is within it above one that was kept.   *)
SoDistance ==
  LET kept == soOut.out
  IN /\ \A i \in 1..Len(kept) - 1 : kept[i + 1] > kept[i] + soOut.distance
     /\ \A v \in Range(soOut.a \o soOut.b) : \E k \in Range(kept) : v \in k..k + soOut.distance
=============================================================================
