----------------------------- MODULE XLogProofs -----------------------------
(***************************************************************************)
(* Proofs about XLog, for any number of backends and insertion locks, any  *)
(* page, segment and header sizes and any records.                         *)
(***************************************************************************)
EXTENDS XLog, SequenceTheorems, FiniteSetTheorems, WellFoundedInduction, TLAPS

\* Who is who.  The groups of variables in UNCHANGED are names for tuples, and Goto for one assignment.
Distinct == Procs \subseteq Everyone /\ WalWriter \notin Procs /\ None \notin Everyone /\ None # "flush"
USE DEF Distinct, Goto, shared, results, pages, disk, locks, mine

(***************************************************************************)
(* Positions.  Reserved bytes and pointers are in the same order.          *)
(***************************************************************************)

\* Division with remainder.
LEMMA Quotient ==
  ASSUME NEW n \in Nat \ {0}, NEW a \in Nat
  PROVE  /\ a \div n \in Nat /\ a % n \in Nat /\ a % n < n
         /\ a = (a \div n) * n + (a % n)
<1>1. a \div n \in Int /\ a % n \in 0..(n - 1)
  OBVIOUS
<1>2. a = (a \div n) * n + (a % n)
  OBVIOUS
<1>3. a \div n >= 0
  OBVIOUS
<1> QED BY <1>1, <1>2, <1>3

\* A larger factor gives a larger product.
LEMMA TimesMonotone ==
  ASSUME NEW n \in Nat, NEW a \in Int, NEW b \in Int, a <= b
  PROVE  a * n <= b * n
<1>1. (b - a) * n >= 0
  OBVIOUS
<1>2. (b - a) * n = b * n - a * n
  OBVIOUS
<1> QED BY <1>1, <1>2

\* Quotients are in the order of the numbers, and within a quotient the remainders are.
LEMMA QuotientMonotone ==
  ASSUME NEW n \in Nat \ {0}, NEW a \in Nat, NEW b \in Nat, a <= b
  PROVE  /\ a \div n <= b \div n
         /\ a \div n = b \div n => a % n <= b % n /\ (a < b => a % n < b % n)
<1>1. PICK q \in Nat, r \in Nat : q = a \div n /\ r = a % n /\ r < n /\ a = q * n + r
  BY Quotient
<1>2. PICK u \in Nat, v \in Nat : u = b \div n /\ v = b % n /\ v < n /\ b = u * n + v
  BY Quotient
<1>3. q <= u
  <2>1. SUFFICES ASSUME u + 1 <= q PROVE FALSE
    OBVIOUS
  <2>2. (u + 1) * n <= q * n
    BY <2>1, TimesMonotone
  <2>3. (u + 1) * n = u * n + n
    OBVIOUS
  <2>4. PICK x \in Int, y \in Int : x = u * n /\ y = q * n
    OBVIOUS
  <2>5. x + n <= y /\ y + r <= x + v
    BY <1>1, <1>2, <2>2, <2>3, <2>4
  <2> QED BY <1>1, <1>2, <2>5
<1>4. q = u => r <= v /\ (a < b => r < v)
  <2>1. PICK x \in Int, y \in Int : x = u * n /\ y = q * n
    OBVIOUS
  <2> QED BY <1>1, <1>2, <2>1
<1> QED BY <1>1, <1>2, <1>3, <1>4

\* The sizes.
LEMMA Sizes ==
  /\ UsableBytesInPage \in Nat \ {0} /\ FirstPageBytes \in Nat \ {0} /\ UsableBytesInSegment \in Nat \ {0}
  /\ SegSize \in Nat \ {0} /\ XLOG_BLCKSZ \in Nat \ {0}
  /\ SizeOfXLogShortPHD \in Nat \ {0} /\ SizeOfXLogLongPHD \in Nat \ {0} /\ PagesPerSegment \in Nat \ {0}
  /\ XLOG_BLCKSZ = UsableBytesInPage + SizeOfXLogShortPHD
  /\ XLOG_BLCKSZ = FirstPageBytes + SizeOfXLogLongPHD
<1>1. /\ XLOG_BLCKSZ \in Nat \ {0} /\ SizeOfXLogShortPHD \in Nat \ {0} /\ SizeOfXLogLongPHD \in Nat \ {0}
      /\ PagesPerSegment \in Nat \ {0} /\ SizeOfXLogShortPHD <= SizeOfXLogLongPHD /\ SizeOfXLogLongPHD < XLOG_BLCKSZ
  BY XLogConstants
<1>2. /\ UsableBytesInPage \in Nat \ {0} /\ FirstPageBytes \in Nat \ {0}
      /\ XLOG_BLCKSZ = UsableBytesInPage + SizeOfXLogShortPHD
      /\ XLOG_BLCKSZ = FirstPageBytes + SizeOfXLogLongPHD
  BY <1>1 DEF UsableBytesInPage, FirstPageBytes
<1>3. (PagesPerSegment - 1) * UsableBytesInPage \in Nat
  BY <1>1, <1>2
<1>4. UsableBytesInSegment \in Nat \ {0}
  BY <1>2, <1>3 DEF UsableBytesInSegment
<1>5. SegSize \in Nat \ {0}
  BY <1>1 DEF SegSize
<1> QED BY <1>1, <1>2, <1>4, <1>5

\* Where in its segment a byte starts, and where what precedes it ends.
StartOffset(left) == SegOffset(left, TRUE)
EndOffset(left)   == SegOffset(left, FALSE)

\* Byte left is the one with number off on page q after the first.
OnPage(left, q, off) ==
  /\ q \in Nat /\ off \in Nat
  /\ q = (left - FirstPageBytes) \div UsableBytesInPage /\ off = (left - FirstPageBytes) % UsableBytesInPage
  /\ off < UsableBytesInPage /\ left = FirstPageBytes + q * UsableBytesInPage + off
  /\ StartOffset(left) = XLOG_BLCKSZ + q * XLOG_BLCKSZ + off + SizeOfXLogShortPHD
  /\ EndOffset(left) = XLOG_BLCKSZ + q * XLOG_BLCKSZ + off + (IF off = 0 THEN 0 ELSE SizeOfXLogShortPHD)

\* Where a byte of a segment is: on its first page, or on page q after it.
LEMMA OffsetParts ==
  ASSUME NEW left \in Nat
  PROVE  \/ /\ left < FirstPageBytes
            /\ StartOffset(left) = left + SizeOfXLogLongPHD
            /\ EndOffset(left) = IF left = 0 THEN 0 ELSE left + SizeOfXLogLongPHD
         \/ left >= FirstPageBytes /\ \E q, off \in Nat : OnPage(left, q, off)
<1>1. CASE left < FirstPageBytes
  BY <1>1 DEF SegOffset, StartOffset, EndOffset
<1>2. CASE left >= FirstPageBytes
  <2>1. PICK rest \in Nat : rest = left - FirstPageBytes
    BY <1>2, Sizes
  <2>2. PICK q \in Nat, off \in Nat : /\ q = rest \div UsableBytesInPage /\ off = rest % UsableBytesInPage
                                     /\ off < UsableBytesInPage /\ rest = q * UsableBytesInPage + off
    BY Quotient, Sizes
  <2>3. left = FirstPageBytes + q * UsableBytesInPage + off
    <3>1. PICK x \in Int : x = q * UsableBytesInPage
      BY Sizes
    <3> QED BY <2>1, <2>2, <3>1, Sizes
  <2>4. ~(left < FirstPageBytes)
    BY <1>2, Sizes
  <2>5. StartOffset(left) = XLOG_BLCKSZ + q * XLOG_BLCKSZ + off + SizeOfXLogShortPHD
    BY <2>1, <2>2, <2>4 DEF SegOffset, StartOffset
  <2>6. EndOffset(left) = XLOG_BLCKSZ + q * XLOG_BLCKSZ + off + (IF off = 0 THEN 0 ELSE SizeOfXLogShortPHD)
    BY <2>1, <2>2, <2>4 DEF SegOffset, EndOffset
  <2>7. OnPage(left, q, off)
    BY <2>1, <2>2, <2>3, <2>5, <2>6 DEF OnPage
  <2> QED BY <1>2, <2>2, <2>7
<1> QED BY <1>1, <1>2, Sizes

\* A page offset, as a number.
LEMMA OnPageOffsets ==
  ASSUME NEW left, NEW q, NEW off, OnPage(left, q, off)
  PROVE  \E x \in Nat : /\ x = q * XLOG_BLCKSZ
                        /\ StartOffset(left) = XLOG_BLCKSZ + x + off + SizeOfXLogShortPHD
                        /\ EndOffset(left) = XLOG_BLCKSZ + x + off + (IF off = 0 THEN 0 ELSE SizeOfXLogShortPHD)
<1>1. PICK x \in Nat : x = q * XLOG_BLCKSZ
  BY Sizes DEF OnPage
<1> QED BY <1>1 DEF OnPage

\* Offsets are numbers, and within the segment.
LEMMA OffsetBounds ==
  ASSUME NEW a \in Nat
  PROVE  /\ StartOffset(a) \in Nat /\ EndOffset(a) \in Nat /\ EndOffset(a) <= StartOffset(a)
         /\ a < UsableBytesInSegment => StartOffset(a) < SegSize
<1>1. CASE a < FirstPageBytes
  <2>1. /\ StartOffset(a) = a + SizeOfXLogLongPHD
        /\ EndOffset(a) = IF a = 0 THEN 0 ELSE a + SizeOfXLogLongPHD
    BY <1>1, OffsetParts, Sizes
  <2>2. StartOffset(a) < XLOG_BLCKSZ
    BY <1>1, <2>1, Sizes
  <2>3. XLOG_BLCKSZ <= SegSize
    <3>1. 1 * XLOG_BLCKSZ <= PagesPerSegment * XLOG_BLCKSZ
      BY Sizes, TimesMonotone
    <3> QED BY <3>1, Sizes DEF SegSize
  <2> QED BY <2>1, <2>2, <2>3, Sizes
<1>2. CASE a >= FirstPageBytes
  <2>1. PICK q, off \in Nat : OnPage(a, q, off)
    BY <1>2, OffsetParts, Sizes
  <2>2. PICK x \in Nat : /\ x = q * XLOG_BLCKSZ
                         /\ StartOffset(a) = XLOG_BLCKSZ + x + off + SizeOfXLogShortPHD
                         /\ EndOffset(a) = XLOG_BLCKSZ + x + off + (IF off = 0 THEN 0 ELSE SizeOfXLogShortPHD)
    BY <2>1, OnPageOffsets
  <2>3. ASSUME a < UsableBytesInSegment PROVE StartOffset(a) < SegSize
    <3>1. PICK m \in Nat : m = PagesPerSegment - 1
      BY Sizes
    <3>2. SegSize = m * XLOG_BLCKSZ + XLOG_BLCKSZ
      <4>1. PagesPerSegment = m + 1
        BY <3>1, Sizes
      <4>2. (m + 1) * XLOG_BLCKSZ = m * XLOG_BLCKSZ + XLOG_BLCKSZ
        BY Sizes
      <4> QED BY <4>1, <4>2 DEF SegSize
    <3>3. a < FirstPageBytes + m * UsableBytesInPage
      BY <2>3, <3>1 DEF UsableBytesInSegment
    <3>4. PICK z \in Nat, w \in Nat, y \in Nat :
            z = m * XLOG_BLCKSZ /\ w = m * UsableBytesInPage /\ y = q * UsableBytesInPage
      BY Sizes
    <3>5. off < UsableBytesInPage /\ a = FirstPageBytes + y + off
      BY <2>1, <3>4 DEF OnPage
    <3>6. q + 1 <= m
      <4>1. SUFFICES ASSUME m <= q PROVE FALSE
        OBVIOUS
      <4>2. w <= y
        BY <3>4, <4>1, TimesMonotone, Sizes
      <4> QED BY <3>3, <3>4, <3>5, <4>2, Sizes
    <3>7. (q + 1) * XLOG_BLCKSZ <= z
      BY <3>4, <3>6, TimesMonotone, Sizes
    <3>8. (q + 1) * XLOG_BLCKSZ = x + XLOG_BLCKSZ
      BY <2>2, Sizes
    <3> QED BY <2>2, <3>2, <3>4, <3>5, <3>7, <3>8, Sizes
  <2> QED BY <2>2, <2>3, Sizes
<1> QED BY <1>1, <1>2, Sizes

\* Offsets in a segment are in the order of its bytes.
LEMMA OffsetMonotone ==
  ASSUME NEW a \in Nat, NEW b \in Nat, a <= b
  PROVE  /\ StartOffset(a) <= StartOffset(b) /\ EndOffset(a) <= EndOffset(b)
         /\ a < b => StartOffset(a) < StartOffset(b)
<1>1. CASE b < FirstPageBytes
  <2>1. /\ StartOffset(a) = a + SizeOfXLogLongPHD /\ EndOffset(a) = IF a = 0 THEN 0 ELSE a + SizeOfXLogLongPHD
        /\ StartOffset(b) = b + SizeOfXLogLongPHD /\ EndOffset(b) = IF b = 0 THEN 0 ELSE b + SizeOfXLogLongPHD
    BY <1>1, OffsetParts, Sizes
  <2> QED BY <2>1, Sizes
<1>2. CASE b >= FirstPageBytes
  <2>1. PICK q, off \in Nat : OnPage(b, q, off)
    BY <1>2, OffsetParts, Sizes
  <2>2. PICK x \in Nat : /\ x = q * XLOG_BLCKSZ
                         /\ StartOffset(b) = XLOG_BLCKSZ + x + off + SizeOfXLogShortPHD
                         /\ EndOffset(b) = XLOG_BLCKSZ + x + off + (IF off = 0 THEN 0 ELSE SizeOfXLogShortPHD)
    BY <2>1, OnPageOffsets
  <2>3. CASE a < FirstPageBytes
    <3>1. /\ StartOffset(a) = a + SizeOfXLogLongPHD
          /\ EndOffset(a) = IF a = 0 THEN 0 ELSE a + SizeOfXLogLongPHD
      BY <2>3, OffsetParts, Sizes
    <3> QED BY <2>2, <2>3, <3>1, Sizes
  <2>4. CASE a >= FirstPageBytes
    <3>1. PICK q1, off1 \in Nat : OnPage(a, q1, off1)
      BY <2>4, OffsetParts, Sizes
    <3>2. PICK x1 \in Nat : /\ x1 = q1 * XLOG_BLCKSZ
                            /\ StartOffset(a) = XLOG_BLCKSZ + x1 + off1 + SizeOfXLogShortPHD
                            /\ EndOffset(a) = XLOG_BLCKSZ + x1 + off1 + (IF off1 = 0 THEN 0 ELSE SizeOfXLogShortPHD)
      BY <3>1, OnPageOffsets
    <3>3. PICK ra \in Nat, rb \in Nat : ra = a - FirstPageBytes /\ rb = b - FirstPageBytes /\ ra <= rb /\ (a < b => ra < rb)
      BY <1>2, <2>4, Sizes
    <3>4. /\ q1 = ra \div UsableBytesInPage /\ off1 = ra % UsableBytesInPage /\ off1 < UsableBytesInPage
          /\ q = rb \div UsableBytesInPage /\ off = rb % UsableBytesInPage
      BY <2>1, <3>1, <3>3 DEF OnPage
    <3>5. q1 <= q /\ (q1 = q => off1 <= off /\ (a < b => off1 < off))
      BY <3>3, <3>4, QuotientMonotone, Sizes
    <3>6. CASE q1 = q
      BY <2>2, <3>2, <3>5, <3>6, Sizes
    <3>7. CASE q1 + 1 <= q
      <4>1. (q1 + 1) * XLOG_BLCKSZ <= x
        BY <2>2, <3>7, TimesMonotone, Sizes
      <4>2. (q1 + 1) * XLOG_BLCKSZ = x1 + XLOG_BLCKSZ
        BY <3>2, Sizes
      <4> QED BY <2>2, <3>2, <3>4, <4>1, <4>2, Sizes
    <3> QED BY <3>5, <3>6, <3>7
  <2> QED BY <2>3, <2>4, Sizes
<1> QED BY <1>1, <1>2, Sizes

\* A position in segment q, at an offset x of it.
LEMMA SegmentsApart ==
  ASSUME NEW S \in Nat, NEW q \in Nat, NEW u \in Nat, NEW x \in Nat, NEW y \in Nat,
         q <= u, x < S, q = u => x <= y
  PROVE  q * S + x <= u * S + y /\ ((q = u => x < y) => q * S + x < u * S + y)
<1>1. PICK i \in Nat, j \in Nat : i = q * S /\ j = u * S
  OBVIOUS
<1>2. CASE q = u
  BY <1>1, <1>2
<1>3. CASE q + 1 <= u
  <2>1. (q + 1) * S <= j
    BY <1>1, <1>3, TimesMonotone
  <2>2. (q + 1) * S = i + S
    BY <1>1
  <2> QED BY <1>1, <2>1, <2>2
<1> QED BY <1>2, <1>3

\* Pointers are in the order of byte positions; the end of what precedes a position is not
\* behind its start.
LEMMA PointersMonotone ==
  ASSUME NEW a \in Nat, NEW b \in Nat, a <= b
  PROVE  /\ XLogBytePosToRecPtr(a) \in Nat /\ XLogBytePosToEndRecPtr(a) \in Nat
         /\ XLogBytePosToRecPtr(a) <= XLogBytePosToRecPtr(b)
         /\ a < b => XLogBytePosToRecPtr(a) < XLogBytePosToRecPtr(b)
         /\ XLogBytePosToEndRecPtr(a) <= XLogBytePosToEndRecPtr(b)
         /\ XLogBytePosToEndRecPtr(a) <= XLogBytePosToRecPtr(a)
<1>1. PICK U \in Nat \ {0}, S \in Nat \ {0} : U = UsableBytesInSegment /\ S = SegSize
  BY Sizes
<1>2. PICK q \in Nat, r \in Nat : q = a \div U /\ r = a % U /\ r < U
  BY Quotient
<1>3. PICK u \in Nat, v \in Nat : u = b \div U /\ v = b % U /\ v < U
  BY Quotient
<1>4. q <= u /\ (q = u => r <= v /\ (a < b => r < v))
  BY <1>2, <1>3, QuotientMonotone
<1>5. /\ XLogBytePosToRecPtr(a) = q * S + StartOffset(r)
      /\ XLogBytePosToEndRecPtr(a) = q * S + EndOffset(r)
      /\ XLogBytePosToRecPtr(b) = u * S + StartOffset(v)
      /\ XLogBytePosToEndRecPtr(b) = u * S + EndOffset(v)
  BY <1>1, <1>2, <1>3 DEF XLogBytePosToRecPtr, XLogBytePosToEndRecPtr, StartOffset, EndOffset
<1>6. /\ StartOffset(r) \in Nat /\ EndOffset(r) \in Nat /\ EndOffset(r) <= StartOffset(r) /\ StartOffset(r) < S
      /\ StartOffset(v) \in Nat /\ EndOffset(v) \in Nat
  BY <1>1, <1>2, OffsetBounds
<1>7. q = u => /\ StartOffset(r) <= StartOffset(v) /\ EndOffset(r) <= EndOffset(v)
               /\ a < b => StartOffset(r) < StartOffset(v)
  BY <1>4, OffsetMonotone
<1>8. PICK x \in Nat, y \in Nat, i \in Nat, j \in Nat :
        x = StartOffset(r) /\ y = EndOffset(r) /\ i = StartOffset(v) /\ j = EndOffset(v)
  BY <1>6
<1>9. x < S /\ y < S /\ y <= x /\ (q = u => x <= i /\ y <= j /\ (a < b => x < i))
  <2>1. x < S /\ y <= x
    BY <1>6, <1>8
  <2>2. y < S
    BY <2>1
  <2>3. ASSUME q = u PROVE x <= i /\ y <= j /\ (a < b => x < i)
    <3>1. StartOffset(r) <= StartOffset(v) /\ EndOffset(r) <= EndOffset(v)
      BY <1>7, <2>3
    <3>2. a < b => StartOffset(r) < StartOffset(v)
      BY <1>7, <2>3
    <3>3. x <= i /\ y <= j
      BY <1>8, <3>1
    <3>4. a < b => x < i
      BY <1>8, <3>2
    <3> QED BY <3>3, <3>4
  <2> QED BY <2>1, <2>2, <2>3
<1>10. q * S + x <= u * S + i /\ q * S + y <= u * S + j /\ (a < b => q * S + x < u * S + i)
  BY <1>4, <1>9, SegmentsApart
<1>11. PICK z \in Nat : z = q * S
  OBVIOUS
<1> QED BY <1>5, <1>8, <1>9, <1>10, <1>11

\* A multiple has no remainder.
LEMMA MultipleOf ==
  ASSUME NEW n \in Nat \ {0}, NEW k \in Nat
  PROVE  (k * n) % n = 0 /\ (k * n) \div n = k
<1>1. k * n \in Nat
  OBVIOUS
<1>2. PICK q \in Nat, r \in Nat : q = (k * n) \div n /\ r = (k * n) % n /\ r < n /\ k * n = q * n + r
  BY <1>1, Quotient
<1>3. k * n = (k * n) + 0
  OBVIOUS
<1>4. k <= q
  <2>1. SUFFICES ASSUME q + 1 <= k PROVE FALSE
    OBVIOUS
  <2>2. (q + 1) * n <= k * n
    BY <2>1, TimesMonotone
  <2>3. (q + 1) * n = q * n + n
    OBVIOUS
  <2>4. PICK x \in Nat : x = q * n
    OBVIOUS
  <2> QED BY <1>2, <2>2, <2>3, <2>4
<1>5. k * n <= q * n
  BY <1>4, TimesMonotone
<1>6. q <= k
  <2>1. SUFFICES ASSUME k + 1 <= q PROVE FALSE
    OBVIOUS
  <2>2. (k + 1) * n <= q * n
    BY <2>1, TimesMonotone
  <2>3. (k + 1) * n = k * n + n
    OBVIOUS
  <2>4. PICK x \in Nat, y \in Nat : x = q * n /\ y = k * n
    OBVIOUS
  <2> QED BY <1>2, <2>2, <2>3, <2>4
<1>7. q = k
  BY <1>4, <1>6
<1>8. PICK y \in Nat : y = k * n
  OBVIOUS
<1> QED BY <1>2, <1>7, <1>8

\* The byte position of a segment's begin.
LEMMA SegmentBegin ==
  ASSUME NEW s \in Nat
  PROVE  /\ XLogRecPtrToBytePos(s * SegSize) = s * UsableBytesInSegment
         /\ s * UsableBytesInSegment \in Nat
         /\ s * SegSize <= XLogBytePosToRecPtr(s * UsableBytesInSegment)
<1>1. PICK U \in Nat \ {0}, S \in Nat \ {0}, B \in Nat \ {0} :
        U = UsableBytesInSegment /\ S = SegSize /\ B = XLOG_BLCKSZ
  BY Sizes
<1>2. (s * S) % S = 0 /\ (s * S) \div S = s
  BY MultipleOf
<1>3. (s * S) % B = 0
  <2>1. PICK k \in Nat : k = s * PagesPerSegment
    BY Sizes
  <2>2. s * S = k * B
    BY <1>1, <2>1, Sizes DEF SegSize
  <2> QED BY <2>2, MultipleOf
<1>4. 0 \div B = 0
  OBVIOUS
<1>5. XLogRecPtrToBytePos(s * S) = s * U
  <2>1. s * U + 0 + 0 = s * U
    OBVIOUS
  <2> QED BY <1>1, <1>2, <1>3, <1>4, <2>1 DEF XLogRecPtrToBytePos
<1>6. (s * U) % U = 0 /\ (s * U) \div U = s
  BY MultipleOf
<1>7. XLogBytePosToRecPtr(s * U) = s * S + StartOffset(0)
  BY <1>1, <1>6 DEF XLogBytePosToRecPtr, StartOffset
<1>8. StartOffset(0) \in Nat
  BY OffsetBounds
<1>9. PICK x \in Nat, y \in Nat : x = s * S /\ y = s * U
  OBVIOUS
<1> QED BY <1>1, <1>5, <1>7, <1>8, <1>9

\* Where the insertion of a record leaves the end of the reserved space.
Reserves(b, len, next, end) ==
  \/ next = b + len /\ end = XLogBytePosToEndRecPtr(b + len)
  \/ LET e == XLogBytePosToEndRecPtr(b + len)
     IN  /\ XLogBytePosToEndRecPtr(b) % SegSize # 0
         /\ end = IF e % SegSize = 0 THEN e ELSE e - (e % SegSize) + SegSize
         /\ next = XLogRecPtrToBytePos(end)

\* It is a later one, and the record ends before it.
LEMMA ReservesLater ==
  ASSUME NEW b \in Nat, NEW len \in Nat \ {0}, NEW next, NEW end, Reserves(b, len, next, end)
  PROVE  /\ next \in Nat /\ b < next /\ end \in Nat
         /\ end <= XLogBytePosToRecPtr(next)
<1>1. PICK e \in Nat : e = XLogBytePosToEndRecPtr(b + len)
  BY PointersMonotone
<1>2. CASE next = b + len /\ end = e
  <2>1. next \in Nat /\ b < next /\ end \in Nat
    BY <1>2
  <2> QED BY <1>1, <1>2, <2>1, PointersMonotone
<1>3. CASE /\ XLogBytePosToEndRecPtr(b) % SegSize # 0
           /\ end = IF e % SegSize = 0 THEN e ELSE e - (e % SegSize) + SegSize
           /\ next = XLogRecPtrToBytePos(end)
  <2>1. PICK U \in Nat \ {0}, S \in Nat \ {0} : U = UsableBytesInSegment /\ S = SegSize
    BY Sizes
  <2>2. PICK k \in Nat, r \in Nat : k = e \div S /\ r = e % S /\ r < S /\ e = k * S + r
    BY Quotient
  <2>3. PICK t \in Nat : end = t * S /\ e <= end
    <3>1. PICK x \in Nat : x = k * S
      OBVIOUS
    <3>2. CASE r = 0
      <4>1. end = e
        BY <1>3, <2>1, <2>2, <3>2
      <4>2. e = k * S
        BY <2>2, <3>1, <3>2
      <4> QED BY <4>1, <4>2
    <3>3. CASE r # 0
      <4>1. (k + 1) * S = x + S
        BY <3>1
      <4>2. end = x + S
        <5>1. end = e - r + S
          BY <1>3, <2>1, <2>2, <3>3
        <5>2. e = x + r
          BY <2>2, <3>1
        <5>3. e - r = x
          BY <5>2
        <5> QED BY <5>1, <5>3
      <4>3. e <= x + S
        BY <2>2, <3>1
      <4>4. end = (k + 1) * S /\ e <= end
        BY <4>1, <4>2, <4>3
      <4> QED BY <4>4
    <3> QED BY <3>2, <3>3
  <2>4. PICK q \in Nat, v \in Nat : q = b \div U /\ v = b % U /\ v < U /\ b = q * U + v
    BY Quotient
  <2>5. XLogBytePosToEndRecPtr(b) = q * S + EndOffset(v) /\ EndOffset(v) \in Nat
    BY <2>1, <2>4, OffsetBounds DEF XLogBytePosToEndRecPtr, EndOffset
  <2>6. EndOffset(v) # 0
    <3>1. (q * S) % S = 0
      BY MultipleOf
    <3>2. PICK x \in Nat : x = q * S
      OBVIOUS
    <3> QED BY <1>3, <2>1, <2>5, <3>1, <3>2
  <2>7. XLogBytePosToEndRecPtr(b) <= e
    BY <1>1, PointersMonotone
  <2>8. q + 1 <= t
    <3>1. SUFFICES ASSUME t <= q PROVE FALSE
      OBVIOUS
    <3>2. t * S <= q * S
      BY <3>1, TimesMonotone
    <3>3. PICK x \in Nat, y \in Nat : x = q * S /\ y = t * S
      OBVIOUS
    <3> QED BY <2>3, <2>5, <2>6, <2>7, <3>2, <3>3
  <2>9. next = t * U /\ next \in Nat /\ end <= XLogBytePosToRecPtr(next)
    BY <1>3, <2>1, <2>3, SegmentBegin
  <2>10. b < next
    <3>1. (q + 1) * U <= t * U
      BY <2>8, TimesMonotone
    <3>2. (q + 1) * U = q * U + U
      OBVIOUS
    <3>3. PICK x \in Nat : x = q * U
      OBVIOUS
    <3> QED BY <2>4, <2>9, <3>1, <3>2, <3>3
  <2> QED BY <2>3, <2>9, <2>10
<1> QED BY <1>1, <1>2, <1>3 DEF Reserves

(***************************************************************************)
(* What holds in every state.                                              *)
(***************************************************************************)

Entries == [start : Nat, end : Nat, page : Procs \union {None}, image : BOOLEAN, acked : BOOLEAN]

\* Everybody has a place, and numbers are numbers.
Typed ==
  /\ DOMAIN at = Everyone /\ DOMAIN caller = Everyone /\ DOMAIN todo = Everyone /\ DOMAIN insertLock = Locks
  /\ DOMAIN rec = Procs /\ DOMAIN lockNo = Procs /\ DOMAIN redo = Procs
  /\ DOMAIN doPageWrites = Procs /\ DOMAIN pageLSN = Procs
  /\ CurrBytePos \in Nat /\ RedoRecPtr \in Nat /\ records \in Seq(Entries)

\* The redo pointer cuts through no record, and all of them lie before the next one.
NextPtr == XLogBytePosToRecPtr(CurrBytePos)
Ordered ==
  /\ RedoRecPtr <= NextPtr
  /\ \A i \in DOMAIN records :
       /\ records[i].start < NextPtr /\ records[i].end <= NextPtr
       /\ records[i].end <= RedoRecPtr \/ records[i].start >= RedoRecPtr

\* Places before the reservation, and the ones of a flush.
Before   == {"idle", "lockWait", "lockAll", "reserve"}
Flushing == {"flush", "wait", "waitVar", "acquireOrWait", "waitFree", "flushLocked", "write", "sync",
             "publishWrite", "publishFlush", "panic", "unsatisfied"}
Free(p)  == at[p] \in {"idle", "lockWait", "inserted", "flush", "unsatisfied"} \/ caller[p] = "flush"

Logged(p, lsn) == \E i \in DOMAIN records : records[i].page = p /\ records[i].end = lsn

Proc(p) ==
  /\ todo[p] \in Seq(Jobs) /\ lockNo[p] \in Locks
  /\ redo[p] \in Nat /\ doPageWrites[p] \in BOOLEAN /\ pageLSN[p] \in Nat
  /\ at[p] # "idle" => todo[p] # <<>>
  /\ caller[p] = "flush" => at[p] \in Flushing
  /\ at[p] \in {"acquireOrWait", "waitFree", "flushLocked"} => caller[p] = "flush"
  /\ Held(p) = {} <=> Free(p)
  /\ at[p] = "lockWait" => ~Exclusive(p)
  /\ at[p] = "lockAll" => Exclusive(p) /\ \E k \in 1..(All - 1) : Held(p) = 1..k
  /\ at[p] = "reserve" => /\ Exclusive(p) => Held(p) = Locks
                          /\ rec[p].image \in BOOLEAN
                          /\ Exclusive(p) \/ rec[p].image \/ pageLSN[p] > RedoRecPtr
  /\ pageLSN[p] # 0 => Logged(p, pageLSN[p])
  /\ at[p] \notin Before => /\ "end" \in DOMAIN rec[p]
                            /\ Exclusive(p) \/ Logged(p, rec[p].end)

RedoInv == Typed /\ Ordered /\ (\A p \in Procs : Proc(p)) /\ ImagesComplete

\* The insertion locks are numbered.
LEMMA LocksNumbered == All \in Nat \ {0} /\ Locks = 1..All
<1>1. IsFiniteSet(Locks) /\ Locks # {} /\ Locks = 1..Cardinality(Locks)
  BY XLogConstants
<1>2. Cardinality(Locks) \in Nat
  BY <1>1, FS_CardinalityType
<1>3. Cardinality(Locks) # 0
  BY <1>1, FS_EmptySet
<1> QED BY <1>1, <1>2, <1>3 DEF All

\* A process that does nothing, and what happens to it at most.
Same(q) ==
  /\ at'[q] = at[q] /\ caller'[q] = caller[q] /\ todo'[q] = todo[q] /\ rec'[q] = rec[q] /\ lockNo'[q] = lockNo[q]
  /\ redo'[q] = redo[q] /\ doPageWrites'[q] = doPageWrites[q] /\ pageLSN'[q] = pageLSN[q]
Grows ==
  \A i \in DOMAIN records :
    i \in DOMAIN records' /\ records'[i].page = records[i].page /\ records'[i].end = records[i].end

\* A process is where it was while others move, and the redo pointer stands still for it.
LEMMA OtherProc ==
  ASSUME NEW q \in Procs, Proc(q), Same(q), Held(q)' = Held(q), Grows,
         RedoRecPtr' = RedoRecPtr \/ at[q] # "reserve"
  PROVE  Proc(q)'
<1>1. Exclusive(q)' <=> Exclusive(q)
  BY DEF Same, Exclusive, Job
<1>2. Free(q)' <=> Free(q)
  BY DEF Same, Free
<1>3. pageLSN'[q] # 0 => \E i \in DOMAIN records' : records'[i].page = q /\ records'[i].end = pageLSN'[q]
  BY DEF Proc, Logged, Grows, Same
<1>4. at'[q] \notin Before => /\ "end" \in DOMAIN rec'[q]
                             /\ \/ Exclusive(q)'
                                \/ \E i \in DOMAIN records' : records'[i].page = q /\ records'[i].end = rec'[q].end
  BY <1>1 DEF Proc, Logged, Grows, Same
<1> QED BY <1>1, <1>2, <1>3, <1>4 DEF Same, Proc, Logged

\* The log with no more than its acknowledgements changed.
Kept ==
  /\ records' \in Seq(Entries) /\ DOMAIN records' = DOMAIN records
  /\ \A i \in DOMAIN records : /\ records'[i].start = records[i].start /\ records'[i].end = records[i].end
                               /\ records'[i].page = records[i].page /\ records'[i].image = records[i].image

\* Such a log keeps its order and its images.
LEMMA KeptRecords ==
  ASSUME Typed, Ordered, ImagesComplete, Kept, UNCHANGED <<CurrBytePos, RedoRecPtr>>
  PROVE  Ordered' /\ ImagesComplete' /\ Grows
<1>1. Ordered'
  BY DEF Ordered, Kept, NextPtr
<1>2. Grows
  BY DEF Grows, Kept
<1>3. ImagesComplete'
  <2> SUFFICES ASSUME NEW i \in DOMAIN records', records'[i].page # None, records'[i].start >= RedoRecPtr',
                      \A j \in 1..(i - 1) : records'[j].page = records'[i].page => records'[j].start < RedoRecPtr'
               PROVE  records'[i].image
    BY DEF ImagesComplete
  <2>1. records \in Seq(Entries) /\ i \in DOMAIN records /\ i \in 1..Len(records)
    BY DEF Kept, Typed
  <2>2. \A j \in 1..(i - 1) : j \in DOMAIN records
    BY <2>1
  <2>3. \A j \in 1..(i - 1) : records[j].page = records[i].page => records[j].start < RedoRecPtr
    BY <2>1, <2>2 DEF Kept
  <2>4. records[i].page # None /\ records[i].start >= RedoRecPtr
    BY <2>1 DEF Kept
  <2>5. records[i].image
    BY <2>1, <2>3, <2>4 DEF ImagesComplete
  <2> QED BY <2>1, <2>5 DEF Kept
<1> QED BY <1>1, <1>2, <1>3

\* An unchanged log is a kept one.
LEMMA SameRecords ==
  ASSUME Typed, records' = records
  PROVE  Kept
BY DEF Typed, Kept

\* A step that takes no insertion lock and lets none go, and reserves nothing: p goes from one
\* place behind its reservation to another.
Plain(p) ==
  /\ UNCHANGED <<CurrBytePos, RedoRecPtr, records, insertLock, lockNo, redo, doPageWrites, pageLSN>>
  /\ DOMAIN at' = Everyone /\ DOMAIN caller' = Everyone /\ DOMAIN todo' = Everyone /\ DOMAIN rec' = Procs
  /\ \A q \in Procs : todo'[q] = todo[q]
  /\ \A q \in Procs \ {p} : at'[q] = at[q] /\ caller'[q] = caller[q] /\ rec'[q] = rec[q]
  /\ p \in Procs =>
       /\ at[p] \notin Before /\ at'[p] \notin Before
       /\ "end" \in DOMAIN rec'[p] /\ rec'[p].end = rec[p].end
       /\ caller'[p] = "flush" => at'[p] \in Flushing
       /\ at'[p] \in {"acquireOrWait", "waitFree", "flushLocked"} => caller'[p] = "flush"
       /\ Free(p)' <=> Free(p)

\* A plain step keeps the invariant.
LEMMA PlainStep ==
  ASSUME RedoInv, NEW p \in Everyone, Plain(p)
  PROVE  RedoInv'
<1>1. Typed /\ Ordered /\ ImagesComplete /\ \A q \in Procs : Proc(q)
  BY DEF RedoInv
<1>2. Typed'
  BY <1>1 DEF Typed, Plain
<1>3. UNCHANGED <<CurrBytePos, RedoRecPtr, records>>
  BY DEF Plain
<1>4. Ordered' /\ ImagesComplete' /\ Grows
  BY <1>1, <1>3, SameRecords, KeptRecords
<1>5. ASSUME NEW q \in Procs PROVE Proc(q)'
  <2>1. Held(q)' = Held(q)
    BY DEF Held, Plain
  <2>2. Proc(q)
    BY <1>1
  <2>3. CASE q # p
    <3>1. Same(q)
      BY <2>3 DEF Same, Plain
    <3> QED BY <1>3, <1>4, <2>1, <2>2, <3>1, OtherProc
  <2>4. CASE q = p
    <3>1. Exclusive(p)' <=> Exclusive(p)
      BY <2>4 DEF Exclusive, Job, Plain
    <3>2. "idle" \in Before /\ "lockWait" \in Before /\ "lockAll" \in Before /\ "reserve" \in Before
      BY DEF Before
    <3>3. at[p] # "idle" /\ at'[p] # "idle" /\ at'[p] # "lockWait" /\ at'[p] # "lockAll" /\ at'[p] # "reserve"
      BY <2>4, <3>2 DEF Plain
    <3>4. /\ todo'[p] \in Seq(Jobs) /\ lockNo'[p] \in Locks /\ todo'[p] # <<>>
          /\ redo'[p] \in Nat /\ doPageWrites'[p] \in BOOLEAN /\ pageLSN'[p] \in Nat
      BY <2>2, <2>4, <3>3 DEF Proc, Plain
    <3>5. pageLSN'[p] # 0 => Logged(p, pageLSN[p])'
      BY <2>2, <2>4 DEF Proc, Plain, Logged
    <3>6. "end" \in DOMAIN rec'[p] /\ (Exclusive(p)' \/ Logged(p, rec[p].end)')
      BY <2>2, <2>4, <3>1 DEF Proc, Plain, Logged
    <3>7. Held(p)' = {} <=> Free(p)'
      BY <2>1, <2>2, <2>4 DEF Proc, Plain
    <3>8. /\ caller'[p] = "flush" => at'[p] \in Flushing
          /\ at'[p] \in {"acquireOrWait", "waitFree", "flushLocked"} => caller'[p] = "flush"
      BY <2>4 DEF Plain
    <3> QED BY <2>4, <3>3, <3>4, <3>5, <3>6, <3>7, <3>8 DEF Proc
  <2> QED BY <2>3, <2>4
<1> QED BY <1>2, <1>4, <1>5 DEF RedoInv

\* The steps that neither begin nor end an insertion, and move no insertion lock.
LEMMA PlainSteps ==
  ASSUME RedoInv, NEW p \in Everyone,
         \/ p \in Procs /\ (GetXLogBuffer(p) \/ Copy(p) \/ LookAgain(p) \/ AcquireOrWait(p))
         \/ WaitStart(p) \/ WaitForVar(p) \/ WaitEnd(p) \/ MapLock(p) \/ Advance(p) \/ TakeWriteLock(p)
         \/ WritePage(p) \/ SyncFile(p) \/ PublishWrite(p)
  PROVE  Plain(p)
<1>1. p \in Everyone /\ Procs \subseteq Everyone /\ None # "flush" /\ WalWriter \notin Procs
  BY XLogConstants DEF Everyone
<1>2. Typed /\ (p \in Procs => Proc(p))
  BY DEF RedoInv
<1>3. /\ UNCHANGED <<CurrBytePos, RedoRecPtr, records, insertLock, lockNo, redo, doPageWrites, pageLSN>>
      /\ DOMAIN at' = Everyone /\ DOMAIN caller' = Everyone /\ DOMAIN todo' = Everyone /\ DOMAIN rec' = Procs
      /\ \A q \in Procs : todo'[q] = todo[q]
      /\ \A q \in Procs \ {p} : at'[q] = at[q] /\ caller'[q] = caller[q] /\ rec'[q] = rec[q]
  <2> USE <1>1, <1>2 DEF Typed
  <2>1. CASE p \in Procs /\ GetXLogBuffer(p) BY <2>1 DEF GetXLogBuffer
  <2>2. CASE p \in Procs /\ Copy(p) BY <2>2 DEF Copy
  <2>3. CASE p \in Procs /\ LookAgain(p) BY <2>3 DEF LookAgain
  <2>4. CASE WaitStart(p) BY <2>4 DEF WaitStart, AfterWait
  <2>5. CASE WaitForVar(p) BY <2>5 DEF WaitForVar
  <2>6. CASE WaitEnd(p) BY <2>6 DEF WaitEnd, AfterWait
  <2>7. CASE MapLock(p) BY <2>7 DEF MapLock
  <2>8. CASE Advance(p) BY <2>8 DEF Advance, InitializePage, CallWait, Opportunistic
  <2>9. CASE TakeWriteLock(p) BY <2>9 DEF TakeWriteLock
  <2>10. CASE WritePage(p) BY <2>10 DEF WritePage
  <2>11. CASE SyncFile(p) BY <2>11 DEF SyncFile
  <2>12. CASE PublishWrite(p) BY <2>12 DEF PublishWrite
  <2>13. CASE p \in Procs /\ AcquireOrWait(p) BY <2>13 DEF AcquireOrWait
  <2> QED BY <2>1, <2>2, <2>3, <2>4, <2>5, <2>6, <2>7, <2>8, <2>9, <2>10, <2>11, <2>12, <2>13
<1>4. ASSUME p \in Procs
      PROVE  /\ at[p] \notin Before /\ at'[p] \notin Before
             /\ caller'[p] = "flush" => at'[p] \in Flushing
             /\ at'[p] \in {"acquireOrWait", "waitFree", "flushLocked"} => caller'[p] = "flush"
             /\ Free(p)' <=> Free(p)
  <2> USE <1>1, <1>2, <1>4 DEF Typed, Proc, Before, Flushing, Free
  <2>1. CASE p \in Procs /\ GetXLogBuffer(p) BY <2>1 DEF GetXLogBuffer
  <2>2. CASE p \in Procs /\ Copy(p) BY <2>2 DEF Copy
  <2>3. CASE p \in Procs /\ LookAgain(p) BY <2>3 DEF LookAgain
  <2>4. CASE WaitStart(p) BY <2>4 DEF WaitStart, AfterWait
  <2>5. CASE WaitForVar(p) BY <2>5 DEF WaitForVar
  <2>6. CASE WaitEnd(p) BY <2>6 DEF WaitEnd, AfterWait
  <2>7. CASE MapLock(p) BY <2>7 DEF MapLock
  <2>8. CASE Advance(p) BY <2>8 DEF Advance, InitializePage, CallWait, Opportunistic
  <2>9. CASE TakeWriteLock(p) BY <2>9 DEF TakeWriteLock
  <2>10. CASE WritePage(p) BY <2>10 DEF WritePage
  <2>11. CASE SyncFile(p) BY <2>11 DEF SyncFile
  <2>12. CASE PublishWrite(p) BY <2>12 DEF PublishWrite
  <2>13. CASE p \in Procs /\ AcquireOrWait(p) BY <2>13 DEF AcquireOrWait
  <2> QED BY <2>1, <2>2, <2>3, <2>4, <2>5, <2>6, <2>7, <2>8, <2>9, <2>10, <2>11, <2>12, <2>13
<1>5. ASSUME p \in Procs
      PROVE  "end" \in DOMAIN rec'[p] /\ rec'[p].end = rec[p].end
  <2> USE <1>1, <1>2, <1>4, <1>5 DEF Typed, Proc, Before
  <2>1. CASE p \in Procs /\ GetXLogBuffer(p) BY <2>1 DEF GetXLogBuffer
  <2>2. CASE p \in Procs /\ Copy(p) BY <2>2 DEF Copy
  <2>3. CASE p \in Procs /\ LookAgain(p) BY <2>3 DEF LookAgain
  <2>4. CASE WaitStart(p) BY <2>4 DEF WaitStart, AfterWait
  <2>5. CASE WaitForVar(p) BY <2>5 DEF WaitForVar
  <2>6. CASE WaitEnd(p) BY <2>6 DEF WaitEnd, AfterWait
  <2>7. CASE MapLock(p) BY <2>7 DEF MapLock
  <2>8. CASE Advance(p) BY <2>8 DEF Advance, InitializePage, CallWait, Opportunistic
  <2>9. CASE TakeWriteLock(p) BY <2>9 DEF TakeWriteLock
  <2>10. CASE WritePage(p) BY <2>10 DEF WritePage
  <2>11. CASE SyncFile(p) BY <2>11 DEF SyncFile
  <2>12. CASE PublishWrite(p) BY <2>12 DEF PublishWrite
  <2>13. CASE p \in Procs /\ AcquireOrWait(p) BY <2>13 DEF AcquireOrWait
  <2> QED BY <2>1, <2>2, <2>3, <2>4, <2>5, <2>6, <2>7, <2>8, <2>9, <2>10, <2>11, <2>12, <2>13
<1> QED BY <1>3, <1>4, <1>5 DEF Plain

\* XLogBackgroundFlush is no backend's step.
LEMMA PlainBackgroundFlush ==
  ASSUME RedoInv, XLogBackgroundFlush
  PROVE  Plain(WalWriter)
<1>1. WalWriter \in Everyone /\ Procs \subseteq Everyone /\ WalWriter \notin Procs
  BY XLogConstants DEF Everyone
<1>2. Typed
  BY DEF RedoInv
<1>3. /\ UNCHANGED <<CurrBytePos, RedoRecPtr, records, insertLock, lockNo, redo, doPageWrites, pageLSN>>
      /\ DOMAIN at' = Everyone /\ DOMAIN caller' = Everyone /\ DOMAIN todo' = Everyone /\ DOMAIN rec' = Procs
      /\ \A q \in Procs : todo'[q] = todo[q]
  BY <1>1, <1>2 DEF Typed, XLogBackgroundFlush, CallWait
<1>4. \A q \in Procs \ {WalWriter} : at'[q] = at[q] /\ caller'[q] = caller[q] /\ rec'[q] = rec[q]
  BY <1>1, <1>2 DEF Typed, XLogBackgroundFlush, CallWait
<1> QED BY <1>1, <1>3, <1>4 DEF Plain

\* A job is left to a process that is not idle, and it has a length.
LEMMA JobsLeft ==
  ASSUME NEW p \in Procs, Proc(p), todo[p] # <<>>
  PROVE  Job(p) \in Jobs /\ Tail(todo[p]) \in Seq(Jobs)
<1>1. todo[p] \in Seq(Jobs)
  BY DEF Proc
<1>2. Head(todo[p]) \in Jobs /\ Tail(todo[p]) \in Seq(Jobs)
  BY <1>1, HeadTailProperties
<1> QED BY <1>2 DEF Job

\* XLogFlush acknowledges a record and changes nothing else in the log.
Acknowledged(start) ==
  records' = [i \in DOMAIN records |-> [records[i] EXCEPT !.acked = @ \/ records[i].start = start]]

\* An acknowledgement keeps the log.
LEMMA AcknowledgedKept ==
  ASSUME Typed, NEW start, Acknowledged(start)
  PROVE  Kept
<1>1. records \in Seq(Entries)
  BY DEF Typed
<1>2. PICK n \in Nat : n = Len(records) /\ DOMAIN records = 1..n /\ \A i \in 1..n : records[i] \in Entries
  BY <1>1, LenProperties, ElementOfSeq
<1>3. ASSUME NEW i \in 1..n
      PROVE  /\ records'[i] \in Entries
             /\ records'[i].start = records[i].start /\ records'[i].end = records[i].end
             /\ records'[i].page = records[i].page /\ records'[i].image = records[i].image
  <2>1. records[i] \in Entries
    BY <1>2
  <2>2. PICK b \in BOOLEAN : b = (records[i].acked \/ records[i].start = start)
    OBVIOUS
  <2>3. records'[i] = [records[i] EXCEPT !.acked = b]
    BY <1>2, <2>2 DEF Acknowledged
  <2> QED BY <2>1, <2>3 DEF Entries
<1>4. DOMAIN records' = 1..n
  BY <1>2 DEF Acknowledged
<1>5. records' \in [1..n -> Entries]
  BY <1>2, <1>3 DEF Acknowledged
<1>6. records' \in Seq(Entries)
  BY ONLY <1>5, n \in Nat, SeqDef
<1> QED BY <1>2, <1>3, <1>4, <1>6 DEF Kept

\* XLogFlush is done: its process holds no insertion lock and is idle again.
Returned(p) ==
  /\ at' = [at EXCEPT ![p] = "idle"]
  /\ caller' = [caller EXCEPT ![p] = None]
  /\ todo' = [todo EXCEPT ![p] = Tail(@)]
  /\ rec' = [rec EXCEPT ![p] = None]
  /\ Acknowledged(rec[p].start)
  /\ UNCHANGED <<CurrBytePos, RedoRecPtr, insertLock, lockNo, redo, doPageWrites, pageLSN>>

\* The return of XLogFlush keeps the invariant.
LEMMA ReturnedStep ==
  ASSUME RedoInv, NEW p \in Everyone, Returned(p), p \in Procs => at[p] # "idle" /\ Free(p)
  PROVE  RedoInv'
<1>1. Typed /\ Ordered /\ ImagesComplete /\ \A q \in Procs : Proc(q)
  BY DEF RedoInv
<1>2. Procs \subseteq Everyone /\ None # "flush"
  BY XLogConstants DEF Everyone
<1>3. Kept
  BY <1>1, AcknowledgedKept DEF Returned
<1>4. Ordered' /\ ImagesComplete' /\ Grows
  BY <1>1, <1>3, KeptRecords DEF Returned
<1>5. Typed'
  BY <1>1, <1>3 DEF Typed, Returned, Kept
<1>6. ASSUME NEW q \in Procs PROVE Proc(q)'
  <2>1. Held(q)' = Held(q)
    BY DEF Held, Returned
  <2>2. Proc(q)
    BY <1>1
  <2>3. CASE q # p
    <3>1. Same(q)
      BY <1>1, <1>2, <2>3 DEF Same, Returned, Typed
    <3> QED BY <1>4, <2>1, <2>2, <3>1, OtherProc DEF Returned
  <2>4. CASE q = p
    <3>1. todo[p] # <<>> /\ Held(p) = {}
      BY <2>2, <2>4 DEF Proc
    <3>2. at'[p] = "idle" /\ caller'[p] = None /\ todo'[p] = Tail(todo[p])
      BY <1>1, <1>2 DEF Returned, Typed
    <3>3. todo'[p] \in Seq(Jobs)
      BY <2>2, <2>4, <3>1, <3>2, JobsLeft
    <3>4. /\ lockNo'[p] \in Locks /\ redo'[p] \in Nat /\ doPageWrites'[p] \in BOOLEAN /\ pageLSN'[p] \in Nat
          /\ pageLSN'[p] # 0 => \E i \in DOMAIN records' : records'[i].page = p /\ records'[i].end = pageLSN'[p]
      BY <1>4, <2>2, <2>4 DEF Proc, Returned, Logged, Grows
    <3>5. Free(p)' /\ Held(p)' = {}
      BY <2>1, <2>4, <3>1, <3>2 DEF Free
    <3> QED BY <1>2, <2>4, <3>2, <3>3, <3>4, <3>5 DEF Proc, Logged, Before
  <2> QED BY <2>3, <2>4
<1> QED BY <1>4, <1>5, <1>6 DEF RedoInv

\* XLogFlush.
LEMMA StepXLogFlush ==
  ASSUME RedoInv, NEW p \in Procs, XLogFlush(p)
  PROVE  RedoInv'
<1>1. p \in Everyone /\ Procs \subseteq Everyone
  BY DEF Everyone
<1>2. Typed /\ (p \in Procs => Proc(p))
  BY DEF RedoInv
<1>3. p \in Procs => at[p] \notin {"idle", "lockWait", "lockAll", "reserve"} /\ Free(p)
  BY <1>2 DEF XLogFlush, Proc, Free
<1>4. CASE at'[p] = "idle"
  <2>1. Returned(p)
    BY <1>1, <1>2, <1>4 DEF Typed, Returned, Acknowledged, FlushReturns, XLogFlush, CallWait
  <2> QED BY <1>1, <1>3, <1>4, <2>1, ReturnedStep
<1>5. CASE at'[p] # "idle"
  <2>1. /\ UNCHANGED <<CurrBytePos, RedoRecPtr, records, insertLock, lockNo, redo, doPageWrites, pageLSN>>
        /\ DOMAIN at' = Everyone /\ DOMAIN caller' = Everyone /\ DOMAIN todo' = Everyone /\ DOMAIN rec' = Procs
        /\ todo' = todo /\ rec' = rec
    BY <1>1, <1>2, <1>5 DEF Typed, FlushReturns, XLogFlush, CallWait
  <2>2. \A q \in Procs \ {p} : at'[q] = at[q] /\ caller'[q] = caller[q]
    BY <1>1, <1>2 DEF Typed, FlushReturns, XLogFlush, CallWait
  <2>3. ASSUME p \in Procs
        PROVE  /\ at[p] \notin Before /\ at'[p] \notin Before
               /\ caller'[p] = "flush" => at'[p] \in Flushing
               /\ at'[p] \in {"acquireOrWait", "waitFree", "flushLocked"} => caller'[p] = "flush"
               /\ Free(p)' <=> Free(p)
    BY <1>1, <1>2, <1>5, <2>3 DEF Typed, Proc, FlushReturns, Before, Flushing, Free, XLogFlush, CallWait
  <2>4. p \in Procs => "end" \in DOMAIN rec'[p] /\ rec'[p].end = rec[p].end
    BY <1>2, <2>1, <2>3 DEF Proc
  <2>5. Plain(p)
    BY <2>1, <2>2, <2>3, <2>4 DEF Plain
  <2> QED BY <1>1, <2>5, PlainStep
<1> QED BY <1>4, <1>5

\* XLogFlush under WALWriteLock.
LEMMA StepFlushLocked ==
  ASSUME RedoInv, NEW p \in Procs, FlushLocked(p)
  PROVE  RedoInv'
<1>1. p \in Everyone /\ Procs \subseteq Everyone
  BY DEF Everyone
<1>2. Typed /\ (p \in Procs => Proc(p))
  BY DEF RedoInv
<1>3. p \in Procs => at[p] \notin {"idle", "lockWait", "lockAll", "reserve"} /\ Free(p)
  BY <1>2 DEF FlushLocked, Proc, Free
<1>4. CASE at'[p] = "idle"
  <2>1. Returned(p)
    BY <1>1, <1>2, <1>4 DEF Typed, Returned, Acknowledged, FlushReturns, FlushLocked
  <2> QED BY <1>1, <1>3, <1>4, <2>1, ReturnedStep
<1>5. CASE at'[p] # "idle"
  <2>1. /\ UNCHANGED <<CurrBytePos, RedoRecPtr, records, insertLock, lockNo, redo, doPageWrites, pageLSN>>
        /\ DOMAIN at' = Everyone /\ DOMAIN caller' = Everyone /\ DOMAIN todo' = Everyone /\ DOMAIN rec' = Procs
        /\ todo' = todo /\ rec' = rec
    BY <1>1, <1>2, <1>5 DEF Typed, FlushReturns, FlushLocked
  <2>2. \A q \in Procs \ {p} : at'[q] = at[q] /\ caller'[q] = caller[q]
    BY <1>1, <1>2 DEF Typed, FlushReturns, FlushLocked
  <2>3. ASSUME p \in Procs
        PROVE  /\ at[p] \notin Before /\ at'[p] \notin Before
               /\ caller'[p] = "flush" => at'[p] \in Flushing
               /\ at'[p] \in {"acquireOrWait", "waitFree", "flushLocked"} => caller'[p] = "flush"
               /\ Free(p)' <=> Free(p)
    BY <1>1, <1>2, <1>5, <2>3 DEF Typed, Proc, FlushReturns, Before, Flushing, Free, FlushLocked
  <2>4. p \in Procs => "end" \in DOMAIN rec'[p] /\ rec'[p].end = rec[p].end
    BY <1>2, <2>1, <2>3 DEF Proc
  <2>5. Plain(p)
    BY <2>1, <2>2, <2>3, <2>4 DEF Plain
  <2> QED BY <1>1, <2>5, PlainStep
<1> QED BY <1>4, <1>5

\* XLogWrite returns to XLogFlush or to who needs a buffer.
LEMMA StepPublishFlush ==
  ASSUME RedoInv, NEW p \in Everyone, PublishFlush(p)
  PROVE  RedoInv'
<1>1. p \in Everyone /\ Procs \subseteq Everyone
  BY DEF Everyone
<1>2. Typed /\ (p \in Procs => Proc(p))
  BY DEF RedoInv
<1>3. p \in Procs => at[p] \notin {"idle", "lockWait", "lockAll", "reserve"} /\ (at'[p] = "idle" => Free(p))
  BY <1>1, <1>2 DEF PublishFlush, Typed, Proc, Free
<1>4. CASE at'[p] = "idle"
  <2>1. Returned(p)
    BY <1>1, <1>2, <1>4 DEF Typed, Returned, Acknowledged, FlushReturns, PublishFlush
  <2> QED BY <1>1, <1>3, <1>4, <2>1, ReturnedStep
<1>5. CASE at'[p] # "idle"
  <2>1. /\ UNCHANGED <<CurrBytePos, RedoRecPtr, records, insertLock, lockNo, redo, doPageWrites, pageLSN>>
        /\ DOMAIN at' = Everyone /\ DOMAIN caller' = Everyone /\ DOMAIN todo' = Everyone /\ DOMAIN rec' = Procs
        /\ todo' = todo /\ rec' = rec
    BY <1>1, <1>2, <1>5 DEF Typed, FlushReturns, PublishFlush
  <2>2. \A q \in Procs \ {p} : at'[q] = at[q] /\ caller'[q] = caller[q]
    BY <1>1, <1>2 DEF Typed, FlushReturns, PublishFlush
  <2>3. ASSUME p \in Procs
        PROVE  /\ at[p] \notin Before /\ at'[p] \notin Before
               /\ caller'[p] = "flush" => at'[p] \in Flushing
               /\ at'[p] \in {"acquireOrWait", "waitFree", "flushLocked"} => caller'[p] = "flush"
               /\ Free(p)' <=> Free(p)
    BY <1>1, <1>2, <1>5, <2>3 DEF Typed, Proc, FlushReturns, Before, Flushing, Free, PublishFlush
  <2>4. p \in Procs => "end" \in DOMAIN rec'[p] /\ rec'[p].end = rec[p].end
    BY <1>2, <2>1, <2>3 DEF Proc
  <2>5. Plain(p)
    BY <2>1, <2>2, <2>3, <2>4 DEF Plain
  <2> QED BY <1>1, <2>5, PlainStep
<1> QED BY <1>4, <1>5

\* A step of p that reserves nothing and moves no redo pointer leaves the others alone, if it
\* leaves them their locks.
LEMMA StillOthers ==
  ASSUME RedoInv, Typed', NEW p \in Procs, UNCHANGED <<CurrBytePos, RedoRecPtr, records>>,
         \A q \in Procs \ {p} : Same(q) /\ Held(q)' = Held(q),
         Proc(p)'
  PROVE  RedoInv'
<1>1. Typed /\ Ordered /\ ImagesComplete /\ \A q \in Procs : Proc(q)
  BY DEF RedoInv
<1>2. Ordered' /\ ImagesComplete' /\ Grows
  BY <1>1, SameRecords, KeptRecords
<1>3. ASSUME NEW q \in Procs PROVE Proc(q)'
  <2>1. CASE q # p
    BY <1>1, <1>2, <2>1, OtherProc
  <2> QED BY <2>1
<1> QED BY <1>2, <1>3 DEF RedoInv

\* WALInsertLockAcquire finds its lock taken.
LEMMA StepLockBusy ==
  ASSUME RedoInv, NEW p \in Procs, WALInsertLockBusy(p)
  PROVE  RedoInv'
<1>1. p \in Everyone /\ Procs \subseteq Everyone
  BY DEF Everyone
<1>2. Typed /\ Proc(p)
  BY DEF RedoInv
<1>3. at[p] = "idle" /\ todo[p] # <<>> /\ ~Exclusive(p) /\ at'[p] = "lockWait"
  BY <1>1, <1>2 DEF WALInsertLockBusy, Idle, Typed
<1>4. /\ UNCHANGED <<CurrBytePos, RedoRecPtr, records, insertLock, caller, todo, rec, lockNo, redo, doPageWrites, pageLSN>>
      /\ at' = [at EXCEPT ![p] = "lockWait"]
  BY DEF WALInsertLockBusy
<1>5. Typed'
  BY <1>2, <1>4 DEF Typed
<1>6. \A q \in Procs \ {p} : Same(q) /\ Held(q)' = Held(q)
  BY <1>1, <1>2, <1>4 DEF Typed, Same, Held
<1>7. ~Exclusive(p)' /\ Held(p)' = Held(p) /\ Free(p)' /\ Free(p)
  BY <1>3, <1>4 DEF Exclusive, Job, Held, Free
<1>8. caller[p] # "flush"
  BY <1>2, <1>3 DEF Proc, Flushing
<1>9. Proc(p)'
  BY <1>2, <1>3, <1>4, <1>7, <1>8 DEF Proc, Before, Logged
<1> QED BY <1>4, <1>5, <1>6, <1>9, StillOthers

\* WALInsertLockAcquire: a record without an image is one whose page has been logged since
\* the redo point, and the lock keeps it so.
LEMMA StepLockAcquire ==
  ASSUME RedoInv, NEW p \in Procs, WALInsertLockAcquire(p)
  PROVE  RedoInv'
<1>1. p \in Everyone /\ Procs \subseteq Everyone /\ None \notin Procs
  BY XLogConstants DEF Everyone
<1>2. Typed /\ Proc(p)
  BY DEF RedoInv
<1>3. /\ at[p] \in {"idle", "lockWait"} /\ todo[p] # <<>> /\ ~Exclusive(p)
      /\ insertLock[lockNo[p]] = None
  BY <1>2 DEF WALInsertLockAcquire, Idle, Proc
<1>4. /\ UNCHANGED <<CurrBytePos, RedoRecPtr, records, caller, todo, pageLSN>>
      /\ lockNo' = IF at[p] = "lockWait" THEN [lockNo EXCEPT ![p] = 1 + (@ % All)] ELSE lockNo
      /\ redo' = [redo EXCEPT ![p] = RedoRecPtr]
      /\ doPageWrites' = [doPageWrites EXCEPT ![p] = TRUE]
  BY DEF WALInsertLockAcquire
<1>5. lockNo[p] \in Locks /\ lockNo'[p] \in Locks
  <2>1. lockNo[p] \in 1..All /\ All \in Nat \ {0} /\ Locks = 1..All
    BY <1>2, LocksNumbered DEF Proc
  <2>2. 1 + (lockNo[p] % All) \in 1..All
    BY <2>1
  <2> QED BY <1>2, <1>4, <2>1, <2>2 DEF Typed
<1>6. /\ redo'[p] \in Nat /\ doPageWrites'[p] \in BOOLEAN /\ caller[p] # "flush" /\ Held(p) = {}
      /\ DOMAIN lockNo' = Procs /\ DOMAIN redo' = Procs /\ DOMAIN doPageWrites' = Procs
  BY <1>2, <1>3, <1>4 DEF Typed, Proc, Flushing, Free
<1>7. \A q \in Procs \ {p} : /\ lockNo'[q] = lockNo[q] /\ redo'[q] = redo[q] /\ doPageWrites'[q] = doPageWrites[q]
  BY <1>2, <1>4 DEF Typed
<1>8. CASE MustReassemble(p)
  <2>1. at' = [at EXCEPT ![p] = "idle"] /\ UNCHANGED <<insertLock, rec>>
    BY <1>8 DEF WALInsertLockAcquire
  <2>2. Typed'
    BY <1>2, <1>4, <1>6, <2>1 DEF Typed
  <2>3. \A q \in Procs \ {p} : Same(q) /\ Held(q)' = Held(q)
    BY <1>1, <1>2, <1>4, <1>7, <2>1 DEF Typed, Same, Held
  <2>4. at'[p] = "idle" /\ Held(p)' = {} /\ Free(p)'
    BY <1>1, <1>2, <1>6, <2>1 DEF Typed, Held, Free
  <2>5. Proc(p)'
    BY <1>2, <1>4, <1>5, <1>6, <2>4 DEF Proc, Before, Logged
  <2> QED BY <1>4, <2>2, <2>3, <2>5, StillOthers
<1>9. CASE ~MustReassemble(p)
  <2>1. /\ insertLock' = [insertLock EXCEPT ![lockNo[p]] = p]
        /\ rec' = [rec EXCEPT ![p] = [image |-> NeedsBackup(p)]]
        /\ at' = [at EXCEPT ![p] = "reserve"]
    BY <1>9 DEF WALInsertLockAcquire
  <2>2. Typed'
    BY <1>2, <1>4, <1>6, <2>1 DEF Typed
  <2>3. \A q \in Procs \ {p} : Same(q)
    BY <1>1, <1>2, <1>4, <1>7, <2>1 DEF Typed, Same
  <2>4. \A q \in Procs \ {p} : Held(q)' = Held(q)
    BY <1>1, <1>2, <1>3, <1>5, <2>1 DEF Typed, Held
  <2>5. lockNo[p] \in Held(p)' /\ at'[p] = "reserve"
    BY <1>1, <1>2, <1>5, <2>1 DEF Typed, Held
  <2>6. ~Free(p)' /\ Held(p)' # {}
    BY <1>4, <1>6, <2>5 DEF Free
  <2>7. rec'[p].image = NeedsBackup(p) /\ rec'[p].image \in BOOLEAN
    <3>1. NeedsBackup(p) \in BOOLEAN
      BY <1>2 DEF NeedsBackup, Proc
    <3>2. rec'[p] = [image |-> NeedsBackup(p)]
      BY <1>2, <2>1 DEF Typed
    <3> QED BY <3>1, <3>2
  <2>8. rec'[p].image \/ pageLSN'[p] > RedoRecPtr'
    <3>1. SUFFICES ASSUME ~NeedsBackup(p) PROVE pageLSN[p] > RedoRecPtr
      BY <1>4, <2>7
    <3>2. doPageWrites[p] /\ (fpw_lsn(p) = 0 \/ ~(fpw_lsn(p) <= RedoRecPtr))
      BY <1>9 DEF MustReassemble, Invalid
    <3>3. ~(pageLSN[p] <= redo[p])
      BY <3>1, <3>2 DEF NeedsBackup
    <3>4. fpw_lsn(p) = pageLSN[p]
      BY <3>1, <3>2 DEF fpw_lsn
    <3>5. pageLSN[p] \in Nat /\ redo[p] \in Nat /\ RedoRecPtr \in Nat
      BY <1>2 DEF Proc, Typed
    <3> QED BY <3>2, <3>3, <3>4, <3>5
  <2>9. ~Exclusive(p)'
    BY <1>3, <1>4 DEF Exclusive, Job
  <2>10. pageLSN'[p] # 0 => Logged(p, pageLSN[p])'
    BY <1>2, <1>4 DEF Proc, Logged
  <2>11. Proc(p)'
    BY <1>2, <1>3, <1>4, <1>5, <1>6, <2>5, <2>6, <2>7, <2>8, <2>9, <2>10 DEF Proc, Before
  <2> QED BY <1>4, <2>2, <2>3, <2>4, <2>11, StillOthers
<1> QED BY <1>8, <1>9

\* A nonempty set of numbers has a least one.
LEMMA LeastNumber ==
  ASSUME NEW N \in SUBSET Nat, N # {}
  PROVE  \E n \in N : \A m \in N : n <= m
<1>1. PICK n \in N : \A m \in N : ~(<<m, n>> \in OpToRel(<, Nat))
  BY NatLessThanWellFounded, WFMin
<1>2. \A m \in N : ~(m < n)
  BY <1>1 DEF OpToRel
<1>3. ASSUME NEW m \in N PROVE n <= m
  <2>1. n \in Nat /\ m \in Nat
    OBVIOUS
  <2> QED BY <1>2, <2>1
<1> QED BY <1>3

\* How many numbers there are up to k.
LEMMA CardinalityOfNumbers ==
  ASSUME NEW k \in Nat
  PROVE  Cardinality(1..k) = k
BY FS_Interval

\* The locks a backend holds have a least one.
LEMMA LeastHeld ==
  ASSUME NEW p, Held(p) # {}
  PROVE  Min(Held(p)) \in Held(p) /\ IsFiniteSet(Held(p)) /\ Held(p) \subseteq Locks
<1>1. Held(p) \subseteq Locks /\ Locks \subseteq Nat /\ IsFiniteSet(Locks)
  BY LocksNumbered, XLogConstants DEF Held
<1>2. Held(p) \in SUBSET Nat
  BY <1>1
<1>4. \E v \in Held(p) : \A w \in Held(p) : v <= w
  BY <1>2, LeastNumber
<1>5. (CHOOSE v1 \in Held(p) : \A w \in Held(p) : v1 <= w) \in Held(p)
  BY <1>4
<1>6. IsFiniteSet(Held(p))
  BY <1>1, FS_Subset
<1> QED BY <1>1, <1>5, <1>6 DEF Min

\* WALInsertLockAcquireExclusive takes the locks in order: who has got the last one has them all.
LEMMA StepLockAll ==
  ASSUME RedoInv, NEW p \in Procs, WALInsertLockAcquireExclusive(p)
  PROVE  RedoInv'
<1>1. p \in Everyone /\ Procs \subseteq Everyone /\ None \notin Procs
  BY XLogConstants DEF Everyone
<1>2. Typed /\ Proc(p)
  BY DEF RedoInv
<1>3. All \in Nat \ {0} /\ Locks = 1..All
  BY LocksNumbered
<1>4. /\ at[p] \in {"idle", "lockAll"} /\ todo[p] # <<>> /\ Exclusive(p)
  BY <1>2 DEF WALInsertLockAcquireExclusive, Idle, Proc
<1>5. PICK k \in 0..(All - 1) : Held(p) = 1..k
  <2>1. CASE at[p] = "idle"
    <3>1. Held(p) = {} /\ 1..0 = {}
      BY <1>2, <2>1 DEF Proc, Free
    <3> QED BY <1>3, <3>1
  <2>2. CASE at[p] = "lockAll"
    BY <1>2, <1>3, <2>2 DEF Proc
  <2> QED BY <1>4, <2>1, <2>2
<1>6. Cardinality(Held(p)) = k /\ k + 1 \in Locks
  <2>1. Cardinality(1..k) = IF 1 > k THEN 0 ELSE k - 1 + 1
    BY <1>3, FS_Interval
  <2> QED BY <1>3, <1>5, <2>1
<1>7. /\ insertLock[k + 1] = None
      /\ insertLock' = [insertLock EXCEPT ![k + 1] = p]
      /\ at' = [at EXCEPT ![p] = IF k + 1 = All THEN "reserve" ELSE "lockAll"]
      /\ rec' = [rec EXCEPT ![p] = [image |-> FALSE]]
      /\ UNCHANGED <<CurrBytePos, RedoRecPtr, records, caller, todo, lockNo, redo, doPageWrites, pageLSN>>
  BY <1>6 DEF WALInsertLockAcquireExclusive
<1>8. Typed'
  BY <1>2, <1>7 DEF Typed
<1>9. \A q \in Procs \ {p} : Same(q)
  BY <1>1, <1>2, <1>7 DEF Typed, Same
<1>10. \A q \in Procs \ {p} : Held(q)' = Held(q)
  BY <1>1, <1>2, <1>6, <1>7 DEF Typed, Held
<1>11. Held(p)' = 1..(k + 1)
  <2>1. Held(p)' = Held(p) \union {k + 1}
    BY <1>2, <1>6, <1>7 DEF Typed, Held
  <2> QED BY <1>3, <1>5, <2>1
<1>12. Held(p)' # {} /\ ~Free(p)' /\ caller'[p] # "flush"
  <2>1. 1 \in 1..(k + 1)
    BY <1>3
  <2>2. caller[p] # "flush"
    BY <1>2, <1>4 DEF Proc, Flushing
  <2>3. at'[p] \in {"reserve", "lockAll"}
    BY <1>1, <1>2, <1>7 DEF Typed
  <2> QED BY <1>7, <1>11, <2>1, <2>2, <2>3 DEF Free
<1>13. Exclusive(p)'
  BY <1>4, <1>7 DEF Exclusive, Job
<1>14. rec'[p].image \in BOOLEAN
  BY <1>2, <1>7 DEF Typed
<1>15. pageLSN'[p] # 0 => Logged(p, pageLSN[p])'
  BY <1>2, <1>7 DEF Proc, Logged
<1>16. /\ todo'[p] \in Seq(Jobs) /\ lockNo'[p] \in Locks /\ todo'[p] # <<>>
       /\ redo'[p] \in Nat /\ doPageWrites'[p] \in BOOLEAN /\ pageLSN'[p] \in Nat
  BY <1>2, <1>4, <1>7 DEF Proc
<1>17. CASE k + 1 = All
  <2>1. at'[p] = "reserve"
    BY <1>1, <1>2, <1>7, <1>17 DEF Typed
  <2>2. Held(p)' = Locks
    BY <1>3, <1>11, <1>17
  <2>3. Proc(p)'
    BY <1>12, <1>13, <1>14, <1>15, <1>16, <2>1, <2>2 DEF Proc, Before
  <2> QED BY <1>7, <1>8, <1>9, <1>10, <2>3, StillOthers
<1>18. CASE k + 1 # All
  <2>1. at'[p] = "lockAll"
    BY <1>1, <1>2, <1>7, <1>18 DEF Typed
  <2>2. \E j \in 1..(All - 1) : Held(p)' = 1..j
    BY <1>3, <1>11, <1>18
  <2>3. Proc(p)'
    BY <1>12, <1>13, <1>15, <1>16, <2>1, <2>2 DEF Proc, Before
  <2> QED BY <1>7, <1>8, <1>9, <1>10, <2>3, StillOthers
<1> QED BY <1>17, <1>18

\* WALInsertLockRelease lets one lock after the other go, and moves on with the last.
LEMMA StepLockRelease ==
  ASSUME RedoInv, NEW p \in Procs, WALInsertLockRelease(p)
  PROVE  RedoInv'
<1>1. p \in Everyone /\ Procs \subseteq Everyone /\ None \notin Procs
  BY XLogConstants DEF Everyone
<1>2. Typed /\ Proc(p)
  BY DEF RedoInv
<1>3. at[p] = "release" /\ caller[p] # "flush"
  BY <1>2 DEF WALInsertLockRelease, Proc, Flushing
<1>4. Held(p) # {} /\ todo[p] # <<>>
  BY <1>2, <1>3 DEF Proc, Free
<1>5. PICK l \in Held(p) : l = Min(Held(p)) /\ IsFiniteSet(Held(p)) /\ l \in Locks
  BY <1>4, LeastHeld
<1>6. /\ insertLock' = [insertLock EXCEPT ![l] = None]
      /\ at' = [at EXCEPT ![p] = IF Cardinality(Held(p)) = 1 THEN "inserted" ELSE "release"]
      /\ UNCHANGED <<CurrBytePos, RedoRecPtr, records, caller, todo, rec, lockNo, redo, doPageWrites, pageLSN>>
  BY <1>5 DEF WALInsertLockRelease
<1>7. Typed'
  BY <1>2, <1>6 DEF Typed
<1>8. \A q \in Procs \ {p} : Same(q)
  BY <1>1, <1>2, <1>6 DEF Typed, Same
<1>9. \A q \in Procs \ {p} : Held(q)' = Held(q)
  BY <1>1, <1>2, <1>5, <1>6 DEF Typed, Held
<1>10. Held(p)' = Held(p) \ {l}
  BY <1>1, <1>2, <1>5, <1>6 DEF Typed, Held
<1>11. Held(p)' = {} <=> Cardinality(Held(p)) = 1
  <2>1. ASSUME Held(p)' = {} PROVE Cardinality(Held(p)) = 1
    <3>1. Held(p) = {l}
      BY <1>5, <1>10, <2>1
    <3> QED BY <3>1, FS_Singleton
  <2>2. ASSUME Cardinality(Held(p)) = 1 PROVE Held(p)' = {}
    <3>1. PICK x : Held(p) = {x}
      BY <1>5, <2>2, FS_Singleton
    <3> QED BY <1>5, <1>10, <3>1
  <2> QED BY <2>1, <2>2
<1>12. at'[p] = "inserted" \/ at'[p] = "release"
  BY <1>1, <1>2, <1>6 DEF Typed
<1>13. at'[p] = "inserted" <=> Cardinality(Held(p)) = 1
  BY <1>1, <1>2, <1>6 DEF Typed
<1>14. Held(p)' = {} <=> Free(p)'
  BY <1>3, <1>6, <1>11, <1>12, <1>13 DEF Free
<1>15. Exclusive(p)' <=> Exclusive(p)
  BY <1>6 DEF Exclusive, Job
<1>16. pageLSN'[p] # 0 => Logged(p, pageLSN[p])'
  BY <1>2, <1>6 DEF Proc, Logged
<1>17. "end" \in DOMAIN rec'[p] /\ (Exclusive(p)' \/ Logged(p, rec[p].end)')
  BY <1>2, <1>3, <1>6, <1>15 DEF Proc, Logged, Before
<1>18. /\ todo'[p] \in Seq(Jobs) /\ lockNo'[p] \in Locks /\ todo'[p] # <<>>
       /\ redo'[p] \in Nat /\ doPageWrites'[p] \in BOOLEAN /\ pageLSN'[p] \in Nat
  BY <1>2, <1>4, <1>6 DEF Proc
<1>19. Proc(p)'
  BY <1>3, <1>6, <1>12, <1>14, <1>16, <1>17, <1>18 DEF Proc
<1> QED BY <1>6, <1>7, <1>8, <1>9, <1>19, StillOthers

\* The caller of XLogInsert: its page gets the end of the record as LSN.
LEMMA StepInserted ==
  ASSUME RedoInv, NEW p \in Procs, Inserted(p)
  PROVE  RedoInv'
<1>1. p \in Everyone /\ Procs \subseteq Everyone /\ None # "flush"
  BY XLogConstants DEF Everyone
<1>2. Typed /\ Proc(p)
  BY DEF RedoInv
<1>3. at[p] = "inserted" /\ caller[p] # "flush" /\ Held(p) = {} /\ todo[p] # <<>>
  BY <1>2 DEF Inserted, Proc, Flushing, Free
<1>4. /\ UNCHANGED <<CurrBytePos, RedoRecPtr, records, insertLock, caller, lockNo, redo, doPageWrites>>
      /\ pageLSN' = IF Exclusive(p) THEN pageLSN ELSE [pageLSN EXCEPT ![p] = rec[p].end]
  BY DEF Inserted
<1>5. "end" \in DOMAIN rec[p] /\ (Exclusive(p) \/ (rec[p].end \in Nat /\ Logged(p, rec[p].end)))
  <2>1. "end" \in DOMAIN rec[p] /\ (Exclusive(p) \/ Logged(p, rec[p].end))
    BY <1>2, <1>3 DEF Proc, Before
  <2>2. ASSUME Logged(p, rec[p].end) PROVE rec[p].end \in Nat
    <3>1. PICK i \in DOMAIN records : records[i].end = rec[p].end
      BY <2>2 DEF Logged
    <3>2. records[i] \in Entries
      BY <1>2, ElementOfSeq DEF Typed
    <3> QED BY <3>1, <3>2 DEF Entries
  <2> QED BY <2>1, <2>2
<1>6. pageLSN'[p] \in Nat /\ (pageLSN'[p] # 0 => Logged(p, pageLSN[p])')
  <2>1. CASE Exclusive(p)
    BY <1>2, <1>4, <2>1 DEF Proc, Logged
  <2>2. CASE ~Exclusive(p)
    <3>1. pageLSN'[p] = rec[p].end
      BY <1>2, <1>4, <2>2 DEF Typed
    <3> QED BY <1>4, <1>5, <2>2, <3>1 DEF Logged
  <2> QED BY <2>1, <2>2
<1>7. DOMAIN pageLSN' = Procs /\ \A q \in Procs \ {p} : pageLSN'[q] = pageLSN[q]
  BY <1>2, <1>4 DEF Typed
<1>8. \A q \in Procs : Held(q)' = Held(q)
  BY <1>4 DEF Held
<1>9. lockNo'[p] \in Locks /\ redo'[p] \in Nat /\ doPageWrites'[p] \in BOOLEAN
  BY <1>2, <1>4 DEF Proc
<1>10. CASE Job(p).kind \in {"sync", "switch"}
  <2>1. at' = [at EXCEPT ![p] = "flush"] /\ UNCHANGED <<todo, rec>>
    BY <1>10 DEF Inserted
  <2>2. Typed'
    BY <1>2, <1>4, <1>7, <2>1 DEF Typed
  <2>3. \A q \in Procs \ {p} : Same(q)
    BY <1>1, <1>2, <1>4, <1>7, <2>1 DEF Typed, Same
  <2>4. at'[p] = "flush" /\ Free(p)'
    BY <1>1, <1>2, <2>1 DEF Typed, Free
  <2>5. "end" \in DOMAIN rec'[p] /\ (Exclusive(p)' \/ Logged(p, rec[p].end)')
    BY <1>4, <1>5, <2>1 DEF Exclusive, Job, Logged
  <2>6. todo'[p] \in Seq(Jobs) /\ todo'[p] # <<>> /\ Held(p)' = {} /\ caller'[p] # "flush"
    BY <1>2, <1>3, <1>4, <1>8, <2>1 DEF Proc
  <2>7. Proc(p)'
    BY <1>6, <1>9, <2>4, <2>5, <2>6 DEF Proc
  <2> QED BY <1>4, <1>8, <2>2, <2>3, <2>7, StillOthers
<1>11. CASE Job(p).kind \notin {"sync", "switch"}
  <2>1. /\ at' = [at EXCEPT ![p] = "idle"] /\ todo' = [todo EXCEPT ![p] = Tail(@)]
        /\ rec' = [rec EXCEPT ![p] = None]
    BY <1>11 DEF Inserted
  <2>2. Typed'
    BY <1>2, <1>4, <1>7, <2>1 DEF Typed
  <2>3. \A q \in Procs \ {p} : Same(q)
    BY <1>1, <1>2, <1>4, <1>7, <2>1 DEF Typed, Same
  <2>4. at'[p] = "idle" /\ Free(p)'
    BY <1>1, <1>2, <2>1 DEF Typed, Free
  <2>5. todo'[p] = Tail(todo[p]) /\ Held(p)' = {} /\ caller'[p] # "flush"
    BY <1>1, <1>2, <1>3, <1>4, <1>8, <2>1 DEF Typed
  <2>6. todo'[p] \in Seq(Jobs)
    BY <1>2, <1>3, <2>5, JobsLeft
  <2>7. Proc(p)'
    BY <1>6, <1>9, <2>4, <2>5, <2>6 DEF Proc, Before
  <2> QED BY <1>4, <1>8, <2>2, <2>3, <2>7, StillOthers
<1> QED BY <1>10, <1>11

\* Two backends at their reservations hold different locks: who holds all is alone.
LEMMA AloneWithAll ==
  ASSUME RedoInv, NEW p \in Procs, NEW q \in Procs \ {p}, Held(p) = Locks
  PROVE  at[q] # "reserve"
<1>1. Proc(q)
  BY DEF RedoInv
<1>2. Held(q) = {}
  BY DEF Held
<1>3. SUFFICES ASSUME at[q] = "reserve" PROVE FALSE
  OBVIOUS
<1>4. caller[q] # "flush"
  BY <1>1, <1>3 DEF Proc, Flushing
<1>5. ~Free(q)
  BY <1>3, <1>4 DEF Free
<1> QED BY <1>1, <1>2, <1>5 DEF Proc

\* A reservation: the log grows by a record that starts where its free space did, and the
\* redo pointer stays or is moved there by who holds all the locks.
Reserved(p, next, end) ==
  /\ at[p] = "reserve"
  /\ Reserves(CurrBytePos, Job(p).len, next, end)
  /\ CurrBytePos' = next
  /\ records' = Append(records, [start |-> NextPtr, end |-> end, page |-> IF Exclusive(p) THEN None ELSE p,
                                 image |-> rec[p].image, acked |-> FALSE])
  /\ rec' = [rec EXCEPT ![p] = [start |-> NextPtr, end |-> end, curr |-> NextPtr, left |-> Job(p).len]]
  /\ at' = [at EXCEPT ![p] = "buffer"]
  /\ \/ UNCHANGED <<RedoRecPtr, redo>>
     \/ Exclusive(p) /\ RedoRecPtr' = NextPtr /\ redo' = [redo EXCEPT ![p] = NextPtr]
  /\ UNCHANGED <<insertLock, caller, todo, lockNo, doPageWrites, pageLSN>>

\* The new record, and the older ones.
OneMore(p, n, end) ==
  /\ DOMAIN records = 1..n /\ DOMAIN records' = 1..(n + 1)
  /\ \A i \in 1..n : records'[i] = records[i] /\ records[i] \in Entries
  /\ records'[n + 1].start = NextPtr /\ records'[n + 1].end = end
  /\ records'[n + 1].page = (IF Exclusive(p) THEN None ELSE p) /\ records'[n + 1].image = rec[p].image

\* A reservation adds one record and moves the free space behind it.
LEMMA ReservedRecord ==
  ASSUME RedoInv, NEW p \in Procs, NEW next, NEW end, Reserved(p, next, end)
  PROVE  /\ records' \in Seq(Entries)
         /\ \E n \in Nat : OneMore(p, n, end)
         /\ NextPtr \in Nat /\ NextPtr' \in Nat /\ NextPtr < NextPtr' /\ end \in Nat /\ end <= NextPtr'
         /\ CurrBytePos' \in Nat
<1>1. Typed /\ Proc(p) /\ at[p] = "reserve"
  BY DEF RedoInv, Reserved
<1>2. Job(p) \in Jobs
  BY <1>1, JobsLeft DEF Proc
<1>3. PICK len \in Nat \ {0} : len = Job(p).len
  BY <1>2 DEF Jobs
<1>4. CurrBytePos \in Nat /\ Reserves(CurrBytePos, len, next, end)
  BY <1>1, <1>3 DEF Typed, Reserved
<1>5. next \in Nat /\ CurrBytePos < next /\ end \in Nat /\ end <= XLogBytePosToRecPtr(next)
  BY <1>4, ReservesLater
<1>6. /\ XLogBytePosToRecPtr(CurrBytePos) \in Nat /\ XLogBytePosToRecPtr(next) \in Nat
      /\ XLogBytePosToRecPtr(CurrBytePos) < XLogBytePosToRecPtr(next)
  BY <1>4, <1>5, PointersMonotone
<1>7. NextPtr \in Nat /\ NextPtr' \in Nat /\ NextPtr < NextPtr' /\ end \in Nat /\ end <= NextPtr' /\ CurrBytePos' \in Nat
  BY <1>5, <1>6 DEF NextPtr, Reserved
<1>8. PICK img \in BOOLEAN, pg \in Procs \union {None} :
        img = rec[p].image /\ pg = IF Exclusive(p) THEN None ELSE p
  BY <1>1 DEF Proc
<1>9. PICK entry \in Entries : entry = [start |-> NextPtr, end |-> end, page |-> pg, image |-> img, acked |-> FALSE]
  BY <1>7 DEF Entries
<1>10. records' = Append(records, entry)
  BY <1>8, <1>9 DEF Reserved
<1>11. records \in Seq(Entries)
  BY <1>1 DEF Typed
<1>12. PICK n \in Nat : n = Len(records) /\ DOMAIN records = 1..n /\ \A i \in 1..n : records[i] \in Entries
  BY <1>11, LenProperties, ElementOfSeq
<1>13. /\ records' \in Seq(Entries) /\ Len(records') = n + 1
       /\ \A i \in 1..n : records'[i] = records[i]
       /\ records'[n + 1] = entry
  BY <1>10, <1>11, <1>12, AppendProperties
<1>14. DOMAIN records' = 1..(n + 1)
  BY <1>13, LenProperties
<1>15. /\ records'[n + 1].start = NextPtr /\ records'[n + 1].end = end
       /\ records'[n + 1].page = pg /\ records'[n + 1].image = img
  BY <1>9, <1>13
<1>16. OneMore(p, n, end)
  BY <1>8, <1>12, <1>13, <1>14, <1>15 DEF OneMore
<1> QED BY <1>7, <1>13, <1>16

\* ReserveXLogInsertLocation and ReserveXLogSwitch.
LEMMA ReservedStep ==
  ASSUME RedoInv, NEW p \in Procs, NEW next, NEW end, Reserved(p, next, end)
  PROVE  RedoInv'
<1>1. Typed /\ Ordered /\ ImagesComplete /\ \A q \in Procs : Proc(q)
  BY DEF RedoInv
<1>2. p \in Everyone /\ Procs \subseteq Everyone /\ None \notin Procs /\ Proc(p) /\ at[p] = "reserve"
  BY <1>1, XLogConstants DEF Everyone, Reserved
<1>3. /\ records' \in Seq(Entries) /\ CurrBytePos' \in Nat
      /\ NextPtr \in Nat /\ NextPtr' \in Nat /\ NextPtr < NextPtr' /\ end \in Nat /\ end <= NextPtr'
  BY ReservedRecord
<1>3a. PICK n \in Nat : OneMore(p, n, end)
  BY ReservedRecord
<1>4. /\ DOMAIN records = 1..n /\ DOMAIN records' = 1..(n + 1)
      /\ \A i \in 1..n : records'[i] = records[i] /\ records[i] \in Entries
      /\ records'[n + 1].start = NextPtr /\ records'[n + 1].end = end
      /\ records'[n + 1].page = (IF Exclusive(p) THEN None ELSE p) /\ records'[n + 1].image = rec[p].image
  BY <1>3a DEF OneMore
<1>5. \A i \in 1..n : records[i].start \in Nat /\ records[i].end \in Nat
  BY <1>4 DEF Entries
<1>6. /\ RedoRecPtr \in Nat /\ RedoRecPtr <= NextPtr
      /\ \A i \in 1..n : /\ records[i].start < NextPtr /\ records[i].end <= NextPtr
                         /\ records[i].end <= RedoRecPtr \/ records[i].start >= RedoRecPtr
  BY <1>1, <1>4 DEF Typed, Ordered
<1>7. RedoRecPtr' = RedoRecPtr \/ (RedoRecPtr' = NextPtr /\ Exclusive(p))
  BY DEF Reserved
<1>8. Typed'
  BY <1>1, <1>3, <1>6, <1>7 DEF Typed, Reserved
<1>9. Grows
  BY <1>4 DEF Grows
<1>10. Ordered'
  <2>1. RedoRecPtr' \in Nat /\ RedoRecPtr' <= NextPtr'
    BY <1>3, <1>6, <1>7
  <2>2. ASSUME NEW i \in 1..n
        PROVE  /\ records'[i].start < NextPtr' /\ records'[i].end <= NextPtr'
               /\ records'[i].end <= RedoRecPtr' \/ records'[i].start >= RedoRecPtr'
    <3>1. PICK a \in Nat, b \in Nat : a = records[i].start /\ b = records[i].end
      BY <1>5
    <3>2. a = records'[i].start /\ b = records'[i].end
      BY <1>4, <3>1
    <3>3. a < NextPtr /\ b <= NextPtr /\ (b <= RedoRecPtr \/ a >= RedoRecPtr)
      BY <1>6, <3>1
    <3> QED BY <1>3, <1>6, <1>7, <3>2, <3>3
  <2>3. /\ records'[n + 1].start < NextPtr' /\ records'[n + 1].end <= NextPtr'
        /\ records'[n + 1].start >= RedoRecPtr'
    BY <1>3, <1>4, <1>6, <1>7
  <2>4. \A i \in DOMAIN records' : i \in 1..n \/ i = n + 1
    BY <1>4
  <2> QED BY <2>1, <2>2, <2>3, <2>4 DEF Ordered
<1>11. ImagesComplete'
  <2> SUFFICES ASSUME NEW i \in DOMAIN records', records'[i].page # None, records'[i].start >= RedoRecPtr',
                      \A j \in 1..(i - 1) : records'[j].page = records'[i].page => records'[j].start < RedoRecPtr'
               PROVE  records'[i].image
    BY DEF ImagesComplete
  <2>1. CASE i \in 1..n
    <3>1. RedoRecPtr' = RedoRecPtr
      <4>1. records'[i].start < NextPtr /\ records'[i].start \in Nat
        BY <1>4, <1>5, <1>6, <2>1
      <4> QED BY <1>3, <1>7, <4>1
    <3>2. \A j \in 1..(i - 1) : j \in 1..n
      BY <2>1
    <3>3. \A j \in 1..(i - 1) : records[j].page = records[i].page => records[j].start < RedoRecPtr
      BY <1>4, <2>1, <3>1, <3>2
    <3>4. records[i].page # None /\ records[i].start >= RedoRecPtr
      BY <1>4, <2>1, <3>1
    <3>5. records[i].image
      BY <1>1, <1>4, <2>1, <3>3, <3>4 DEF ImagesComplete
    <3> QED BY <1>4, <2>1, <3>5
  <2>2. CASE i = n + 1
    <3>1. ~Exclusive(p) /\ records'[i].page = p /\ RedoRecPtr' = RedoRecPtr
      BY <1>4, <1>7, <2>2
    <3>2. SUFFICES ASSUME ~rec[p].image PROVE FALSE
      BY <1>4, <2>2
    <3>3. pageLSN[p] > RedoRecPtr /\ pageLSN[p] \in Nat
      BY <1>2, <3>1, <3>2 DEF Proc
    <3>4. pageLSN[p] # 0
      BY <1>6, <3>3
    <3>5. PICK j \in DOMAIN records : records[j].page = p /\ records[j].end = pageLSN[p]
      BY <1>2, <3>4 DEF Proc, Logged
    <3>6. j \in 1..n /\ j \in 1..(i - 1)
      BY <1>4, <2>2, <3>5
    <3>7. PICK a \in Nat, b \in Nat : a = records[j].start /\ b = records[j].end
      BY <1>5, <3>6
    <3>8. b > RedoRecPtr /\ (b <= RedoRecPtr \/ a >= RedoRecPtr)
      BY <1>6, <3>3, <3>5, <3>6, <3>7
    <3>9. records'[j].page = p /\ records'[j].start = a
      BY <1>4, <3>5, <3>6, <3>7
    <3>10. a < RedoRecPtr
      BY <3>1, <3>6, <3>9
    <3> QED BY <1>6, <3>7, <3>8, <3>10
  <2> QED BY <1>4, <2>1, <2>2
<1>12. ASSUME NEW q \in Procs PROVE Proc(q)'
  <2>1. Held(q)' = Held(q) /\ Proc(q)
    BY <1>1 DEF Held, Reserved
  <2>2. CASE q # p
    <3>1. Same(q)
      BY <1>1, <1>2, <2>2 DEF Same, Typed, Reserved
    <3>2. RedoRecPtr' = RedoRecPtr \/ at[q] # "reserve"
      <4>1. Exclusive(p) => Held(p) = Locks
        BY <1>2 DEF Proc
      <4> QED BY <1>7, <2>2, <4>1, AloneWithAll
    <3> QED BY <1>9, <2>1, <3>1, <3>2, OtherProc
  <2>3. CASE q = p
    <3>1. at'[p] = "buffer" /\ caller'[p] = caller[p] /\ caller[p] # "flush"
      BY <1>1, <1>2 DEF Typed, Reserved, Proc, Flushing
    <3>2. Held(p) # {}
      BY <1>2, <3>1 DEF Proc, Free
    <3>3. ~Free(p)' /\ Held(p)' # {}
      BY <2>1, <2>3, <3>1, <3>2 DEF Free
    <3>4. /\ todo'[p] \in Seq(Jobs) /\ lockNo'[p] \in Locks /\ todo'[p] # <<>>
          /\ doPageWrites'[p] \in BOOLEAN /\ pageLSN'[p] \in Nat /\ pageLSN'[p] = pageLSN[p]
      BY <1>2 DEF Proc, Reserved
    <3>5. redo'[p] \in Nat
      BY <1>1, <1>2, <1>3 DEF Typed, Proc, Reserved
    <3>6. Exclusive(p)' <=> Exclusive(p)
      BY DEF Exclusive, Job, Reserved
    <3>7. rec'[p].end = end /\ "end" \in DOMAIN rec'[p]
      BY <1>1 DEF Typed, Reserved
    <3>8. Exclusive(p)' \/ Logged(p, rec[p].end)'
      <4>1. n + 1 \in DOMAIN records'
        BY <1>4
      <4> QED BY <1>4, <3>6, <3>7, <4>1 DEF Logged
    <3>9. pageLSN'[p] # 0 => Logged(p, pageLSN[p])'
      BY <1>2, <1>9, <3>4 DEF Proc, Logged, Grows
    <3> QED BY <2>3, <3>1, <3>3, <3>4, <3>5, <3>7, <3>8, <3>9 DEF Proc
  <2> QED BY <2>2, <2>3
<1> QED BY <1>8, <1>10, <1>11, <1>12 DEF RedoInv

\* ReserveXLogInsertLocation.
LEMMA StepReserve ==
  ASSUME RedoInv, NEW p \in Procs, ReserveXLogInsertLocation(p)
  PROVE  RedoInv'
<1>1. Typed
  BY DEF RedoInv
<1>2. PICK next, end : /\ next = CurrBytePos + Job(p).len /\ end = XLogBytePosToEndRecPtr(next)
                       /\ Reserve(p, next, end)
  BY DEF ReserveXLogInsertLocation
<1>3. Reserves(CurrBytePos, Job(p).len, next, end)
  BY <1>2 DEF Reserves
<1>4. \/ UNCHANGED <<RedoRecPtr, redo>>
      \/ Exclusive(p) /\ RedoRecPtr' = NextPtr /\ redo' = [redo EXCEPT ![p] = NextPtr]
  BY DEF ReserveXLogInsertLocation, Exclusive, NextPtr
<1>5. UNCHANGED <<insertLock, caller, todo, lockNo, doPageWrites, pageLSN>> /\ at[p] = "reserve"
  BY DEF ReserveXLogInsertLocation
<1>6. Reserved(p, next, end)
  BY <1>2, <1>3, <1>4, <1>5 DEF Reserved, Reserve, NextPtr
<1> QED BY <1>6, ReservedStep

\* ReserveXLogSwitch.
LEMMA StepSwitch ==
  ASSUME RedoInv, NEW p \in Procs, ReserveXLogSwitch(p)
  PROVE  RedoInv'
<1>1. p \in Everyone /\ Procs \subseteq Everyone
  BY DEF Everyone
<1>2. Typed /\ Proc(p) /\ at[p] = "reserve" /\ Exclusive(p)
  BY DEF RedoInv, ReserveXLogSwitch, Exclusive
<1>3. /\ UNCHANGED <<RedoRecPtr, insertLock, caller, todo, lockNo, redo, doPageWrites, pageLSN>>
  BY DEF ReserveXLogSwitch
<1>4. CASE XLogBytePosToEndRecPtr(CurrBytePos) % SegSize = 0
  <2>1. PICK ptr : rec' = [rec EXCEPT ![p] = [start |-> ptr, end |-> ptr, curr |-> ptr, left |-> 0]]
    BY <1>4 DEF ReserveXLogSwitch
  <2>2. at' = [at EXCEPT ![p] = "release"] /\ UNCHANGED <<CurrBytePos, records>>
    BY <1>4 DEF ReserveXLogSwitch
  <2>3. Typed'
    BY <1>2, <1>3, <2>1, <2>2 DEF Typed
  <2>4. \A q \in Procs \ {p} : Same(q) /\ Held(q)' = Held(q)
    BY <1>1, <1>2, <1>3, <2>1, <2>2 DEF Typed, Same, Held
  <2>5. at'[p] = "release" /\ caller'[p] # "flush" /\ Held(p)' = Held(p)
    BY <1>1, <1>2, <1>3, <2>2 DEF Typed, Proc, Flushing, Held
  <2>6. Held(p) # {} /\ ~Free(p)'
    BY <1>2, <1>3, <2>5 DEF Proc, Free
  <2>7. Exclusive(p)' /\ "end" \in DOMAIN rec'[p]
    BY <1>2, <1>3, <2>1 DEF Typed, Exclusive, Job
  <2>8. pageLSN'[p] # 0 => Logged(p, pageLSN[p])'
    BY <1>2, <1>3, <2>2 DEF Proc, Logged
  <2>9. /\ todo'[p] \in Seq(Jobs) /\ lockNo'[p] \in Locks /\ todo'[p] # <<>>
        /\ redo'[p] \in Nat /\ doPageWrites'[p] \in BOOLEAN /\ pageLSN'[p] \in Nat
    BY <1>2, <1>3 DEF Proc
  <2>10. Proc(p)'
    BY <2>5, <2>6, <2>7, <2>8, <2>9 DEF Proc
  <2> QED BY <1>3, <2>2, <2>3, <2>4, <2>10, StillOthers
<1>5. CASE XLogBytePosToEndRecPtr(CurrBytePos) % SegSize # 0
  <2>1. PICK next, end :
          LET e == XLogBytePosToEndRecPtr(CurrBytePos + Job(p).len)
          IN  /\ end = IF e % SegSize = 0 THEN e ELSE e - (e % SegSize) + SegSize
              /\ next = XLogRecPtrToBytePos(end) /\ Reserve(p, next, end)
    BY <1>5 DEF ReserveXLogSwitch
  <2>2. Reserves(CurrBytePos, Job(p).len, next, end)
    BY <1>5, <2>1 DEF Reserves
  <2>3. Reserved(p, next, end)
    BY <1>2, <1>3, <2>1, <2>2 DEF Reserved, Reserve, NextPtr
  <2> QED BY <2>3, ReservedStep
<1> QED BY <1>4, <1>5

\* The byte position of the end of the log is a number.
LEMMA StartBytePos ==
  ASSUME NEW end \in Starts
  PROVE  XLogRecPtrToBytePos(end) \in Nat
<1>1. end \in Nat /\ (end % XLOG_BLCKSZ = 0 \/ end % XLOG_BLCKSZ > HeaderSize(end))
  BY XLogConstants, PositionsAssumption
<1>2. PICK s \in Nat, o \in Nat : s = end \div SegSize /\ o = end % SegSize
  BY <1>1, Sizes, Quotient
<1>3. PICK page \in Nat : page = o \div XLOG_BLCKSZ
  BY Sizes, Quotient
<1>4. PICK off \in Nat : off = end % XLOG_BLCKSZ
  BY <1>1, Sizes, Quotient
<1>5. HeaderSize(end) \in Nat
  BY Sizes DEF HeaderSize
<1>6. PICK x \in Nat : x = s * UsableBytesInSegment
  BY Sizes
<1>7. PICK y \in Nat : y = IF page = 0 THEN 0 ELSE FirstPageBytes + (page - 1) * UsableBytesInPage
  <2>1. CASE page = 0
    BY <2>1
  <2>2. CASE page # 0
    <3>1. PICK m \in Nat : m = page - 1
      BY <2>2
    <3>2. PICK z \in Nat : z = m * UsableBytesInPage
      BY Sizes
    <3> QED BY <2>2, <3>1, <3>2, Sizes
  <2> QED BY <2>1, <2>2
<1>8. PICK w \in Nat : w = IF off = 0 THEN 0 ELSE off - HeaderSize(end)
  BY <1>1, <1>4, <1>5
<1>9. XLogRecPtrToBytePos(end) = x + y + w
  BY <1>2, <1>3, <1>4, <1>6, <1>7, <1>8 DEF XLogRecPtrToBytePos
<1> QED BY <1>9

\* The state after StartupXLOG.
LEMMA InitRedoInv == Init => RedoInv
<1> SUFFICES ASSUME Init PROVE RedoInv
  OBVIOUS
<1>1. PICK end \in Starts, plan \in Plans :
        /\ CurrBytePos = XLogRecPtrToBytePos(end) /\ RedoRecPtr = 0 /\ records = <<>>
        /\ insertLock = [l \in Locks |-> None] /\ at = [p \in Everyone |-> "idle"]
        /\ caller = [p \in Everyone |-> None] /\ todo = plan /\ rec = [p \in Procs |-> None]
        /\ lockNo = [p \in Procs |-> 1 + (p % All)] /\ redo = [p \in Procs |-> 0]
        /\ doPageWrites = [p \in Procs |-> FALSE] /\ pageLSN = [p \in Procs |-> 0]
  BY DEF Init, Invalid
<1>2. Procs \subseteq Everyone /\ None \notin Procs /\ None # "flush" /\ Procs \subseteq Nat
  BY XLogConstants DEF Everyone
<1>3. DOMAIN todo = Everyone /\ \A p \in Procs : todo[p] \in Seq(Jobs)
  BY <1>1, XLogConstants DEF Everyone
<1>4. CurrBytePos \in Nat
  BY <1>1, StartBytePos
<1>5. <<>> \in Seq(Entries) /\ DOMAIN records = {}
  BY <1>1
<1>6. Typed
  BY <1>1, <1>3, <1>4, <1>5 DEF Typed
<1>7. NextPtr \in Nat
  BY <1>4, PointersMonotone DEF NextPtr
<1>8. Ordered
  BY <1>1, <1>5, <1>7 DEF Ordered
<1>9. ImagesComplete
  BY <1>5 DEF ImagesComplete
<1>10. ASSUME NEW p \in Procs PROVE Proc(p)
  <2>1. at[p] = "idle" /\ caller[p] # "flush" /\ redo[p] = 0 /\ doPageWrites[p] = FALSE /\ pageLSN[p] = 0
    BY <1>1, <1>2
  <2>2. Held(p) = {} /\ Free(p)
    BY <1>1, <1>2, <2>1 DEF Held, Free
  <2>3. lockNo[p] \in Locks
    <3>1. All \in Nat \ {0} /\ Locks = 1..All /\ p \in Nat
      BY <1>2, LocksNumbered
    <3>2. 1 + (p % All) \in 1..All
      BY <3>1
    <3> QED BY <1>1, <3>1, <3>2
  <2>4. redo[p] \in Nat /\ pageLSN[p] \in Nat /\ pageLSN[p] = 0
    BY <2>1
  <2>5. doPageWrites[p] \in BOOLEAN
    BY <2>1
  <2>6. todo[p] \in Seq(Jobs)
    BY <1>3
  <2>7. at[p] = "idle" /\ caller[p] # "flush"
    BY <2>1
  <2> QED BY <2>2, <2>3, <2>4, <2>5, <2>6, <2>7 DEF Proc, Before
<1> QED BY <1>6, <1>8, <1>9, <1>10 DEF RedoInv

\* Nothing happens.
LEMMA StutterRedoInv ==
  ASSUME RedoInv, UNCHANGED vars
  PROVE  RedoInv'
<1>1. Typed /\ Ordered /\ ImagesComplete /\ \A q \in Procs : Proc(q)
  BY DEF RedoInv
<1>2. UNCHANGED <<CurrBytePos, RedoRecPtr, records, insertLock, at, caller, todo, rec, lockNo, redo, doPageWrites, pageLSN>>
  BY DEF vars
<1>3. Typed'
  BY <1>1, <1>2 DEF Typed
<1>4. Ordered' /\ ImagesComplete' /\ Grows
  BY <1>1, <1>2, SameRecords, KeptRecords
<1>5. ASSUME NEW q \in Procs PROVE Proc(q)'
  <2>1. Held(q)' = Held(q) /\ Same(q)
    BY <1>2 DEF Held, Same
  <2> QED BY <1>1, <1>2, <1>4, <2>1, OtherProc
<1> QED BY <1>3, <1>4, <1>5 DEF RedoInv

\* Every step.
LEMMA NextRedoInv == RedoInv /\ [Next]_vars => RedoInv'
<1> SUFFICES ASSUME RedoInv, [Next]_vars PROVE RedoInv'
  OBVIOUS
<1>1. Procs \subseteq Everyone /\ WalWriter \in Everyone
  BY DEF Everyone
<1>2. ASSUME NEW p \in Everyone, Plain(p) PROVE RedoInv'
  BY <1>2, PlainStep
<1>3. ASSUME NEW p \in Procs, XLogInsertRecord(p) \/ XLogFlush(p) \/ AcquireOrWait(p) \/ FlushLocked(p) PROVE RedoInv'
  BY <1>1, <1>2, <1>3, StepLockBusy, StepLockAcquire, StepLockAll, StepReserve, StepSwitch, PlainSteps, StepLockRelease,
     StepInserted, StepXLogFlush, StepFlushLocked DEF XLogInsertRecord
<1>4. ASSUME NEW p \in Everyone, WaitXLogInsertionsToFinish(p) \/ AdvanceXLInsertBuffer(p) \/ XLogWrite(p) PROVE RedoInv'
  BY <1>2, <1>4, PlainSteps, StepPublishFlush DEF WaitXLogInsertionsToFinish, AdvanceXLInsertBuffer, XLogWrite
<1>5. CASE XLogBackgroundFlush \/ Done \/ UNCHANGED vars
  BY <1>1, <1>2, <1>5, PlainBackgroundFlush, StutterRedoInv DEF Done
<1> QED BY <1>3, <1>4, <1>5 DEF Next

(***************************************************************************)
(* XLogInsert decides about the image of a data page from a copy of the    *)
(* redo pointer that may be old; the check under the insertion lock, and   *)
(* the checkpointer's taking all of them to move the pointer, make up for  *)
(* it: the first record of every page behind the redo pointer has an image.*)
(***************************************************************************)
THEOREM ImagesCompleteHolds == Spec => []ImagesComplete
<1>1. RedoInv => ImagesComplete
  BY DEF RedoInv
<1> QED BY <1>1, InitRedoInv, NextRedoInv, PTL DEF Spec

(***************************************************************************)
(* Who waits for whom.                                                     *)
(***************************************************************************)

\* Pages are initialised in order, and positions are numbers.
PositionsOK ==
  /\ InitializedUpTo \in Nat /\ InitializedUpTo % XLOG_BLCKSZ = 0
  /\ DOMAIN xlblocks = 0..(XLogBuffers - 1)
  /\ \A i \in 0..(XLogBuffers - 1) : xlblocks[i] \in Nat /\ xlblocks[i] <= InitializedUpTo
  /\ XLogBytePosToEndRecPtr(CurrBytePos) <= Horizon
  /\ logInsertResult \in Nat
  /\ DOMAIN insertingAt = Locks /\ \A l \in Locks : insertingAt[l] \in Nat

\* Who holds WALWriteLock or WALBufMappingLock waits for nobody.
Writing == {"flushLocked", "write", "sync", "publishWrite", "publishFlush", "panic"}
HoldersMove ==
  /\ \A l \in Locks : insertLock[l] \in Procs \union {None}
  /\ WALBufMappingLock # None => WALBufMappingLock \in Everyone /\ at[WALBufMappingLock] = "advance"
  /\ WALWriteLock # None => WALWriteLock \in Everyone /\ at[WALWriteLock] \in Writing
  /\ at[WalWriter] \notin {"lockWait", "lockAll"}

\* WaitXLogInsertionsToFinish knows how far it has got.
WaitOK(p) ==
  at[p] = "waitVar" => /\ DOMAIN wait[p] = {"upto", "finished", "lock", "value"}
                       /\ wait[p].finished \in Nat

\* A backend inserts a record: it holds its lock, or all of them.
Inserts(p) == ~Free(p) /\ at[p] \notin {"lockAll", "release"}
LocksOf(p) == IF Exclusive(p) THEN Held(p) = Locks ELSE \E l \in Locks : Held(p) = {l}

\* The places of AdvanceXLInsertBuffer: the backend has said how far it is, and what it waits
\* for is before that.
Advancing == {"map", "advance", "wait", "waitVar", "writeLock", "write", "sync", "publishWrite", "publishFlush"}
Position(p) == insertingAt[Max(Held(p))]

Inserter(p) ==
  /\ Inserts(p) => LocksOf(p)
  /\ Inserts(p) => \A l \in Held(p) \ {Max(Held(p))} : insertingAt[l] = MaxPtr
  /\ at[p] = "lockAll" => \A l \in Held(p) : insertingAt[l] = MaxPtr
  /\ Inserts(p) /\ at[p] # "reserve" =>
       /\ DOMAIN rec[p] = {"start", "end", "curr", "left"} /\ rec[p].curr \in Nat /\ rec[p].left \in Nat
       /\ CurrBytePos >= 1
  /\ Inserts(p) /\ at[p] \in Advancing => Position(p) = InitializedPart(rec[p].curr)
  /\ Inserts(p) /\ at[p] \in {"wait", "waitVar"} => wait[p].upto \in Nat /\ wait[p].upto <= Position(p)
  /\ Inserts(p) /\ at[p] = "waitVar" =>
       /\ wait[p].upto >= 1 /\ wait[p].upto <= Horizon
       /\ wait[p].value \in Nat /\ (wait[p].value = 0 \/ wait[p].value < wait[p].upto)

WaitInv ==
  /\ PositionsOK /\ HoldersMove /\ DOMAIN wait = Everyone
  /\ \A p \in Everyone : WaitOK(p)
  /\ \A p \in Procs : Inserter(p)

\* The lock an inserter tells its position in is one of its own.
LEMMA TopLock ==
  ASSUME NEW p, LocksOf(p)
  PROVE  Max(Held(p)) \in Held(p) /\ Held(p) \subseteq Locks
<1>1. All \in Nat \ {0} /\ Locks = 1..All
  BY LocksNumbered
<1>2. PICK l \in Held(p) : \A m \in Held(p) : l >= m
  <2>1. CASE Exclusive(p)
    <3>1. Held(p) = 1..All
      BY <1>1, <2>1 DEF LocksOf
    <3>2. All \in Held(p) /\ \A m \in Held(p) : All >= m
      BY <1>1, <3>1
    <3> QED BY <3>2
  <2>2. CASE ~Exclusive(p)
    <3>1. PICK l \in Locks : Held(p) = {l}
      BY <2>2 DEF LocksOf
    <3>2. l \in Nat
      BY <1>1
    <3> QED BY <3>1, <3>2
  <2> QED BY <2>1, <2>2
<1>3. (CHOOSE x \in Held(p) : \A m \in Held(p) : x >= m) \in Held(p)
  BY <1>2
<1>4. Held(p) \subseteq Locks
  BY DEF Held
<1> QED BY <1>3, <1>4 DEF Max

\* The others while p moves.
Still(p) ==
  /\ \A q \in Procs \ {p} : Same(q) /\ Held(q)' = Held(q) /\ \A l \in Held(q) : insertingAt'[l] = insertingAt[l]
  /\ \A q \in Everyone \ {p} : at'[q] = at[q] /\ wait'[q] = wait[q]
  /\ DOMAIN wait' = Everyone

\* An inserter that does nothing.
LEMMA OtherInserter ==
  ASSUME NEW q \in Procs, Inserter(q), Same(q), Held(q)' = Held(q), wait'[q] = wait[q],
         \A l \in Held(q) : insertingAt'[l] = insertingAt[l],
         CurrBytePos \in Nat, CurrBytePos' \in Nat, CurrBytePos <= CurrBytePos'
  PROVE  Inserter(q)'
<1>1. Exclusive(q)' <=> Exclusive(q)
  BY DEF Same, Exclusive, Job
<1>2. Free(q)' <=> Free(q)
  BY DEF Same, Free
<1>3. Inserts(q)' <=> Inserts(q)
  BY <1>2 DEF Inserts, Same
<1>4. LocksOf(q)' <=> LocksOf(q)
  BY <1>1 DEF LocksOf
<1>5. ASSUME Inserts(q) PROVE Position(q)' = Position(q)
  <2>1. LocksOf(q)
    BY <1>5 DEF Inserter
  <2>2. Max(Held(q)) \in Held(q)
    BY <2>1, TopLock
  <2>3. Max(Held(q))' = Max(Held(q))
    BY DEF Max
  <2> QED BY <2>2, <2>3 DEF Position
<1>6. InitializedPart(rec[q].curr)' = InitializedPart(rec[q].curr)
  BY DEF Same, InitializedPart, HeaderSize, PageBegin
<1>7. Inserts(q) => LocksOf(q)'
  BY <1>4 DEF Inserter
<1>8. at'[q] = "lockAll" => \A l \in Held(q)' : insertingAt'[l] = MaxPtr
  BY DEF Inserter, Same
<1>9. Inserts(q) /\ at'[q] # "reserve" =>
       /\ DOMAIN rec'[q] = {"start", "end", "curr", "left"} /\ rec'[q].curr \in Nat /\ rec'[q].left \in Nat
       /\ CurrBytePos' >= 1
  BY DEF Inserter, Same
<1>10. Inserts(q) /\ at'[q] \in Advancing => Position(q)' = InitializedPart(rec[q].curr)'
  BY <1>5, <1>6 DEF Inserter, Same
<1>11. Inserts(q) /\ at'[q] \in {"wait", "waitVar"} => wait'[q].upto \in Nat /\ wait'[q].upto <= Position(q)'
  BY <1>5 DEF Inserter, Same
<1>12. Inserts(q) /\ at'[q] = "waitVar" =>
       /\ wait'[q].upto >= 1 /\ wait'[q].upto <= Horizon
       /\ wait'[q].value \in Nat /\ (wait'[q].value = 0 \/ wait'[q].value < wait'[q].upto)
  BY DEF Inserter, Same
<1>13. Inserts(q) => \A l \in (Held(q) \ {Max(Held(q))})' : insertingAt'[l] = MaxPtr
  <2>1. Max(Held(q))' = Max(Held(q))
    BY DEF Max
  <2> QED BY <2>1 DEF Inserter
<1> QED BY <1>3, <1>7, <1>8, <1>9, <1>10, <1>11, <1>12, <1>13 DEF Inserter

\* A step of p, put together.
LEMMA WaitInvStep ==
  ASSUME RedoInv, RedoInv', WaitInv, NEW p \in Everyone, Still(p), CurrBytePos <= CurrBytePos',
         PositionsOK', HoldersMove', WaitOK(p)', p \in Procs => Inserter(p)'
  PROVE  WaitInv'
<1>1. CurrBytePos \in Nat /\ CurrBytePos' \in Nat /\ Procs \subseteq Everyone
  BY DEF RedoInv, Typed, Everyone
<1>2. ASSUME NEW q \in Procs PROVE Inserter(q)'
  <2>1. CASE q # p
    <3>1. /\ Inserter(q) /\ Same(q) /\ Held(q)' = Held(q) /\ wait'[q] = wait[q]
          /\ \A l \in Held(q) : insertingAt'[l] = insertingAt[l]
      BY <1>1, <2>1 DEF WaitInv, Still
    <3> QED BY <1>1, <3>1, OtherInserter
  <2> QED BY <2>1
<1>3. ASSUME NEW q \in Everyone PROVE WaitOK(q)'
  <2>1. CASE q # p
    <3>1. WaitOK(q) /\ at'[q] = at[q] /\ wait'[q] = wait[q]
      BY <2>1 DEF WaitInv, Still
    <3> QED BY <3>1 DEF WaitOK
  <2> QED BY <2>1
<1>4. DOMAIN wait' = Everyone
  BY DEF Still
<1> QED BY <1>2, <1>3, <1>4 DEF WaitInv

\* A process that holds no insertion lock is no inserter.
LEMMA FreeInserter ==
  ASSUME NEW p \in Procs, Free(p)', at'[p] # "lockAll"
  PROVE  Inserter(p)'
BY DEF Inserter, Inserts

\* A plain step of an inserter that keeps its position and its record.
LEMMA PlainInserter ==
  ASSUME RedoInv, WaitInv, NEW p \in Procs, Plain(p), UNCHANGED insertingAt, rec'[p] = rec[p], at[p] # "release",
         Inserts(p) /\ at'[p] \in Advancing => at[p] \in Advancing,
         Inserts(p) /\ at'[p] \in {"wait", "waitVar"} => wait'[p].upto \in Nat /\ wait'[p].upto <= Position(p),
         Inserts(p) /\ at'[p] = "waitVar" =>
           /\ wait'[p].upto >= 1 /\ wait'[p].upto <= Horizon
           /\ wait'[p].value \in Nat /\ (wait'[p].value = 0 \/ wait'[p].value < wait'[p].upto)
  PROVE  Inserter(p)'
<1>1. Inserter(p) /\ at[p] \notin Before /\ at'[p] \notin Before /\ CurrBytePos' = CurrBytePos
  BY DEF WaitInv, Plain
<1>2. at[p] # "lockAll" /\ at[p] # "reserve" /\ at'[p] # "lockAll" /\ at'[p] # "reserve"
  BY <1>1 DEF Before
<1>3. Held(p)' = Held(p) /\ (Exclusive(p)' <=> Exclusive(p)) /\ (Free(p)' <=> Free(p))
  BY DEF Plain, Held, Exclusive, Job
<1>4. Inserts(p)' => Inserts(p)
  BY <1>2, <1>3 DEF Inserts
<1>5. LocksOf(p)' <=> LocksOf(p)
  BY <1>3 DEF LocksOf
<1>6. Position(p)' = Position(p)
  BY <1>3 DEF Position, Max
<1>7. InitializedPart(rec[p].curr)' = InitializedPart(rec[p].curr)
  BY DEF InitializedPart, HeaderSize, PageBegin
<1>8. Inserts(p) => LocksOf(p)'
  BY <1>1, <1>5 DEF Inserter
<1>9. Inserts(p) =>
       /\ DOMAIN rec'[p] = {"start", "end", "curr", "left"} /\ rec'[p].curr \in Nat /\ rec'[p].left \in Nat
       /\ CurrBytePos' >= 1
  BY <1>1, <1>2 DEF Inserter
<1>10. Inserts(p) /\ at'[p] \in Advancing => Position(p)' = InitializedPart(rec[p].curr)'
  BY <1>1, <1>6, <1>7 DEF Inserter
<1>11. Inserts(p) /\ at'[p] \in {"wait", "waitVar"} => wait'[p].upto \in Nat /\ wait'[p].upto <= Position(p)'
  BY <1>6
<1>12. Inserts(p) => \A l \in (Held(p) \ {Max(Held(p))})' : insertingAt'[l] = MaxPtr
  <2>1. Max(Held(p))' = Max(Held(p))
    BY <1>3 DEF Max
  <2> QED BY <1>1, <1>3, <2>1 DEF Inserter
<1> QED BY <1>2, <1>4, <1>8, <1>9, <1>10, <1>11, <1>12 DEF Inserter

\* The holders of the two locks after a step of one process.
LEMMA HoldersStep ==
  ASSUME HoldersMove, NEW p \in Everyone, \A q \in Everyone \ {p} : at'[q] = at[q],
         \A l \in Locks : insertLock'[l] \in Procs \union {None},
         WALBufMappingLock' \in {WALBufMappingLock, None, p}, WALBufMappingLock' = p => at'[p] = "advance",
         WALWriteLock' \in {WALWriteLock, None, p}, WALWriteLock' = p => at'[p] \in Writing,
         p = WalWriter => at'[p] \notin {"lockWait", "lockAll"}
  PROVE  HoldersMove'
<1>1. WalWriter \in Everyone
  BY DEF Everyone
<1>2. at'[WalWriter] \notin {"lockWait", "lockAll"}
  BY <1>1 DEF HoldersMove
<1>3. WALBufMappingLock' # None => WALBufMappingLock' \in Everyone /\ at'[WALBufMappingLock'] = "advance"
  BY DEF HoldersMove
<1>4. WALWriteLock' # None => WALWriteLock' \in Everyone /\ at'[WALWriteLock'] \in Writing
  BY DEF HoldersMove
<1> QED BY <1>2, <1>3, <1>4 DEF HoldersMove, Writing

\* What everybody else keeps while p does what needs no change of insertion locks.
LEMMA StillSteps ==
  ASSUME Typed, DOMAIN wait = Everyone, NEW p \in Everyone,
         \/ p \in Procs /\ (LookAgain(p) \/ AcquireOrWait(p) \/ WALInsertLockBusy(p) \/ Inserted(p)
                            \/ XLogFlush(p) \/ FlushLocked(p))
         \/ MapLock(p) \/ TakeWriteLock(p) \/ WritePage(p) \/ SyncFile(p) \/ PublishWrite(p) \/ WaitEnd(p)
         \/ PublishFlush(p) \/ WaitForVar(p) \/ WaitStart(p) \/ Advance(p)
         \/ p = WalWriter /\ XLogBackgroundFlush
  PROVE  Still(p)
<1>1. Procs \subseteq Everyone /\ WalWriter \notin Procs
  BY XLogConstants DEF Everyone
<1>2. /\ UNCHANGED <<insertLock, insertingAt>> /\ DOMAIN wait' = Everyone
      /\ \A q \in Everyone \ {p} : at'[q] = at[q] /\ wait'[q] = wait[q]
      /\ \A q \in Procs \ {p} : Same(q)
  <2>1. CASE p \in Procs /\ LookAgain(p) BY <1>1, <2>1 DEF Typed, LookAgain, Same
  <2>2. CASE MapLock(p) BY <1>1, <2>2 DEF Typed, MapLock, Same
  <2>3. CASE TakeWriteLock(p) BY <1>1, <2>3 DEF Typed, TakeWriteLock, Same
  <2>4. CASE WritePage(p) BY <1>1, <2>4 DEF Typed, WritePage, Same
  <2>5. CASE SyncFile(p) BY <1>1, <2>5 DEF Typed, SyncFile, Same
  <2>6. CASE PublishWrite(p) BY <1>1, <2>6 DEF Typed, PublishWrite, Same
  <2>7. CASE p \in Procs /\ AcquireOrWait(p) BY <1>1, <2>7 DEF Typed, AcquireOrWait, Same
  <2>8. CASE WaitEnd(p) BY <1>1, <2>8 DEF Typed, WaitEnd, AfterWait, Larger, Same
  <2>9. CASE p \in Procs /\ WALInsertLockBusy(p) BY <1>1, <2>9 DEF Typed, WALInsertLockBusy, Idle, Same
  <2>10. CASE p \in Procs /\ Inserted(p) BY <1>1, <2>10 DEF Typed, Inserted, Same
  <2>11. CASE p \in Procs /\ XLogFlush(p) BY <1>1, <2>11 DEF Typed, XLogFlush, FlushReturns, CallWait, Same
  <2>12. CASE p \in Procs /\ FlushLocked(p) BY <1>1, <2>12 DEF Typed, FlushLocked, FlushReturns, Same
  <2>13. CASE PublishFlush(p) BY <1>1, <2>13 DEF Typed, PublishFlush, FlushReturns, Same
  <2>14. CASE WaitForVar(p) BY <1>1, <2>14 DEF Typed, WaitForVar, Same
  <2>15. CASE WaitStart(p) BY <1>1, <2>15 DEF Typed, WaitStart, AfterWait, CallWait, Same
  <2>16. CASE p = WalWriter /\ XLogBackgroundFlush BY <1>1, <2>16 DEF Typed, XLogBackgroundFlush, CallWait, Same
  <2>17. CASE Advance(p) BY <1>1, <2>17 DEF Typed, Advance, InitializePage, CallWait, Opportunistic, Same
  <2> QED BY <2>1, <2>2, <2>3, <2>4, <2>5, <2>6, <2>7, <2>8, <2>9, <2>10, <2>11, <2>12, <2>13, <2>14, <2>15,
     <2>16, <2>17
<1> QED BY <1>2 DEF Still, Held

\* Steps that begin no wait for an insertion.
LEMMA WaitSteps ==
  ASSUME RedoInv, RedoInv', WaitInv, NEW p \in Everyone,
         \/ p \in Procs /\ (LookAgain(p) \/ AcquireOrWait(p))
         \/ MapLock(p) \/ TakeWriteLock(p) \/ WritePage(p) \/ SyncFile(p) \/ PublishWrite(p)
  PROVE  WaitInv'
<1>1. p \in Everyone /\ Distinct
  BY XLogConstants DEF Everyone
<1>2. Typed /\ PositionsOK /\ HoldersMove /\ WaitOK(p) /\ DOMAIN wait = Everyone
  BY <1>1 DEF RedoInv, WaitInv
<1>3. UNCHANGED <<CurrBytePos, InitializedUpTo, xlblocks, insertLock, insertingAt>>
  <2>1. CASE p \in Procs /\ LookAgain(p) BY <2>1 DEF LookAgain
  <2>2. CASE MapLock(p) BY <2>2 DEF MapLock
  <2>3. CASE TakeWriteLock(p) BY <2>3 DEF TakeWriteLock
  <2>4. CASE WritePage(p) BY <2>4 DEF WritePage
  <2>5. CASE SyncFile(p) BY <2>5 DEF SyncFile
  <2>6. CASE PublishWrite(p) BY <2>6 DEF PublishWrite
  <2>7. CASE p \in Procs /\ AcquireOrWait(p) BY <2>7 DEF AcquireOrWait
  <2> QED BY <2>1, <2>2, <2>3, <2>4, <2>5, <2>6, <2>7
<1>4. Still(p)
  BY <1>1, <1>2, StillSteps
<1>5. PositionsOK'
  <2> USE <1>2, <1>3 DEF PositionsOK
  <2>1. CASE p \in Procs /\ LookAgain(p) BY <2>1 DEF LookAgain
  <2>2. CASE MapLock(p) BY <2>2 DEF MapLock
  <2>3. CASE TakeWriteLock(p) BY <2>3 DEF TakeWriteLock
  <2>4. CASE WritePage(p) BY <2>4 DEF WritePage
  <2>5. CASE SyncFile(p) BY <2>5 DEF SyncFile
  <2>6. CASE PublishWrite(p) BY <2>6 DEF PublishWrite
  <2>7. CASE p \in Procs /\ AcquireOrWait(p) BY <2>7 DEF AcquireOrWait
  <2> QED BY <2>1, <2>2, <2>3, <2>4, <2>5, <2>6, <2>7
<1>6. HoldersMove'
  <2>1. \A l \in Locks : insertLock'[l] \in Procs \union {None}
    BY <1>2, <1>3 DEF HoldersMove
  <2>2. \A q \in Everyone \ {p} : at'[q] = at[q]
    BY <1>4 DEF Still
  <2>3. WALBufMappingLock' \in {WALBufMappingLock, None, p} /\ WALWriteLock' \in {WALWriteLock, None, p}
    <3>1. CASE p \in Procs /\ LookAgain(p) BY <3>1 DEF LookAgain
    <3>2. CASE MapLock(p) BY <3>2 DEF MapLock
    <3>3. CASE TakeWriteLock(p) BY <3>3 DEF TakeWriteLock
    <3>4. CASE WritePage(p) BY <3>4 DEF WritePage
    <3>5. CASE SyncFile(p) BY <3>5 DEF SyncFile
    <3>6. CASE PublishWrite(p) BY <3>6 DEF PublishWrite
    <3>7. CASE p \in Procs /\ AcquireOrWait(p) BY <3>7 DEF AcquireOrWait
    <3> QED BY <3>1, <3>2, <3>3, <3>4, <3>5, <3>6, <3>7
  <2>4. at[p] \in {"mapped", "map", "writeLock", "write", "sync", "publishWrite", "acquireOrWait", "waitFree"}
        /\ at'[p] \in {"copy", "panic", "advance", "write", "map", "sync", "publishWrite", "publishFlush", "flushLocked", "waitFree", "flush"}
    <3> USE <1>1, <1>2 DEF Typed
    <3>1. CASE p \in Procs /\ LookAgain(p) BY <3>1 DEF LookAgain
    <3>2. CASE MapLock(p) BY <3>2 DEF MapLock
    <3>3. CASE TakeWriteLock(p) BY <3>3 DEF TakeWriteLock
    <3>4. CASE WritePage(p) BY <3>4 DEF WritePage
    <3>5. CASE SyncFile(p) BY <3>5 DEF SyncFile
    <3>6. CASE PublishWrite(p) BY <3>6 DEF PublishWrite
    <3>7. CASE p \in Procs /\ AcquireOrWait(p) BY <3>7 DEF AcquireOrWait
    <3> QED BY <3>1, <3>2, <3>3, <3>4, <3>5, <3>6, <3>7
  <2>5. WALBufMappingLock' = p => at'[p] = "advance"
    <3> USE <1>1, <1>2 DEF Typed, HoldersMove
    <3>1. CASE p \in Procs /\ LookAgain(p) BY <3>1 DEF LookAgain
    <3>2. CASE MapLock(p) BY <3>2 DEF MapLock
    <3>3. CASE TakeWriteLock(p) BY <3>3 DEF TakeWriteLock
    <3>4. CASE WritePage(p) BY <3>4 DEF WritePage
    <3>5. CASE SyncFile(p) BY <3>5 DEF SyncFile
    <3>6. CASE PublishWrite(p) BY <3>6 DEF PublishWrite
    <3>7. CASE p \in Procs /\ AcquireOrWait(p) BY <3>7 DEF AcquireOrWait
    <3> QED BY <3>1, <3>2, <3>3, <3>4, <3>5, <3>6, <3>7
  <2>6. WALWriteLock' = p => at'[p] \in Writing
    <3> USE <1>1, <1>2 DEF Typed, HoldersMove, Writing
    <3>1. CASE p \in Procs /\ LookAgain(p) BY <3>1 DEF LookAgain
    <3>2. CASE MapLock(p) BY <3>2 DEF MapLock
    <3>3. CASE TakeWriteLock(p) BY <3>3 DEF TakeWriteLock
    <3>4. CASE WritePage(p) BY <3>4 DEF WritePage
    <3>5. CASE SyncFile(p) BY <3>5 DEF SyncFile
    <3>6. CASE PublishWrite(p) BY <3>6 DEF PublishWrite
    <3>7. CASE p \in Procs /\ AcquireOrWait(p) BY <3>7 DEF AcquireOrWait
    <3> QED BY <3>1, <3>2, <3>3, <3>4, <3>5, <3>6, <3>7
  <2>7. p = WalWriter => at'[p] \notin {"lockWait", "lockAll"}
    BY <1>1, <2>4
  <2> QED BY <1>1, <1>2, <2>1, <2>2, <2>3, <2>5, <2>6, <2>7, HoldersStep
<1>7. WaitOK(p)'
  <2> USE <1>1, <1>2 DEF Typed, WaitOK
  <2>1. CASE p \in Procs /\ LookAgain(p) BY <2>1 DEF LookAgain
  <2>2. CASE MapLock(p) BY <2>2 DEF MapLock
  <2>3. CASE TakeWriteLock(p) BY <2>3 DEF TakeWriteLock
  <2>4. CASE WritePage(p) BY <2>4 DEF WritePage
  <2>5. CASE SyncFile(p) BY <2>5 DEF SyncFile
  <2>6. CASE PublishWrite(p) BY <2>6 DEF PublishWrite
  <2>7. CASE p \in Procs /\ AcquireOrWait(p) BY <2>7 DEF AcquireOrWait
  <2> QED BY <2>1, <2>2, <2>3, <2>4, <2>5, <2>6, <2>7
<1>8. ASSUME p \in Procs PROVE Inserter(p)'
  <2>1. Plain(p)
    BY <1>1, <1>8, PlainSteps
  <2>2. Proc(p)
    BY <1>8 DEF RedoInv
  <2>3. UNCHANGED insertingAt /\ rec'[p] = rec[p] /\ at[p] # "release"
    <3> USE <1>3
    <3>1. CASE p \in Procs /\ LookAgain(p) BY <3>1 DEF LookAgain
    <3>2. CASE MapLock(p) BY <3>2 DEF MapLock
    <3>3. CASE TakeWriteLock(p) BY <3>3 DEF TakeWriteLock
    <3>4. CASE WritePage(p) BY <3>4 DEF WritePage
    <3>5. CASE SyncFile(p) BY <3>5 DEF SyncFile
    <3>6. CASE PublishWrite(p) BY <3>6 DEF PublishWrite
    <3>7. CASE p \in Procs /\ AcquireOrWait(p) BY <3>7 DEF AcquireOrWait
    <3> QED BY <3>1, <3>2, <3>3, <3>4, <3>5, <3>6, <3>7
  <2>4. Inserts(p) /\ at'[p] \in Advancing => at[p] \in Advancing
    <3> USE <1>1, <1>2, <1>8, <2>2 DEF Typed, Proc, Advancing, Inserts, Free
    <3>1. CASE p \in Procs /\ LookAgain(p) BY <3>1 DEF LookAgain
    <3>2. CASE MapLock(p) BY <3>2 DEF MapLock
    <3>3. CASE TakeWriteLock(p) BY <3>3 DEF TakeWriteLock
    <3>4. CASE WritePage(p) BY <3>4 DEF WritePage
    <3>5. CASE SyncFile(p) BY <3>5 DEF SyncFile
    <3>6. CASE PublishWrite(p) BY <3>6 DEF PublishWrite
    <3>7. CASE p \in Procs /\ AcquireOrWait(p) BY <3>7 DEF AcquireOrWait
    <3> QED BY <3>1, <3>2, <3>3, <3>4, <3>5, <3>6, <3>7
  <2>5. at'[p] # "wait" /\ at'[p] # "waitVar"
    <3> USE <1>1, <1>2 DEF Typed
    <3>1. CASE p \in Procs /\ LookAgain(p) BY <3>1 DEF LookAgain
    <3>2. CASE MapLock(p) BY <3>2 DEF MapLock
    <3>3. CASE TakeWriteLock(p) BY <3>3 DEF TakeWriteLock
    <3>4. CASE WritePage(p) BY <3>4 DEF WritePage
    <3>5. CASE SyncFile(p) BY <3>5 DEF SyncFile
    <3>6. CASE PublishWrite(p) BY <3>6 DEF PublishWrite
    <3>7. CASE p \in Procs /\ AcquireOrWait(p) BY <3>7 DEF AcquireOrWait
    <3> QED BY <3>1, <3>2, <3>3, <3>4, <3>5, <3>6, <3>7
  <2> QED BY <1>8, <2>1, <2>3, <2>4, <2>5, PlainInserter
<1>9. CurrBytePos <= CurrBytePos'
  BY <1>2, <1>3 DEF Typed
<1> QED BY <1>1, <1>4, <1>5, <1>6, <1>7, <1>8, <1>9, WaitInvStep

\* The end of WaitXLogInsertionsToFinish.
LEMMA WaitWaitEnd ==
  ASSUME RedoInv, RedoInv', WaitInv, NEW p \in Everyone, WaitEnd(p)
  PROVE  WaitInv'
<1>1. p \in Everyone /\ Distinct
  BY XLogConstants DEF Everyone
<1>2. Typed /\ PositionsOK /\ HoldersMove /\ WaitOK(p) /\ DOMAIN wait = Everyone
  BY <1>1 DEF RedoInv, WaitInv
<1>3. UNCHANGED <<CurrBytePos, InitializedUpTo, xlblocks, insertLock, insertingAt>>
  BY DEF WaitEnd, AfterWait, Larger
<1>4. Still(p)
  BY <1>1, <1>2, StillSteps
<1>5. PositionsOK'
  <2>1. wait[p].finished \in Nat /\ logInsertResult \in Nat
    BY <1>2 DEF WaitOK, WaitEnd, PositionsOK
  <2>2. logInsertResult' \in Nat
    BY <2>1 DEF WaitEnd, Larger
  <2> QED BY <1>2, <1>3, <2>2 DEF PositionsOK
<1>6. HoldersMove'
  <2>1. \A l \in Locks : insertLock'[l] \in Procs \union {None}
    BY <1>2, <1>3 DEF HoldersMove
  <2>2. \A q \in Everyone \ {p} : at'[q] = at[q]
    BY <1>4 DEF Still
  <2>3. WALBufMappingLock' \in {WALBufMappingLock, None, p} /\ WALWriteLock' \in {WALWriteLock, None, p}
    BY DEF WaitEnd, AfterWait, Larger
  <2>4. at[p] \in {"waitVar"} /\ at'[p] \in {"acquireOrWait", "writeLock"}
    BY <1>1, <1>2 DEF Typed, WaitEnd, AfterWait, Larger
  <2>5. WALBufMappingLock' = p => at'[p] = "advance"
    BY <1>1, <1>2 DEF Typed, HoldersMove, WaitEnd, AfterWait, Larger
  <2>6. WALWriteLock' = p => at'[p] \in Writing
    BY <1>1, <1>2 DEF Typed, HoldersMove, Writing, WaitEnd, AfterWait, Larger
  <2>7. p = WalWriter => at'[p] \notin {"lockWait", "lockAll"}
    BY <1>1, <2>4
  <2> QED BY <1>1, <1>2, <2>1, <2>2, <2>3, <2>5, <2>6, <2>7, HoldersStep
<1>7. WaitOK(p)'
  BY <1>1, <1>2 DEF Typed, WaitOK, WaitEnd, AfterWait, Larger
<1>8. ASSUME p \in Procs PROVE Inserter(p)'
  <2>1. Plain(p)
    BY <1>1, <1>8, PlainSteps
  <2>2. Proc(p)
    BY <1>8 DEF RedoInv
  <2>3. UNCHANGED insertingAt /\ rec'[p] = rec[p] /\ at[p] # "release"
    BY <1>3 DEF WaitEnd, AfterWait, Larger
  <2>4. Inserts(p) /\ at'[p] \in Advancing => at[p] \in Advancing
    BY <1>1, <1>2, <1>8, <2>2 DEF Typed, Proc, Advancing, Inserts, Free, WaitEnd, AfterWait, Larger
  <2>5. at'[p] # "wait" /\ at'[p] # "waitVar"
    BY <1>1, <1>2 DEF Typed, WaitEnd, AfterWait, Larger
  <2> QED BY <1>8, <2>1, <2>3, <2>4, <2>5, PlainInserter
<1>9. CurrBytePos <= CurrBytePos'
  BY <1>2, <1>3 DEF Typed
<1> QED BY <1>1, <1>4, <1>5, <1>6, <1>7, <1>8, <1>9, WaitInvStep

\* What ends behind the first byte position ends behind the first position.
LEMMA EndAfterZero ==
  ASSUME NEW b \in Nat, b >= 1
  PROVE  XLogBytePosToEndRecPtr(b) >= 1
<1>1. XLogBytePosToEndRecPtr(1) >= 1
  <2>1. XLogBytePosToEndRecPtr(1) = (1 \div UsableBytesInSegment) * SegSize + EndOffset(1 % UsableBytesInSegment)
    BY DEF XLogBytePosToEndRecPtr, EndOffset
  <2>2. CASE UsableBytesInSegment = 1
    <3>1. 1 \div UsableBytesInSegment = 1 /\ 1 % UsableBytesInSegment = 0
      BY <2>2
    <3>2. EndOffset(0) \in Nat
      BY OffsetBounds
    <3> QED BY <2>1, <3>1, <3>2, Sizes
  <2>3. CASE UsableBytesInSegment # 1
    <3>1. 1 \div UsableBytesInSegment = 0 /\ 1 % UsableBytesInSegment = 1
      BY <2>3, Sizes
    <3>2. EndOffset(1) >= 1
      <4>1. CASE \E q, off \in Nat : OnPage(1, q, off)
        <5>1. PICK q \in Nat, off \in Nat : OnPage(1, q, off)
          BY <4>1
        <5> QED BY <5>1, OnPageOffsets, Sizes
      <4>2. CASE EndOffset(1) = IF 1 = 0 THEN 0 ELSE 1 + SizeOfXLogLongPHD
        BY <4>2, Sizes
      <4> QED BY <4>1, <4>2, OffsetParts
    <3>3. EndOffset(1) \in Nat
      BY OffsetBounds
    <3> QED BY <2>1, <3>1, <3>2, <3>3, Sizes
  <2> QED BY <2>2, <2>3
<1>2. XLogBytePosToEndRecPtr(1) <= XLogBytePosToEndRecPtr(b)
  BY PointersMonotone
<1>3. XLogBytePosToEndRecPtr(1) \in Nat /\ XLogBytePosToEndRecPtr(b) \in Nat
  BY PointersMonotone
<1> QED BY <1>1, <1>2, <1>3

\* WALInsertLockAcquire waits for its lock.
LEMMA WaitLockBusy ==
  ASSUME RedoInv, RedoInv', WaitInv, NEW p \in Procs, WALInsertLockBusy(p)
  PROVE  WaitInv'
<1>1. p \in Everyone /\ Distinct
  BY XLogConstants DEF Everyone
<1>2. Typed /\ PositionsOK /\ HoldersMove /\ WaitOK(p) /\ DOMAIN wait = Everyone
  BY <1>1 DEF RedoInv, WaitInv
<1>3. UNCHANGED <<CurrBytePos, InitializedUpTo, xlblocks, insertLock, insertingAt>>
  BY DEF WALInsertLockBusy, Idle
<1>4. Still(p)
  BY <1>1, <1>2, StillSteps
<1>5. PositionsOK'
  BY <1>2, <1>3 DEF PositionsOK, WALInsertLockBusy, Idle
<1>6. HoldersMove'
  <2>1. \A l \in Locks : insertLock'[l] \in Procs \union {None}
    BY <1>2, <1>3 DEF HoldersMove
  <2>2. \A q \in Everyone \ {p} : at'[q] = at[q]
    BY <1>4 DEF Still
  <2>3. WALBufMappingLock' \in {WALBufMappingLock, None, p} /\ WALWriteLock' \in {WALWriteLock, None, p}
    BY DEF WALInsertLockBusy, Idle
  <2>4. at[p] \in {"idle"} /\ at'[p] \in {"lockWait"}
    BY <1>1, <1>2 DEF Typed, WALInsertLockBusy, Idle
  <2>5. WALBufMappingLock' = p => at'[p] = "advance"
    BY <1>1, <1>2 DEF Typed, HoldersMove, WALInsertLockBusy, Idle
  <2>6. WALWriteLock' = p => at'[p] \in Writing
    BY <1>1, <1>2 DEF Typed, HoldersMove, Writing, WALInsertLockBusy, Idle
  <2>7. p = WalWriter => at'[p] \notin {"lockWait", "lockAll"}
    BY <1>1, <2>4
  <2> QED BY <1>1, <1>2, <2>1, <2>2, <2>3, <2>5, <2>6, <2>7, HoldersStep
<1>7. WaitOK(p)'
  BY <1>1, <1>2 DEF Typed, WaitOK, WALInsertLockBusy, Idle
<1>8. ASSUME p \in Procs PROVE Inserter(p)'
  <2>1. Free(p)' /\ at'[p] # "lockAll"
    BY <1>1, <1>2, <1>8 DEF RedoInv, Proc, Typed, Free, WALInsertLockBusy, Idle
  <2> QED BY <1>8, <2>1, FreeInserter
<1>9. CurrBytePos <= CurrBytePos'
  BY <1>2, <1>3 DEF Typed
<1> QED BY <1>1, <1>4, <1>5, <1>6, <1>7, <1>8, <1>9, WaitInvStep

\* Steps of one who has let its insertion locks go.
LEMMA WaitFlushSteps ==
  ASSUME RedoInv, RedoInv', WaitInv, NEW p \in Everyone,
         \/ p \in Procs /\ (Inserted(p) \/ XLogFlush(p) \/ FlushLocked(p))
  PROVE  WaitInv'
<1>1. p \in Everyone /\ Distinct
  BY XLogConstants DEF Everyone
<1>2. Typed /\ PositionsOK /\ HoldersMove /\ WaitOK(p) /\ DOMAIN wait = Everyone
  BY <1>1 DEF RedoInv, WaitInv
<1>3. UNCHANGED <<CurrBytePos, InitializedUpTo, xlblocks, insertLock, insertingAt>>
  <2>1. CASE p \in Procs /\ Inserted(p) BY <2>1 DEF Inserted
  <2>2. CASE p \in Procs /\ XLogFlush(p) BY <2>2 DEF XLogFlush, FlushReturns, CallWait
  <2>3. CASE p \in Procs /\ FlushLocked(p) BY <2>3 DEF FlushLocked, FlushReturns
  <2> QED BY <2>1, <2>2, <2>3
<1>4. Still(p)
  BY <1>1, <1>2, StillSteps
<1>5. PositionsOK'
  <2> USE <1>2, <1>3 DEF PositionsOK
  <2>1. CASE p \in Procs /\ Inserted(p) BY <2>1 DEF Inserted
  <2>2. CASE p \in Procs /\ XLogFlush(p) BY <2>2 DEF XLogFlush, FlushReturns, CallWait
  <2>3. CASE p \in Procs /\ FlushLocked(p) BY <2>3 DEF FlushLocked, FlushReturns
  <2> QED BY <2>1, <2>2, <2>3
<1>6. HoldersMove'
  <2>1. \A l \in Locks : insertLock'[l] \in Procs \union {None}
    BY <1>2, <1>3 DEF HoldersMove
  <2>2. \A q \in Everyone \ {p} : at'[q] = at[q]
    BY <1>4 DEF Still
  <2>3. WALBufMappingLock' \in {WALBufMappingLock, None, p} /\ WALWriteLock' \in {WALWriteLock, None, p}
    <3>1. CASE p \in Procs /\ Inserted(p) BY <3>1 DEF Inserted
    <3>2. CASE p \in Procs /\ XLogFlush(p) BY <3>2 DEF XLogFlush, FlushReturns, CallWait
    <3>3. CASE p \in Procs /\ FlushLocked(p) BY <3>3 DEF FlushLocked, FlushReturns
    <3> QED BY <3>1, <3>2, <3>3
  <2>4. at[p] \in {"inserted", "flush", "flushLocked"}
        /\ at'[p] \in {"flush", "idle", "unsatisfied", "wait", "write"}
    <3> USE <1>1, <1>2 DEF Typed
    <3>1. CASE p \in Procs /\ Inserted(p) BY <3>1 DEF Inserted
    <3>2. CASE p \in Procs /\ XLogFlush(p) BY <3>2 DEF XLogFlush, FlushReturns, CallWait
    <3>3. CASE p \in Procs /\ FlushLocked(p) BY <3>3 DEF FlushLocked, FlushReturns
    <3> QED BY <3>1, <3>2, <3>3
  <2>5. WALBufMappingLock' = p => at'[p] = "advance"
    <3> USE <1>1, <1>2 DEF Typed, HoldersMove
    <3>1. CASE p \in Procs /\ Inserted(p) BY <3>1 DEF Inserted
    <3>2. CASE p \in Procs /\ XLogFlush(p) BY <3>2 DEF XLogFlush, FlushReturns, CallWait
    <3>3. CASE p \in Procs /\ FlushLocked(p) BY <3>3 DEF FlushLocked, FlushReturns
    <3> QED BY <3>1, <3>2, <3>3
  <2>6. WALWriteLock' = p => at'[p] \in Writing
    <3> USE <1>1, <1>2 DEF Typed, HoldersMove, Writing
    <3>1. CASE p \in Procs /\ Inserted(p) BY <3>1 DEF Inserted
    <3>2. CASE p \in Procs /\ XLogFlush(p) BY <3>2 DEF XLogFlush, FlushReturns, CallWait
    <3>3. CASE p \in Procs /\ FlushLocked(p) BY <3>3 DEF FlushLocked, FlushReturns
    <3> QED BY <3>1, <3>2, <3>3
  <2>7. p = WalWriter => at'[p] \notin {"lockWait", "lockAll"}
    BY <1>1, <2>4
  <2> QED BY <1>1, <1>2, <2>1, <2>2, <2>3, <2>5, <2>6, <2>7, HoldersStep
<1>7. WaitOK(p)'
  <2> USE <1>1, <1>2 DEF Typed, WaitOK
  <2>1. CASE p \in Procs /\ Inserted(p) BY <2>1 DEF Inserted
  <2>2. CASE p \in Procs /\ XLogFlush(p) BY <2>2 DEF XLogFlush, FlushReturns, CallWait
  <2>3. CASE p \in Procs /\ FlushLocked(p) BY <2>3 DEF FlushLocked, FlushReturns
  <2> QED BY <2>1, <2>2, <2>3
<1>8. ASSUME p \in Procs PROVE Inserter(p)'
  <2>1. Free(p)' /\ at'[p] # "lockAll"
    <3> USE <1>1, <1>2, <1>8 DEF RedoInv, Proc, Typed, Free
    <3>1. CASE p \in Procs /\ Inserted(p) BY <3>1 DEF Inserted
    <3>2. CASE p \in Procs /\ XLogFlush(p) BY <3>2 DEF XLogFlush, FlushReturns, CallWait
    <3>3. CASE p \in Procs /\ FlushLocked(p) BY <3>3 DEF FlushLocked, FlushReturns
    <3> QED BY <3>1, <3>2, <3>3
  <2> QED BY <1>8, <2>1, FreeInserter
<1>9. CurrBytePos <= CurrBytePos'
  BY <1>2, <1>3 DEF Typed
<1> QED BY <1>1, <1>4, <1>5, <1>6, <1>7, <1>8, <1>9, WaitInvStep

\* XLogWrite returns.
LEMMA WaitPublishFlush ==
  ASSUME RedoInv, RedoInv', WaitInv, NEW p \in Everyone, PublishFlush(p)
  PROVE  WaitInv'
<1>1. p \in Everyone /\ Distinct
  BY XLogConstants DEF Everyone
<1>2. Typed /\ PositionsOK /\ HoldersMove /\ WaitOK(p) /\ DOMAIN wait = Everyone
  BY <1>1 DEF RedoInv, WaitInv
<1>3. UNCHANGED <<CurrBytePos, InitializedUpTo, xlblocks, insertLock, insertingAt>>
  BY DEF PublishFlush, FlushReturns
<1>4. Still(p)
  BY <1>1, <1>2, StillSteps
<1>5. PositionsOK'
  BY <1>2, <1>3 DEF PositionsOK, PublishFlush, FlushReturns
<1>6. HoldersMove'
  <2>1. \A l \in Locks : insertLock'[l] \in Procs \union {None}
    BY <1>2, <1>3 DEF HoldersMove
  <2>2. \A q \in Everyone \ {p} : at'[q] = at[q]
    BY <1>4 DEF Still
  <2>3. WALBufMappingLock' \in {WALBufMappingLock, None, p} /\ WALWriteLock' \in {WALWriteLock, None, p}
    BY DEF PublishFlush, FlushReturns
  <2>4. at[p] \in {"publishFlush"} /\ at'[p] \in {"unsatisfied", "idle", "map"}
    BY <1>1, <1>2 DEF Typed, PublishFlush, FlushReturns
  <2>5. WALBufMappingLock' = p => at'[p] = "advance"
    BY <1>1, <1>2 DEF Typed, HoldersMove, PublishFlush, FlushReturns
  <2>6. WALWriteLock' = p => at'[p] \in Writing
    BY <1>1, <1>2 DEF Typed, HoldersMove, Writing, PublishFlush, FlushReturns
  <2>7. p = WalWriter => at'[p] \notin {"lockWait", "lockAll"}
    BY <1>1, <2>4
  <2> QED BY <1>1, <1>2, <2>1, <2>2, <2>3, <2>5, <2>6, <2>7, HoldersStep
<1>7. WaitOK(p)'
  BY <1>1, <1>2 DEF Typed, WaitOK, PublishFlush, FlushReturns
<1>8. ASSUME p \in Procs PROVE Inserter(p)'
  <2>1. CASE caller[p] = "flush"
    <3>1. Free(p)' /\ at'[p] # "lockAll"
      BY <1>1, <1>2, <1>8, <2>1 DEF RedoInv, Proc, Typed, Free, PublishFlush, FlushReturns
    <3> QED BY <1>8, <3>1, FreeInserter
  <2>2. CASE caller[p] # "flush"
    <3>1. Proc(p)
      BY <1>8 DEF RedoInv
    <3>2. Plain(p)
      BY <1>1, <1>2, <1>8, <2>2, <3>1 DEF Plain, Typed, Proc, Before, Flushing, Free, PublishFlush, FlushReturns
    <3>3. UNCHANGED insertingAt /\ rec'[p] = rec[p] /\ at[p] = "publishFlush" /\ at'[p] = "map"
      BY <1>1, <1>2, <1>3, <2>2 DEF Typed, PublishFlush, FlushReturns
    <3>4. at[p] \in Advancing
      BY <3>3 DEF Advancing
    <3> QED BY <1>8, <3>2, <3>3, <3>4, PlainInserter
  <2> QED BY <2>1, <2>2
<1>9. CurrBytePos <= CurrBytePos'
  BY <1>2, <1>3 DEF Typed
<1> QED BY <1>1, <1>4, <1>5, <1>6, <1>7, <1>8, <1>9, WaitInvStep

\* WaitXLogInsertionsToFinish looks at a lock.
LEMMA WaitWaitForVar ==
  ASSUME RedoInv, RedoInv', WaitInv, NEW p \in Everyone, WaitForVar(p)
  PROVE  WaitInv'
<1>1. p \in Everyone /\ Distinct
  BY XLogConstants DEF Everyone
<1>2. Typed /\ PositionsOK /\ HoldersMove /\ WaitOK(p) /\ DOMAIN wait = Everyone
  BY <1>1 DEF RedoInv, WaitInv
<1>3. UNCHANGED <<CurrBytePos, InitializedUpTo, xlblocks, insertLock, insertingAt>>
  BY DEF WaitForVar
<1>4. Still(p)
  BY <1>1, <1>2, StillSteps
<1>5. PositionsOK'
  BY <1>2, <1>3 DEF PositionsOK, WaitForVar
<1>6. HoldersMove'
  <2>1. \A l \in Locks : insertLock'[l] \in Procs \union {None}
    BY <1>2, <1>3 DEF HoldersMove
  <2>2. \A q \in Everyone \ {p} : at'[q] = at[q]
    BY <1>4 DEF Still
  <2>3. WALBufMappingLock' \in {WALBufMappingLock, None, p} /\ WALWriteLock' \in {WALWriteLock, None, p}
    BY DEF WaitForVar
  <2>4. at[p] \in {"waitVar"} /\ at'[p] \in {"waitVar"}
    BY <1>1, <1>2 DEF Typed, WaitForVar
  <2>5. WALBufMappingLock' = p => at'[p] = "advance"
    BY <1>1, <1>2 DEF Typed, HoldersMove, WaitForVar
  <2>6. WALWriteLock' = p => at'[p] \in Writing
    BY <1>1, <1>2 DEF Typed, HoldersMove, Writing, WaitForVar
  <2>7. p = WalWriter => at'[p] \notin {"lockWait", "lockAll"}
    BY <1>1, <2>4
  <2> QED BY <1>1, <1>2, <2>1, <2>2, <2>3, <2>5, <2>6, <2>7, HoldersStep
<1>7. WaitOK(p)'
  <2>1. insertingAt[wait[p].lock] \in Nat
    BY <1>2 DEF WaitForVar, PositionsOK
  <2>2. DOMAIN wait[p] = {"upto", "finished", "lock", "value"} /\ wait[p].finished \in Nat
    BY <1>2 DEF WaitOK, WaitForVar
  <2>3. PICK v \in Nat : v = insertingAt[wait[p].lock]
    BY <2>1
  <2>4. wait'[p] \in {[wait[p] EXCEPT !.lock = @ + 1, !.value = Invalid],
                      [wait[p] EXCEPT !.lock = @ + 1, !.value = Invalid, !.finished = Smaller(@, v)],
                      [wait[p] EXCEPT !.value = v]}
    BY <1>1, <1>2, <2>3 DEF WaitForVar
  <2>5. Smaller(wait[p].finished, v) \in Nat
    BY <2>2 DEF Smaller
  <2> QED BY <2>2, <2>4, <2>5 DEF WaitOK
<1>8. ASSUME p \in Procs PROVE Inserter(p)'
  <2>1. Plain(p)
    BY <1>1, <1>8, PlainSteps
  <2>2. Proc(p) /\ Inserter(p)
    BY <1>8 DEF RedoInv, WaitInv
  <2>3. UNCHANGED insertingAt /\ rec'[p] = rec[p] /\ at[p] # "release"
    BY <1>3 DEF WaitForVar
  <2>4. Inserts(p) /\ at'[p] \in Advancing => at[p] \in Advancing
    BY <1>1, <1>2, <1>8, <2>2 DEF Typed, Proc, Advancing, Inserts, Free, WaitForVar
  <2>5. at[p] = "waitVar" /\ at'[p] = "waitVar"
    BY <1>1, <1>2 DEF Typed, WaitForVar
  <2>6. PICK v \in Nat : v = insertingAt[wait[p].lock]
    BY <1>2 DEF WaitForVar, PositionsOK
  <2>7. DOMAIN wait[p] = {"upto", "finished", "lock", "value"} /\ wait[p].finished \in Nat
    BY <1>2 DEF WaitOK, WaitForVar
  <2>8. \/ wait'[p] = [wait[p] EXCEPT !.lock = @ + 1, !.value = Invalid]
        \/ wait'[p] = [wait[p] EXCEPT !.lock = @ + 1, !.value = Invalid, !.finished = Smaller(@, v)]
        \/ ~(v >= wait[p].upto) /\ wait'[p] = [wait[p] EXCEPT !.value = v]
    BY <1>1, <1>2, <2>6 DEF WaitForVar
  <2>9. wait'[p].upto = wait[p].upto /\ (wait'[p].value = 0 \/ (wait'[p].value = v /\ ~(v >= wait[p].upto)))
    BY <2>7, <2>8 DEF Invalid
  <2>10. Inserts(p) => /\ wait[p].upto \in Nat /\ wait[p].upto <= Position(p)
                       /\ wait[p].upto >= 1 /\ wait[p].upto <= Horizon
    BY <2>2, <2>5 DEF Inserter
  <2>11. Inserts(p) => wait'[p].value \in Nat /\ (wait'[p].value = 0 \/ wait'[p].value < wait'[p].upto)
    BY <2>9, <2>10
  <2> QED BY <1>8, <2>1, <2>3, <2>4, <2>9, <2>10, <2>11, PlainInserter
<1>9. CurrBytePos <= CurrBytePos'
  BY <1>2, <1>3 DEF Typed
<1> QED BY <1>1, <1>4, <1>5, <1>6, <1>7, <1>8, <1>9, WaitInvStep

\* WaitXLogInsertionsToFinish begins.
LEMMA WaitWaitStart ==
  ASSUME RedoInv, RedoInv', WaitInv, NEW p \in Everyone, WaitStart(p)
  PROVE  WaitInv'
<1>1. p \in Everyone /\ Distinct
  BY XLogConstants DEF Everyone
<1>2. Typed /\ PositionsOK /\ HoldersMove /\ WaitOK(p) /\ DOMAIN wait = Everyone
  BY <1>1 DEF RedoInv, WaitInv
<1>3. UNCHANGED <<CurrBytePos, InitializedUpTo, xlblocks, insertLock, insertingAt>>
  BY DEF WaitStart, AfterWait, CallWait
<1>4. Still(p)
  BY <1>1, <1>2, StillSteps
<1>5. PositionsOK'
  BY <1>2, <1>3 DEF PositionsOK, WaitStart, AfterWait, CallWait
<1>6. HoldersMove'
  <2>1. \A l \in Locks : insertLock'[l] \in Procs \union {None}
    BY <1>2, <1>3 DEF HoldersMove
  <2>2. \A q \in Everyone \ {p} : at'[q] = at[q]
    BY <1>4 DEF Still
  <2>3. WALBufMappingLock' \in {WALBufMappingLock, None, p} /\ WALWriteLock' \in {WALWriteLock, None, p}
    BY DEF WaitStart, AfterWait, CallWait
  <2>4. at[p] \in {"wait"} /\ at'[p] \in {"waitVar", "acquireOrWait", "writeLock"}
    BY <1>1, <1>2 DEF Typed, WaitStart, AfterWait, CallWait
  <2>5. WALBufMappingLock' = p => at'[p] = "advance"
    BY <1>1, <1>2 DEF Typed, HoldersMove, WaitStart, AfterWait, CallWait
  <2>6. WALWriteLock' = p => at'[p] \in Writing
    BY <1>1, <1>2 DEF Typed, HoldersMove, Writing, WaitStart, AfterWait, CallWait
  <2>7. p = WalWriter => at'[p] \notin {"lockWait", "lockAll"}
    BY <1>1, <2>4
  <2> QED BY <1>1, <1>2, <2>1, <2>2, <2>3, <2>5, <2>6, <2>7, HoldersStep
<1>7. WaitOK(p)'
  <2>1. XLogBytePosToEndRecPtr(CurrBytePos) \in Nat
    BY <1>2, PointersMonotone DEF Typed
  <2>2. PICK reserved \in Nat : reserved = XLogBytePosToEndRecPtr(CurrBytePos)
    BY <2>1
  <2>3. at'[p] = "waitVar" => wait'[p] = [upto |-> Smaller(wait[p].upto, reserved),
                                          finished |-> reserved, lock |-> 1, value |-> Invalid]
    BY <1>1, <1>2, <2>2 DEF Typed, WaitStart, AfterWait
  <2> QED BY <2>3 DEF WaitOK
<1>8. ASSUME p \in Procs PROVE Inserter(p)'
  <2>1. Plain(p)
    BY <1>1, <1>8, PlainSteps
  <2>2. Proc(p) /\ Inserter(p)
    BY <1>8 DEF RedoInv, WaitInv
  <2>3. UNCHANGED insertingAt /\ rec'[p] = rec[p] /\ at[p] # "release"
    BY <1>3 DEF WaitStart, AfterWait, CallWait
  <2>4. Inserts(p) /\ at'[p] \in Advancing => at[p] \in Advancing
    BY <1>1, <1>2, <1>8, <2>2 DEF Typed, Proc, Advancing, Inserts, Free, WaitStart, AfterWait, CallWait
  <2>5. at[p] = "wait" /\ at'[p] # "wait"
    BY <1>1, <1>2 DEF Typed, WaitStart, AfterWait, CallWait
  <2>6. XLogBytePosToEndRecPtr(CurrBytePos) \in Nat
    BY <1>2, PointersMonotone DEF Typed
  <2>7. PICK reserved \in Nat : reserved = XLogBytePosToEndRecPtr(CurrBytePos)
    BY <2>6
  <2>8. at'[p] = "waitVar" => /\ ~(wait[p].upto <= logInsertResult)
                              /\ wait'[p] = [upto |-> Smaller(wait[p].upto, reserved),
                                             finished |-> reserved, lock |-> 1, value |-> Invalid]
    BY <1>1, <1>2, <2>7 DEF Typed, WaitStart, AfterWait
  <2>9. Inserts(p) => wait[p].upto \in Nat /\ wait[p].upto <= Position(p) /\ CurrBytePos >= 1
    BY <2>2, <2>5 DEF Inserter
  <2>10. Inserts(p) => 1 <= reserved
    BY <1>2, <2>7, <2>9, EndAfterZero DEF Typed
  <2>11. reserved <= Horizon /\ logInsertResult \in Nat
    BY <1>2, <2>7 DEF PositionsOK
  <2>12. at'[p] = "waitVar" => wait'[p].upto = Smaller(wait[p].upto, reserved) /\ wait'[p].value = 0
    BY <2>8 DEF Invalid
  <2>13. Inserts(p) => Position(p) \in Nat
    <3>1. Inserts(p) => LocksOf(p)
      BY <2>2 DEF Inserter
    <3> QED BY <1>2, <3>1, TopLock DEF Position, PositionsOK
  <2>14. Inserts(p) /\ at'[p] = "waitVar" =>
           /\ wait'[p].upto \in Nat /\ wait'[p].upto <= Position(p)
           /\ wait'[p].upto >= 1 /\ wait'[p].upto <= Horizon /\ wait'[p].value \in Nat
    BY <2>8, <2>9, <2>10, <2>11, <2>12, <2>13, PositionsAssumption DEF Smaller
  <2> QED BY <1>8, <2>1, <2>3, <2>4, <2>5, <2>12, <2>14, PlainInserter
<1>9. CurrBytePos <= CurrBytePos'
  BY <1>2, <1>3 DEF Typed
<1> QED BY <1>1, <1>4, <1>5, <1>6, <1>7, <1>8, <1>9, WaitInvStep

\* The page after a page begins one page on.
LEMMA NextPage ==
  ASSUME NEW ptr \in Nat, ptr % XLOG_BLCKSZ = 0
  PROVE  ptr + XLOG_BLCKSZ \in Nat /\ (ptr + XLOG_BLCKSZ) % XLOG_BLCKSZ = 0
<1>1. PICK B \in Nat \ {0} : B = XLOG_BLCKSZ
  BY Sizes
<1>2. PICK k \in Nat : k = ptr \div B /\ ptr = k * B + (ptr % B)
  BY Quotient
<1>3. ptr + B = (k + 1) * B
  BY <1>1, <1>2
<1>4. ((k + 1) * B) % B = 0
  BY MultipleOf
<1> QED BY <1>1, <1>3, <1>4

\* XLogRecPtrToBufIdx gives one of the buffers.
LEMMA BufferNumber ==
  ASSUME NEW ptr \in Nat
  PROVE  BufIdx(ptr) \in 0..(XLogBuffers - 1)
<1>1. ptr \div XLOG_BLCKSZ \in Nat
  BY Sizes, Quotient
<1>2. XLogBuffers \in Nat \ {0}
  BY XLogConstants
<1> QED BY <1>1, <1>2, Quotient DEF BufIdx, PageOf

\* A page that begins before a position begins before what is known to be copied there.
LEMMA PageBefore ==
  ASSUME NEW ptr \in Nat, ptr % XLOG_BLCKSZ = 0, NEW c \in Nat, c >= ptr
  PROVE  InitializedPart(c) \in Nat /\ ptr <= InitializedPart(c)
<1>1. PICK B \in Nat \ {0} : B = XLOG_BLCKSZ
  BY Sizes
<1>2. PICK k \in Nat : k = ptr \div B /\ ptr = k * B
  BY <1>1, Quotient
<1>3. PICK m \in Nat, o \in Nat : m = c \div B /\ o = c % B /\ c = m * B + o
  BY Quotient
<1>4. k <= m
  BY <1>2, <1>3, QuotientMonotone
<1>5. k * B <= m * B
  BY <1>4, TimesMonotone
<1>6. PICK x \in Nat, y \in Nat : x = k * B /\ y = m * B
  OBVIOUS
<1>7. PageBegin(c) \in Nat /\ ptr <= PageBegin(c)
  BY <1>1, <1>2, <1>3, <1>5, <1>6 DEF PageBegin
<1> QED BY <1>7 DEF InitializedPart

\* XLogBackgroundFlush, to where it waits for insertions.
LEMMA WaitBackgroundFlush ==
  ASSUME RedoInv, RedoInv', WaitInv, NEW p \in {WalWriter}, XLogBackgroundFlush
  PROVE  WaitInv'
<1>1. p \in Everyone /\ Distinct
  BY XLogConstants DEF Everyone
<1>2. Typed /\ PositionsOK /\ HoldersMove /\ WaitOK(p) /\ DOMAIN wait = Everyone
  BY <1>1 DEF RedoInv, WaitInv
<1>3. UNCHANGED <<CurrBytePos, InitializedUpTo, xlblocks, insertLock, insertingAt>>
  BY DEF XLogBackgroundFlush, CallWait
<1>4. Still(p)
  BY <1>1, <1>2, StillSteps
<1>5. PositionsOK'
  BY <1>2, <1>3 DEF PositionsOK, XLogBackgroundFlush, CallWait
<1>6. HoldersMove'
  <2>1. \A l \in Locks : insertLock'[l] \in Procs \union {None}
    BY <1>2, <1>3 DEF HoldersMove
  <2>2. \A q \in Everyone \ {p} : at'[q] = at[q]
    BY <1>4 DEF Still
  <2>3. WALBufMappingLock' \in {WALBufMappingLock, None, p} /\ WALWriteLock' \in {WALWriteLock, None, p}
    BY DEF XLogBackgroundFlush, CallWait
  <2>4. at[p] \in {"idle"} /\ at'[p] \in {"idle", "wait"}
    BY <1>1, <1>2 DEF Typed, XLogBackgroundFlush, CallWait
  <2>5. WALBufMappingLock' = p => at'[p] = "advance"
    BY <1>1, <1>2 DEF Typed, HoldersMove, XLogBackgroundFlush, CallWait
  <2>6. WALWriteLock' = p => at'[p] \in Writing
    BY <1>1, <1>2 DEF Typed, HoldersMove, Writing, XLogBackgroundFlush, CallWait
  <2>7. p = WalWriter => at'[p] \notin {"lockWait", "lockAll"}
    BY <1>1, <2>4
  <2> QED BY <1>1, <1>2, <2>1, <2>2, <2>3, <2>5, <2>6, <2>7, HoldersStep
<1>7. WaitOK(p)'
  BY <1>1, <1>2 DEF Typed, WaitOK, XLogBackgroundFlush, CallWait
<1>8. ASSUME p \in Procs PROVE Inserter(p)'
  BY <1>1, <1>8
<1>9. CurrBytePos <= CurrBytePos'
  BY <1>2, <1>3 DEF Typed
<1> QED BY <1>1, <1>4, <1>5, <1>6, <1>7, <1>8, <1>9, WaitInvStep

\* AdvanceXLInsertBuffer: what it waits for was in the ring before its own page.
LEMMA WaitAdvance ==
  ASSUME RedoInv, RedoInv', WaitInv, NEW p \in Everyone, Advance(p)
  PROVE  WaitInv'
<1>1. p \in Everyone /\ Distinct
  BY XLogConstants DEF Everyone
<1>2. Typed /\ PositionsOK /\ HoldersMove /\ WaitOK(p) /\ DOMAIN wait = Everyone
  BY <1>1 DEF RedoInv, WaitInv
<1>3. UNCHANGED <<CurrBytePos, insertLock, insertingAt>>
  BY DEF Advance, InitializePage, CallWait, Opportunistic
<1>4. Still(p)
  BY <1>1, <1>2, StillSteps
<1>5. PositionsOK'
  <2>1. BufIdx(InitializedUpTo) \in 0..(XLogBuffers - 1)
    BY <1>2, BufferNumber DEF PositionsOK
  <2>2. CASE InitializePage
    <3>1. PICK b \in 0..(XLogBuffers - 1) : b = BufIdx(InitializedUpTo)
      BY <2>1
    <3>2. InitializedUpTo' = InitializedUpTo + XLOG_BLCKSZ
          /\ xlblocks' = [xlblocks EXCEPT ![b] = InitializedUpTo + XLOG_BLCKSZ]
      BY <2>2, <3>1 DEF InitializePage
    <3>3. InitializedUpTo' \in Nat /\ InitializedUpTo' % XLOG_BLCKSZ = 0
      BY <1>2, <3>2, NextPage, Sizes DEF PositionsOK
    <3>4. DOMAIN xlblocks' = 0..(XLogBuffers - 1)
      BY <1>2, <3>2 DEF PositionsOK
    <3>5. ASSUME NEW i \in 0..(XLogBuffers - 1) PROVE xlblocks'[i] \in Nat /\ xlblocks'[i] <= InitializedUpTo'
      <4>1. xlblocks[i] \in Nat /\ xlblocks[i] <= InitializedUpTo /\ InitializedUpTo \in Nat /\ XLOG_BLCKSZ \in Nat
        BY <1>2, Sizes DEF PositionsOK
      <4>2. xlblocks'[i] = xlblocks[i] \/ xlblocks'[i] = InitializedUpTo + XLOG_BLCKSZ
        BY <1>2, <3>2 DEF PositionsOK
      <4> QED BY <3>2, <4>1, <4>2
    <3>6. UNCHANGED logInsertResult
      BY DEF Advance
    <3> QED BY <1>2, <1>3, <3>3, <3>4, <3>5, <3>6 DEF PositionsOK
  <2>3. CASE UNCHANGED <<InitializedUpTo, xlblocks>>
    BY <1>2, <1>3, <2>3 DEF PositionsOK, Advance
  <2> QED BY <2>2, <2>3 DEF Advance
<1>6. HoldersMove'
  <2>1. \A l \in Locks : insertLock'[l] \in Procs \union {None}
    BY <1>2, <1>3 DEF HoldersMove
  <2>2. \A q \in Everyone \ {p} : at'[q] = at[q]
    BY <1>4 DEF Still
  <2>3. WALBufMappingLock' \in {WALBufMappingLock, None, p} /\ WALWriteLock' \in {WALWriteLock, None, p}
    BY DEF Advance, InitializePage, CallWait, Opportunistic
  <2>4. at[p] \in {"advance"} /\ at'[p] \in {"advance", "wait", "idle", "mapped"}
    BY <1>1, <1>2 DEF Typed, Advance, InitializePage, CallWait, Opportunistic
  <2>5. WALBufMappingLock' = p => at'[p] = "advance"
    BY <1>1, <1>2 DEF Typed, HoldersMove, Advance, InitializePage, CallWait, Opportunistic
  <2>6. WALWriteLock' = p => at'[p] \in Writing
    BY <1>1, <1>2 DEF Typed, HoldersMove, Writing, Advance, InitializePage, CallWait, Opportunistic
  <2>7. p = WalWriter => at'[p] \notin {"lockWait", "lockAll"}
    BY <1>1, <2>4
  <2> QED BY <1>1, <1>2, <2>1, <2>2, <2>3, <2>5, <2>6, <2>7, HoldersStep
<1>7. WaitOK(p)'
  BY <1>1, <1>2 DEF Typed, WaitOK, Advance, InitializePage, CallWait, Opportunistic
<1>8. ASSUME p \in Procs PROVE Inserter(p)'
  <2>1. Plain(p)
    BY <1>1, <1>8, PlainSteps
  <2>2. Proc(p) /\ Inserter(p)
    BY <1>8 DEF RedoInv, WaitInv
  <2>3. UNCHANGED insertingAt /\ rec'[p] = rec[p] /\ at[p] # "release"
    BY <1>3 DEF Advance, InitializePage, CallWait, Opportunistic
  <2>4. Inserts(p) /\ at'[p] \in Advancing => at[p] \in Advancing
    BY <1>1, <1>2, <1>8, <2>2 DEF Typed, Proc, Advancing, Inserts, Free, Advance, InitializePage, CallWait, Opportunistic
  <2>5. at[p] = "advance" /\ at'[p] # "waitVar" /\ p # WalWriter
    BY <1>1, <1>2, <1>8 DEF Typed, Advance, InitializePage, CallWait, Opportunistic
  <2>6. at'[p] = "wait" => /\ wait'[p] = [upto |-> xlblocks[BufIdx(InitializedUpTo)]]
                           /\ rec[p].curr >= InitializedUpTo
    BY <1>1, <1>2, <2>5 DEF Typed, Advance, CallWait, Opportunistic, OldPageRqstPtr
  <2>7. PICK old \in Nat : old = xlblocks[BufIdx(InitializedUpTo)] /\ old <= InitializedUpTo
    BY <1>2, BufferNumber DEF PositionsOK
  <2>8. ASSUME Inserts(p), at'[p] = "wait" PROVE wait'[p].upto \in Nat /\ wait'[p].upto <= Position(p)
    <3>1. PICK c \in Nat : c = rec[p].curr /\ c >= InitializedUpTo /\ Position(p) = InitializedPart(c)
      BY <2>2, <2>5, <2>6, <2>8 DEF Inserter, Advancing
    <3>2. InitializedPart(c) \in Nat /\ InitializedUpTo <= InitializedPart(c)
      BY <1>2, <3>1, PageBefore DEF PositionsOK
    <3>3. wait'[p].upto = old
      BY <2>6, <2>7, <2>8
    <3> QED BY <1>2, <2>7, <3>1, <3>2, <3>3 DEF PositionsOK
  <2> QED BY <1>8, <2>1, <2>3, <2>4, <2>5, <2>8, PlainInserter
<1>9. CurrBytePos <= CurrBytePos'
  BY <1>2, <1>3 DEF Typed
<1> QED BY <1>1, <1>4, <1>5, <1>6, <1>7, <1>8, <1>9, WaitInvStep

\* A remainder is no more than what is divided.
LEMMA Remainder ==
  ASSUME NEW n \in Nat \ {0}, NEW a \in Nat
  PROVE  a % n \in Nat /\ a % n <= a /\ a % n < n
<1>1. PICK k \in Nat, r \in Nat : r = a % n /\ r < n /\ a = k * n + r
  BY Quotient
<1>2. PICK x \in Nat : x = k * n
  OBVIOUS
<1> QED BY <1>1, <1>2

\* The last of a set of locks.
LEMMA TopOf ==
  ASSUME NEW H, NEW l \in H, \A m \in H : l >= m, H \subseteq Nat
  PROVE  Max(H) = l
<1>1. (CHOOSE x \in H : \A m \in H : x >= m) = l
  <2>1. ASSUME NEW x \in H, \A m \in H : x >= m PROVE x = l
    <3>1. x >= l /\ l >= x /\ x \in Nat /\ l \in Nat
      BY <2>1
    <3> QED BY <3>1
  <2> QED BY <2>1
<1> QED BY <1>1 DEF Max

\* GetXLogBuffer says how far it has got before it asks for a page.
LEMMA WaitGetBuffer ==
  ASSUME RedoInv, RedoInv', WaitInv, NEW p \in Procs, GetXLogBuffer(p)
  PROVE  WaitInv'
<1>1. p \in Everyone /\ Distinct
  BY XLogConstants DEF Everyone
<1>2. Typed /\ PositionsOK /\ HoldersMove /\ WaitOK(p) /\ DOMAIN wait = Everyone /\ Proc(p) /\ Inserter(p)
  BY <1>1 DEF RedoInv, WaitInv
<1>3. /\ UNCHANGED <<CurrBytePos, InitializedUpTo, xlblocks, insertLock, logInsertResult>>
      /\ UNCHANGED <<WALBufMappingLock, WALWriteLock, todo, rec, wait>>
  BY DEF GetXLogBuffer
<1>4. at[p] = "buffer" /\ at'[p] \in {"copy", "map"}
  BY <1>1, <1>2 DEF GetXLogBuffer, Typed
<1>5. Plain(p)
  BY <1>1, PlainSteps
<1>6. Inserts(p) /\ LocksOf(p)
  BY <1>2, <1>4 DEF Proc, Inserts, Free, Inserter, Flushing
<1>7. PICK top \in Held(p) : top = Max(Held(p)) /\ top \in Locks
  BY <1>6, TopLock
<1>8. PICK c \in Nat : c = rec[p].curr
  BY <1>2, <1>4, <1>6 DEF Inserter
<1>9. InitializedPart(c) \in Nat
  <2>1. c % XLOG_BLCKSZ <= c /\ c % XLOG_BLCKSZ \in Nat
    BY Sizes, Remainder
  <2> QED BY <2>1 DEF InitializedPart, PageBegin
<1>10. \/ at'[p] = "copy" /\ UNCHANGED insertingAt
       \/ at'[p] = "map" /\ insertingAt' = [insertingAt EXCEPT ![top] = InitializedPart(c)]
  BY <1>1, <1>2, <1>7, <1>8 DEF GetXLogBuffer, UpdateInsertingAt, Typed
<1>11. DOMAIN insertingAt' = Locks /\ \A l \in Locks : insertingAt'[l] \in Nat
  BY <1>2, <1>9, <1>10 DEF PositionsOK
<1>12. \A l \in Locks \ {top} : insertingAt'[l] = insertingAt[l]
  BY <1>2, <1>10 DEF PositionsOK
<1>13. Still(p)
  <2>1. \A q \in Everyone \ {p} : at'[q] = at[q] /\ wait'[q] = wait[q]
    BY <1>1, <1>2, <1>3 DEF Typed, GetXLogBuffer
  <2>2. \A q \in Procs \ {p} : Same(q)
    BY <1>1, <1>2, <1>3, <2>1 DEF Typed, Same, GetXLogBuffer
  <2>3. \A q \in Procs \ {p} : Held(q)' = Held(q) /\ \A l \in Held(q) : insertingAt'[l] = insertingAt[l]
    BY <1>3, <1>7, <1>12 DEF Held
  <2> QED BY <1>2, <1>3, <2>1, <2>2, <2>3 DEF Still
<1>14. PositionsOK'
  BY <1>2, <1>3, <1>11 DEF PositionsOK
<1>15. HoldersMove'
  <2>1. \A l \in Locks : insertLock'[l] \in Procs \union {None}
    BY <1>2, <1>3 DEF HoldersMove
  <2>2. \A q \in Everyone \ {p} : at'[q] = at[q]
    BY <1>13 DEF Still
  <2>3. WALBufMappingLock # p /\ WALWriteLock # p
    BY <1>1, <1>2, <1>4 DEF HoldersMove, Writing
  <2> QED BY <1>1, <1>2, <1>3, <2>1, <2>2, <2>3, HoldersStep
<1>16. WaitOK(p)'
  BY <1>4 DEF WaitOK
<1>17. Inserter(p)'
  <2>1. Held(p)' = Held(p) /\ (Exclusive(p)' <=> Exclusive(p)) /\ Max(Held(p))' = top
    BY <1>3, <1>7 DEF Held, Exclusive, Job, Max
  <2>2. LocksOf(p)'
    BY <1>6, <2>1 DEF LocksOf
  <2>3. \A l \in (Held(p) \ {Max(Held(p))})' : insertingAt'[l] = MaxPtr
    <3>1. \A l \in Held(p) \ {top} : insertingAt[l] = MaxPtr /\ l \in Locks
      BY <1>2, <1>6, <1>7 DEF Inserter, Held
    <3> QED BY <1>12, <2>1, <3>1
  <2>4. at'[p] = "map" => Position(p)' = InitializedPart(rec[p].curr)'
    <3>1. InitializedPart(rec[p].curr)' = InitializedPart(c)
      BY <1>3, <1>8 DEF InitializedPart, HeaderSize, PageBegin
    <3>2. at'[p] = "map" => insertingAt'[top] = InitializedPart(c)
      BY <1>2, <1>7, <1>10 DEF PositionsOK
    <3> QED BY <2>1, <3>1, <3>2 DEF Position
  <2>5. /\ DOMAIN rec'[p] = {"start", "end", "curr", "left"} /\ rec'[p].curr \in Nat /\ rec'[p].left \in Nat
        /\ CurrBytePos' >= 1
    BY <1>2, <1>3, <1>4, <1>6 DEF Inserter
  <2> QED BY <1>4, <2>2, <2>3, <2>4, <2>5 DEF Inserter, Advancing
<1> QED BY <1>1, <1>2, <1>3, <1>13, <1>14, <1>15, <1>16, <1>17, WaitInvStep DEF Typed

\* CopyXLogRecordToWAL, one page.
LEMMA WaitCopy ==
  ASSUME RedoInv, RedoInv', WaitInv, NEW p \in Procs, Copy(p)
  PROVE  WaitInv'
<1>1. p \in Everyone /\ Distinct
  BY XLogConstants DEF Everyone
<1>2. Typed /\ PositionsOK /\ HoldersMove /\ WaitOK(p) /\ DOMAIN wait = Everyone /\ Proc(p) /\ Inserter(p)
  BY <1>1 DEF RedoInv, WaitInv
<1>3. /\ UNCHANGED <<CurrBytePos, InitializedUpTo, xlblocks, insertLock, logInsertResult, insertingAt>>
      /\ UNCHANGED <<WALBufMappingLock, WALWriteLock, todo, caller, wait>>
  BY DEF Copy
<1>4. at[p] = "copy" /\ at'[p] \in {"buffer", "release"}
  BY <1>1, <1>2 DEF Copy, Typed
<1>5. Inserts(p) /\ LocksOf(p)
  BY <1>2, <1>4 DEF Proc, Inserts, Free, Inserter, Flushing
<1>6. PICK c \in Nat, left \in Nat : c = rec[p].curr /\ left = rec[p].left
  BY <1>2, <1>4, <1>5 DEF Inserter
<1>7. DOMAIN rec[p] = {"start", "end", "curr", "left"} /\ CurrBytePos >= 1
  BY <1>2, <1>4, <1>5 DEF Inserter
<1>8. Still(p)
  <2>1. \A q \in Everyone \ {p} : at'[q] = at[q] /\ wait'[q] = wait[q]
    BY <1>1, <1>2, <1>3 DEF Typed, Copy
  <2>2. \A q \in Procs \ {p} : Same(q)
    BY <1>1, <1>2, <1>3, <2>1 DEF Typed, Same, Copy
  <2> QED BY <1>2, <1>3, <2>1, <2>2 DEF Still, Held
<1>9. PositionsOK'
  BY <1>2, <1>3 DEF PositionsOK
<1>10. HoldersMove'
  <2>1. \A l \in Locks : insertLock'[l] \in Procs \union {None}
    BY <1>2, <1>3 DEF HoldersMove
  <2>2. \A q \in Everyone \ {p} : at'[q] = at[q]
    BY <1>8 DEF Still
  <2>3. WALBufMappingLock # p /\ WALWriteLock # p
    BY <1>1, <1>2, <1>4 DEF HoldersMove, Writing
  <2> QED BY <1>1, <1>2, <1>3, <2>1, <2>2, <2>3, HoldersStep
<1>11. WaitOK(p)'
  BY <1>4 DEF WaitOK
<1>12. DOMAIN rec'[p] = {"start", "end", "curr", "left"} /\ rec'[p].curr \in Nat /\ rec'[p].left \in Nat
  <2>1. /\ HeaderSize(c) \in Nat /\ HeaderSize(c) < XLOG_BLCKSZ /\ XLOG_BLCKSZ \in Nat
        /\ c % XLOG_BLCKSZ \in Nat /\ c % XLOG_BLCKSZ < XLOG_BLCKSZ /\ c % XLOG_BLCKSZ <= c
    <3>1. HeaderSize(c) = SizeOfXLogLongPHD \/ HeaderSize(c) = SizeOfXLogShortPHD
      BY DEF HeaderSize
    <3>2. SizeOfXLogShortPHD <= SizeOfXLogLongPHD /\ SizeOfXLogLongPHD < XLOG_BLCKSZ
      BY XLogConstants
    <3> QED BY <3>1, <3>2, Sizes, Remainder
  <2>2. PICK o \in Nat, h \in Nat, B \in Nat : /\ o = c % XLOG_BLCKSZ /\ h = HeaderSize(c) /\ B = XLOG_BLCKSZ
                                               /\ h < B /\ o < B /\ o <= c
    BY <2>1
  <2>3. PageEnd(c) = c - o + B /\ PageEnd(c) \in Nat
    BY <2>2 DEF PageEnd, PageBegin
  <2>4. PICK from \in Nat : from = (IF c % XLOG_BLCKSZ = 0 THEN c + HeaderSize(c) ELSE c) /\ from <= PageEnd(c)
    BY <2>2, <2>3
  <2>5. PICK n \in Nat : n = Smaller(left, PageEnd(c) - from) /\ n <= left
    BY <2>3, <2>4 DEF Smaller
  <2>6. rec' = [rec EXCEPT ![p].curr = IF left - n = 0 /\ Job(p).kind = "switch" THEN PageEnd(c) ELSE from + n,
                           ![p].left = left - n]
    BY <1>6, <2>4, <2>5 DEF Copy
  <2>7. PICK to \in Nat : to = IF left - n = 0 /\ Job(p).kind = "switch" THEN PageEnd(c) ELSE from + n
    BY <2>3, <2>4, <2>5
  <2>8. PICK rest \in Nat : rest = left - n
    BY <2>5
  <2>9. rec' = [rec EXCEPT ![p].curr = to, ![p].left = rest]
    BY <2>6, <2>7, <2>8
  <2> QED BY <1>2, <1>7, <2>9 DEF Typed
<1>13. Inserter(p)'
  <2>1. Held(p)' = Held(p) /\ (Exclusive(p)' <=> Exclusive(p)) /\ Max(Held(p))' = Max(Held(p))
    BY <1>3 DEF Held, Exclusive, Job, Max
  <2>2. LocksOf(p)'
    BY <1>5, <2>1 DEF LocksOf
  <2>3. \A l \in (Held(p) \ {Max(Held(p))})' : insertingAt'[l] = MaxPtr
    BY <1>2, <1>3, <1>5, <2>1 DEF Inserter
  <2> QED BY <1>3, <1>4, <1>7, <1>12, <2>2, <2>3 DEF Inserter, Advancing
<1> QED BY <1>1, <1>2, <1>3, <1>8, <1>9, <1>10, <1>11, <1>13, WaitInvStep DEF Typed

\* A step of p that changes insertion locks, of the ones that are free or its own.
LocksMove(p) ==
  /\ UNCHANGED <<InitializedUpTo, xlblocks, logInsertResult, WALBufMappingLock, WALWriteLock, wait>>
  /\ at[p] \notin {"advance", "waitVar"} \union Writing /\ at'[p] # "waitVar"
  /\ \A q \in Procs \ {p} : Same(q)
  /\ DOMAIN at' = Everyone /\ \A q \in Everyone \ {p} : at'[q] = at[q]
  /\ DOMAIN insertingAt' = Locks
  /\ \E l \in Locks :
       /\ insertLock[l] \in {None, p} /\ insertLock'[l] \in {None, p} /\ insertingAt'[l] \in Nat
       /\ \A m \in Locks \ {l} : insertLock'[m] = insertLock[m] /\ insertingAt'[m] = insertingAt[m]

\* Such a step keeps who waits for whom in order.
LEMMA LocksMoveStep ==
  ASSUME RedoInv, RedoInv', WaitInv, NEW p \in Procs, LocksMove(p), CurrBytePos' = CurrBytePos,
         Inserter(p)'
  PROVE  WaitInv'
<1>1. p \in Everyone /\ Procs \subseteq Everyone /\ WalWriter \notin Procs /\ None \notin Everyone
  BY XLogConstants DEF Everyone
<1>2. Typed /\ PositionsOK /\ HoldersMove /\ WaitOK(p) /\ DOMAIN wait = Everyone
  BY <1>1 DEF RedoInv, WaitInv
<1>3. PICK l \in Locks :
        /\ insertLock[l] \in {None, p} /\ insertLock'[l] \in {None, p} /\ insertingAt'[l] \in Nat
        /\ \A m \in Locks \ {l} : insertLock'[m] = insertLock[m] /\ insertingAt'[m] = insertingAt[m]
  BY DEF LocksMove
<1>4. Still(p)
  <2>1. \A q \in Procs \ {p} : Held(q)' = Held(q) /\ l \notin Held(q)
    BY <1>1, <1>2, <1>3 DEF Typed, Held
  <2>2. \A q \in Procs \ {p} : \A m \in Held(q) : insertingAt'[m] = insertingAt[m]
    BY <1>2, <1>3, <2>1 DEF PositionsOK, Held
  <2> QED BY <1>2, <2>1, <2>2 DEF Still, LocksMove
<1>5. PositionsOK'
  <2>1. DOMAIN insertingAt' = Locks /\ \A m \in Locks : insertingAt'[m] \in Nat
    BY <1>2, <1>3 DEF PositionsOK, LocksMove
  <2> QED BY <1>2, <2>1 DEF PositionsOK, LocksMove
<1>6. HoldersMove'
  <2>1. \A m \in Locks : insertLock'[m] \in Procs \union {None}
    BY <1>2, <1>3 DEF HoldersMove, Typed
  <2>2. WALBufMappingLock # p /\ WALWriteLock # p
    BY <1>1, <1>2 DEF HoldersMove, LocksMove
  <2> QED BY <1>1, <1>2, <2>1, <2>2, HoldersStep DEF LocksMove
<1>7. WaitOK(p)'
  BY DEF WaitOK, LocksMove
<1> QED BY <1>1, <1>2, <1>4, <1>5, <1>6, <1>7, WaitInvStep DEF Typed

\* WALInsertLockRelease.
LEMMA WaitLockRelease ==
  ASSUME RedoInv, RedoInv', WaitInv, NEW p \in Procs, WALInsertLockRelease(p)
  PROVE  WaitInv'
<1>1. p \in Everyone /\ Procs \subseteq Everyone
  BY XLogConstants DEF Everyone
<1>2. Typed /\ Proc(p) /\ PositionsOK
  BY DEF RedoInv, WaitInv
<1>3. at[p] = "release" /\ at'[p] \in {"release", "inserted"}
  BY <1>1, <1>2 DEF Typed, WALInsertLockRelease
<1>4. Held(p) # {}
  BY <1>2, <1>3 DEF Proc, Free, Flushing
<1>5. PICK l \in Locks : l = Min(Held(p)) /\ insertLock[l] = p
  BY <1>4, LeastHeld DEF Held
<1>6. insertLock' = [insertLock EXCEPT ![l] = None] /\ insertingAt' = [insertingAt EXCEPT ![l] = 0]
  BY <1>5 DEF WALInsertLockRelease, Invalid
<1>7. /\ insertLock'[l] = None /\ insertingAt'[l] = 0 /\ DOMAIN insertingAt' = Locks
       /\ \A m \in Locks \ {l} : insertLock'[m] = insertLock[m] /\ insertingAt'[m] = insertingAt[m]
  BY <1>2, <1>6 DEF Typed, PositionsOK
<1>8. \A q \in Everyone \ {p} : at'[q] = at[q]
  BY <1>1, <1>2 DEF Typed, WALInsertLockRelease
<1>9. \A q \in Procs \ {p} : Same(q)
  BY <1>1, <1>8 DEF Same, WALInsertLockRelease
<1>10. UNCHANGED <<CurrBytePos, InitializedUpTo, xlblocks, logInsertResult, WALBufMappingLock, WALWriteLock, wait>>
      /\ DOMAIN at' = Everyone
  BY <1>2 DEF WALInsertLockRelease, Typed
<1>11. LocksMove(p)
  BY <1>3, <1>5, <1>7, <1>8, <1>9, <1>10 DEF LocksMove, Writing
<1>12. Inserter(p)'
  BY <1>3 DEF Inserter, Inserts, Free
<1> QED BY <1>10, <1>11, <1>12, LocksMoveStep

\* WALInsertLockAcquire: with one lock, the record at its reservation.
LEMMA WaitLockAcquire ==
  ASSUME RedoInv, RedoInv', WaitInv, NEW p \in Procs, WALInsertLockAcquire(p)
  PROVE  WaitInv'
<1>1. p \in Everyone /\ Procs \subseteq Everyone /\ None \notin Everyone
  BY XLogConstants DEF Everyone
<1>2. Typed /\ Proc(p) /\ PositionsOK
  BY DEF RedoInv, WaitInv
<1>3. /\ at[p] \in {"idle", "lockWait"} /\ ~Exclusive(p) /\ insertLock[lockNo[p]] = None
      /\ at'[p] \in {"idle", "reserve"}
  BY <1>1, <1>2 DEF WALInsertLockAcquire, Idle, Proc, Typed
<1>4. PICK l \in Locks : l = lockNo[p]
  BY <1>2 DEF Proc
<1>5. \A q \in Everyone \ {p} : at'[q] = at[q]
  BY <1>1, <1>2 DEF Typed, WALInsertLockAcquire
<1>6. \A q \in Procs \ {p} : Same(q)
  BY <1>1, <1>2, <1>5 DEF Same, Typed, WALInsertLockAcquire
<1>7. UNCHANGED <<CurrBytePos, InitializedUpTo, xlblocks, logInsertResult, WALBufMappingLock, WALWriteLock, wait, todo,
                  insertingAt>>
      /\ DOMAIN at' = Everyone
  BY <1>2 DEF WALInsertLockAcquire, Typed
<1>8. insertingAt'[l] \in Nat /\ DOMAIN insertingAt' = Locks
  BY <1>2, <1>7 DEF PositionsOK
<1>9. CASE at'[p] = "idle"
  <2>1. insertLock' = insertLock
    BY <1>1, <1>2, <1>9 DEF WALInsertLockAcquire, Typed
  <2>2. LocksMove(p)
    BY <1>3, <1>4, <1>5, <1>6, <1>7, <1>8, <2>1 DEF LocksMove, Writing
  <2>3. Inserter(p)'
    BY <1>9 DEF Inserter, Inserts, Free
  <2> QED BY <1>7, <2>2, <2>3, LocksMoveStep
<1>10. CASE at'[p] = "reserve"
  <2>1. insertLock' = [insertLock EXCEPT ![l] = p]
    BY <1>1, <1>2, <1>4, <1>10 DEF WALInsertLockAcquire, Typed
  <2>2. insertLock'[l] = p /\ \A m \in Locks \ {l} : insertLock'[m] = insertLock[m]
    BY <1>2, <2>1 DEF Typed
  <2>3. LocksMove(p)
    BY <1>3, <1>4, <1>5, <1>6, <1>7, <1>8, <2>2 DEF LocksMove, Writing
  <2>4. Held(p) = {}
    BY <1>2, <1>3 DEF Proc, Free
  <2>5. Held(p)' = {l}
    BY <1>2, <2>1, <2>4 DEF Held, Typed
  <2>6. ~Exclusive(p)'
    BY <1>3, <1>7 DEF Exclusive, Job
  <2>7. LocksOf(p)'
    BY <2>5, <2>6 DEF LocksOf
  <2>8. Max(Held(p))' = l
    <3>1. Max({l}) = l
      <4>1. l \in {l} /\ (\A m \in {l} : l >= m) /\ {l} \subseteq Nat
        BY LocksNumbered
      <4> QED BY <4>1, TopOf
    <3> QED BY <2>5, <3>1 DEF Max
  <2>9. Inserter(p)'
    BY <1>10, <2>5, <2>7, <2>8 DEF Inserter, Advancing
  <2> QED BY <1>7, <2>3, <2>9, LocksMoveStep
<1> QED BY <1>3, <1>9, <1>10

\* WALInsertLockAcquireExclusive: all but the last of the locks say that nobody need wait for them.
LEMMA WaitLockAll ==
  ASSUME RedoInv, RedoInv', WaitInv, NEW p \in Procs, WALInsertLockAcquireExclusive(p)
  PROVE  WaitInv'
<1>1. p \in Everyone /\ Procs \subseteq Everyone /\ None \notin Everyone
  BY XLogConstants DEF Everyone
<1>2. Typed /\ Proc(p) /\ PositionsOK /\ Inserter(p)
  BY DEF RedoInv, WaitInv
<1>3. All \in Nat \ {0} /\ Locks = 1..All
  BY LocksNumbered
<1>4. /\ at[p] \in {"idle", "lockAll"} /\ Exclusive(p)
  BY <1>2 DEF WALInsertLockAcquireExclusive, Idle, Proc
<1>5. PICK k \in 0..(All - 1) : Held(p) = 1..k /\ (at[p] = "idle" => k = 0)
  <2>1. CASE at[p] = "idle"
    <3>1. Held(p) = {} /\ 1..0 = {}
      BY <1>2, <2>1 DEF Proc, Free
    <3> QED BY <1>3, <3>1
  <2>2. CASE at[p] = "lockAll"
    BY <1>2, <1>3, <2>2 DEF Proc
  <2> QED BY <1>4, <2>1, <2>2
<1>6. PICK l \in Locks : l = k + 1 /\ l = Cardinality(Held(p)) + 1
  BY <1>3, <1>5, CardinalityOfNumbers
<1>7. /\ insertLock[l] = None /\ insertLock' = [insertLock EXCEPT ![l] = p]
      /\ insertingAt' = Passable(l)
      /\ at' = [at EXCEPT ![p] = IF l = All THEN "reserve" ELSE "lockAll"]
  BY <1>6 DEF WALInsertLockAcquireExclusive
<1>8. PICK n \in Nat : insertingAt' = [insertingAt EXCEPT ![l] = n] /\ (l < All => n = MaxPtr)
  <2>1. MaxPtr \in Nat
    BY SMT DEF MaxPtr
  <2>2. insertingAt[l] \in Nat
    BY <1>2 DEF PositionsOK
  <2>3. PICK n \in Nat : n = IF l < All THEN MaxPtr ELSE insertingAt[l]
    BY <2>1, <2>2
  <2> QED BY <1>7, <2>3 DEF Passable
<1>9. \A q \in Everyone \ {p} : at'[q] = at[q]
  BY <1>1, <1>2, <1>7 DEF Typed
<1>10. \A q \in Procs \ {p} : Same(q)
  BY <1>1, <1>2, <1>9 DEF Same, Typed, WALInsertLockAcquireExclusive
<1>11. UNCHANGED <<CurrBytePos, InitializedUpTo, xlblocks, logInsertResult, WALBufMappingLock, WALWriteLock, wait, todo>>
       /\ DOMAIN at' = Everyone /\ at'[p] = IF l = All THEN "reserve" ELSE "lockAll"
  BY <1>1, <1>2, <1>7 DEF WALInsertLockAcquireExclusive, Typed
<1>12. LocksMove(p)
  <2>1. /\ insertLock'[l] = p /\ insertingAt'[l] = n /\ DOMAIN insertingAt' = Locks
        /\ \A m \in Locks \ {l} : insertLock'[m] = insertLock[m] /\ insertingAt'[m] = insertingAt[m]
    BY <1>2, <1>7, <1>8 DEF Typed, PositionsOK
  <2>2. at'[p] # "waitVar"
    BY <1>11
  <2> QED BY <1>4, <1>7, <1>9, <1>10, <1>11, <2>1, <2>2 DEF LocksMove, Writing
<1>13. Held(p)' = 1..l
  <2>1. Held(p)' = Held(p) \union {l}
    BY <1>2, <1>6, <1>7 DEF Typed, Held
  <2> QED BY <1>3, <1>5, <1>6, <2>1
<1>14. \A m \in 1..l : m < All => insertingAt'[m] = MaxPtr
  <2>1. \A m \in 1..k : insertingAt[m] = MaxPtr
    BY <1>2, <1>3, <1>4, <1>5 DEF Inserter
  <2>2. \A m \in 1..l : m \in 1..k \/ m = l
    BY <1>3, <1>6
  <2>3. \A m \in 1..k : m \in Locks /\ m # l
    BY <1>3, <1>6
  <2>4. \A m \in 1..k : insertingAt'[m] = insertingAt[m]
    BY <1>2, <1>8, <2>3 DEF PositionsOK
  <2>5. insertingAt'[l] = n
    BY <1>2, <1>8 DEF PositionsOK
  <2> QED BY <1>8, <2>1, <2>2, <2>4, <2>5
<1>15. Inserter(p)'
  <2>1. CASE l = All
    <3>1. Held(p)' = Locks /\ Exclusive(p)'
      BY <1>3, <1>4, <1>11, <1>13, <2>1 DEF Exclusive, Job
    <3>2. LocksOf(p)'
      BY <3>1 DEF LocksOf
    <3>3. Max(Held(p))' = All
      <4>1. Max(Locks) = All
        <5>1. All \in Locks /\ (\A m \in Locks : All >= m) /\ Locks \subseteq Nat
          BY <1>3
        <5> QED BY <5>1, TopOf
      <4> QED BY <3>1, <4>1 DEF Max
    <3>4. \A m \in (Held(p) \ {Max(Held(p))})' : insertingAt'[m] = MaxPtr
      BY <1>3, <1>14, <2>1, <3>1, <3>3
    <3> QED BY <1>11, <2>1, <3>2, <3>4 DEF Inserter, Advancing
  <2>2. CASE l # All
    <3>1. \A m \in 1..l : m < All
      BY <1>3, <2>2
    <3> QED BY <1>11, <1>13, <1>14, <2>2, <3>1 DEF Inserter, Inserts
  <2> QED BY <2>1, <2>2
<1> QED BY <1>11, <1>12, <1>15, LocksMoveStep

\* A segment's first byte position ends where the segment begins.
LEMMA SegmentEnd ==
  ASSUME NEW s \in Nat
  PROVE  XLogBytePosToEndRecPtr(XLogRecPtrToBytePos(s * SegSize)) = s * SegSize
<1>1. PICK U \in Nat \ {0}, S \in Nat \ {0} : U = UsableBytesInSegment /\ S = SegSize
  BY Sizes
<1>2. (s * U) % U = 0 /\ (s * U) \div U = s
  BY MultipleOf
<1>3. XLogBytePosToEndRecPtr(s * U) = s * S + EndOffset(0)
  BY <1>1, <1>2 DEF XLogBytePosToEndRecPtr, EndOffset
<1>4. EndOffset(0) = 0
  BY Sizes DEF EndOffset, SegOffset
<1>5. XLogRecPtrToBytePos(s * S) = s * U
  BY <1>1, SegmentBegin
<1>6. s * S + 0 = s * S
  OBVIOUS
<1> QED BY <1>1, <1>3, <1>4, <1>5, <1>6

\* The end of a segment is a multiple of its size.
LEMMA SegmentMultiple ==
  ASSUME NEW e \in Nat, NEW end, end = IF e % SegSize = 0 THEN e ELSE e - (e % SegSize) + SegSize
  PROVE  \E s \in Nat : end = s * SegSize
<1>1. PICK S \in Nat \ {0} : S = SegSize
  BY Sizes
<1>2. PICK k \in Nat, o \in Nat : k = e \div S /\ o = e % S /\ e = k * S + o
  BY Quotient
<1>3. PICK x \in Nat : x = k * S
  OBVIOUS
<1>4. CASE o = 0
  <2>1. end = k * S
    BY <1>1, <1>2, <1>3, <1>4
  <2> QED BY <1>1, <2>1
<1>5. CASE o # 0
  <2>1. end = x + S
    BY <1>1, <1>2, <1>3, <1>5
  <2>2. x + S = (k + 1) * S
    BY <1>3
  <2>3. PICK s \in Nat : s = k + 1
    OBVIOUS
  <2>4. end = s * SegSize
    BY <1>1, <2>1, <2>2, <2>3
  <2> QED BY <2>4
<1> QED BY <1>4, <1>5

\* A reservation.
LEMMA ReservedWait ==
  ASSUME RedoInv, RedoInv', WaitInv, NEW p \in Procs, NEW next, NEW end, Reserved(p, next, end),
         XLogBytePosToEndRecPtr(next) <= Horizon,
         UNCHANGED <<InitializedUpTo, xlblocks, logInsertResult, WALBufMappingLock, WALWriteLock, wait, insertingAt>>
  PROVE  WaitInv'
<1>1. p \in Everyone /\ Procs \subseteq Everyone /\ WalWriter \notin Procs /\ None \notin Everyone
  BY XLogConstants DEF Everyone
<1>2. Typed /\ PositionsOK /\ HoldersMove /\ WaitOK(p) /\ DOMAIN wait = Everyone /\ Proc(p) /\ Inserter(p)
  BY <1>1 DEF RedoInv, WaitInv
<1>3. /\ at[p] = "reserve" /\ CurrBytePos' = next /\ at' = [at EXCEPT ![p] = "buffer"]
      /\ UNCHANGED <<insertLock, caller, todo, lockNo, doPageWrites, pageLSN>>
  BY DEF Reserved
<1>4. at'[p] = "buffer" /\ \A q \in Everyone \ {p} : at'[q] = at[q]
  BY <1>1, <1>2, <1>3 DEF Typed
<1>5. todo[p] # <<>> /\ Job(p) \in Jobs
  BY <1>2, <1>3, JobsLeft DEF Proc
<1>6. PICK len \in Nat \ {0} : len = Job(p).len
  BY <1>5 DEF Jobs
<1>7. next \in Nat /\ CurrBytePos < next /\ CurrBytePos \in Nat
  BY <1>2, <1>6, ReservesLater DEF Typed, Reserved
<1>8. Still(p)
  <2>1. \A q \in Procs \ {p} : rec'[q] = rec[q] /\ redo'[q] = redo[q]
    BY <1>2 DEF Typed, Reserved
  <2>2. \A q \in Procs \ {p} : Same(q)
    BY <1>1, <1>3, <1>4, <2>1 DEF Same
  <2> QED BY <1>2, <1>3, <1>4, <2>2 DEF Still, Held
<1>9. PositionsOK'
  <2>1. XLogBytePosToEndRecPtr(CurrBytePos)' <= Horizon
    BY <1>3 DEF XLogBytePosToEndRecPtr
  <2> QED BY <1>2, <2>1 DEF PositionsOK
<1>10. HoldersMove'
  <2>1. \A l \in Locks : insertLock'[l] \in Procs \union {None}
    BY <1>2, <1>3 DEF HoldersMove
  <2>2. WALBufMappingLock # p /\ WALWriteLock # p
    BY <1>1, <1>2, <1>3 DEF HoldersMove, Writing
  <2> QED BY <1>1, <1>2, <1>4, <2>1, <2>2, HoldersStep
<1>11. WaitOK(p)'
  BY <1>4 DEF WaitOK
<1>12. Inserter(p)'
  <2>1. Inserts(p) /\ LocksOf(p)
    BY <1>2, <1>3 DEF Proc, Inserts, Free, Inserter, Flushing
  <2>2. Held(p)' = Held(p) /\ (Exclusive(p)' <=> Exclusive(p)) /\ Max(Held(p))' = Max(Held(p))
    BY <1>3 DEF Held, Exclusive, Job, Max
  <2>3. LocksOf(p)'
    BY <2>1, <2>2 DEF LocksOf
  <2>4. \A l \in (Held(p) \ {Max(Held(p))})' : insertingAt'[l] = MaxPtr
    BY <1>2, <2>1, <2>2 DEF Inserter
  <2>5. NextPtr \in Nat
    BY ReservedRecord
  <2>6. rec'[p] = [start |-> NextPtr, end |-> end, curr |-> NextPtr, left |-> len]
    BY <1>2, <1>6 DEF Typed, Reserved
  <2>7. DOMAIN rec'[p] = {"start", "end", "curr", "left"} /\ rec'[p].curr \in Nat /\ rec'[p].left \in Nat
    BY <2>5, <2>6
  <2>8. CurrBytePos' >= 1
    BY <1>3, <1>7
  <2> QED BY <1>4, <2>3, <2>4, <2>7, <2>8 DEF Inserter, Advancing
<1>13. CurrBytePos <= CurrBytePos'
  BY <1>3, <1>7
<1> QED BY <1>1, <1>8, <1>9, <1>10, <1>11, <1>12, <1>13, WaitInvStep

\* ReserveXLogInsertLocation.
LEMMA WaitReserve ==
  ASSUME RedoInv, RedoInv', WaitInv, NEW p \in Procs, ReserveXLogInsertLocation(p)
  PROVE  WaitInv'
<1>1. PICK next, end : /\ next = CurrBytePos + Job(p).len /\ end = XLogBytePosToEndRecPtr(next)
                       /\ Reserve(p, next, end) /\ end <= Horizon
  BY DEF ReserveXLogInsertLocation
<1>2. Reserves(CurrBytePos, Job(p).len, next, end)
  BY <1>1 DEF Reserves
<1>3. \/ UNCHANGED <<RedoRecPtr, redo>>
      \/ Exclusive(p) /\ RedoRecPtr' = NextPtr /\ redo' = [redo EXCEPT ![p] = NextPtr]
  BY DEF ReserveXLogInsertLocation, Exclusive, NextPtr
<1>4. UNCHANGED <<insertLock, caller, todo, lockNo, doPageWrites, pageLSN>> /\ at[p] = "reserve"
  BY DEF ReserveXLogInsertLocation
<1>5. Reserved(p, next, end)
  BY <1>1, <1>2, <1>3, <1>4 DEF Reserved, Reserve, NextPtr
<1>6. UNCHANGED <<InitializedUpTo, xlblocks, logInsertResult, WALBufMappingLock, WALWriteLock, wait, insertingAt>>
  BY DEF ReserveXLogInsertLocation
<1> QED BY <1>1, <1>5, <1>6, ReservedWait

\* ReserveXLogSwitch.
LEMMA WaitSwitch ==
  ASSUME RedoInv, RedoInv', WaitInv, NEW p \in Procs, ReserveXLogSwitch(p)
  PROVE  WaitInv'
<1>1. p \in Everyone /\ Procs \subseteq Everyone /\ WalWriter \notin Procs /\ None \notin Everyone
  BY XLogConstants DEF Everyone
<1>2. Typed /\ Proc(p) /\ at[p] = "reserve" /\ Exclusive(p) /\ PositionsOK /\ HoldersMove /\ DOMAIN wait = Everyone
  BY DEF RedoInv, WaitInv, ReserveXLogSwitch, Exclusive
<1>3. /\ UNCHANGED <<RedoRecPtr, insertLock, caller, todo, lockNo, redo, doPageWrites, pageLSN>>
      /\ UNCHANGED <<InitializedUpTo, xlblocks, logInsertResult, WALBufMappingLock, WALWriteLock, wait, insertingAt>>
  BY DEF ReserveXLogSwitch
<1>4. CASE XLogBytePosToEndRecPtr(CurrBytePos) % SegSize = 0
  <2>1. PICK ptr : rec' = [rec EXCEPT ![p] = [start |-> ptr, end |-> ptr, curr |-> ptr, left |-> 0]]
    BY <1>4 DEF ReserveXLogSwitch
  <2>2. at' = [at EXCEPT ![p] = "release"] /\ UNCHANGED CurrBytePos
    BY <1>4 DEF ReserveXLogSwitch
  <2>3. at'[p] = "release" /\ \A q \in Everyone \ {p} : at'[q] = at[q]
    BY <1>1, <1>2, <2>2 DEF Typed
  <2>4. Still(p)
    <3>1. \A q \in Procs \ {p} : Same(q)
      BY <1>1, <1>2, <1>3, <2>1, <2>3 DEF Typed, Same
    <3> QED BY <1>2, <1>3, <2>3, <3>1 DEF Still, Held
  <2>5. PositionsOK'
    BY <1>2, <1>3, <2>2 DEF PositionsOK
  <2>6. HoldersMove'
    <3>1. \A l \in Locks : insertLock'[l] \in Procs \union {None}
      BY <1>2, <1>3 DEF HoldersMove
    <3>2. WALBufMappingLock # p /\ WALWriteLock # p
      BY <1>1, <1>2 DEF HoldersMove, Writing
    <3> QED BY <1>1, <1>2, <1>3, <2>3, <3>1, <3>2, HoldersStep
  <2>7. WaitOK(p)' /\ Inserter(p)'
    BY <2>3 DEF WaitOK, Inserter, Inserts
  <2> QED BY <1>1, <1>2, <2>2, <2>4, <2>5, <2>6, <2>7, WaitInvStep DEF Typed
<1>5. CASE XLogBytePosToEndRecPtr(CurrBytePos) % SegSize # 0
  <2>1. PICK next, end, e :
          /\ e = XLogBytePosToEndRecPtr(CurrBytePos + Job(p).len)
          /\ end = IF e % SegSize = 0 THEN e ELSE e - (e % SegSize) + SegSize
          /\ next = XLogRecPtrToBytePos(end) /\ Reserve(p, next, end) /\ end <= Horizon
    BY <1>5 DEF ReserveXLogSwitch
  <2>2. Reserves(CurrBytePos, Job(p).len, next, end)
    BY <1>5, <2>1 DEF Reserves
  <2>3. Reserved(p, next, end)
    BY <1>2, <1>3, <2>1, <2>2 DEF Reserved, Reserve, NextPtr
  <2>4. e \in Nat
    <3>1. todo[p] # <<>> /\ Job(p) \in Jobs
      BY <1>2, JobsLeft DEF Proc
    <3>2. CurrBytePos + Job(p).len \in Nat
      BY <1>2, <3>1 DEF Typed, Jobs
    <3> QED BY <2>1, <3>2, PointersMonotone
  <2>5. PICK s \in Nat : end = s * SegSize
    BY <2>1, <2>4, SegmentMultiple
  <2>6. XLogBytePosToEndRecPtr(next) = end
    BY <2>1, <2>5, SegmentEnd
  <2> QED BY <1>3, <2>1, <2>3, <2>6, ReservedWait
<1> QED BY <1>4, <1>5

\* Quotient and remainder are unique.
LEMMA QuotientOf ==
  ASSUME NEW n \in Nat \ {0}, NEW k \in Nat, NEW r \in Nat, r < n
  PROVE  (k * n + r) \div n = k /\ (k * n + r) % n = r
<1>1. PICK a \in Nat : a = k * n + r
  OBVIOUS
<1>2. PICK q \in Nat, m \in Nat : q = a \div n /\ m = a % n /\ m < n /\ a = q * n + m
  BY Quotient
<1>3. PICK x \in Nat, y \in Nat : x = k * n /\ y = q * n
  OBVIOUS
<1>4. ~(k < q)
  <2> SUFFICES ASSUME k < q PROVE FALSE
    OBVIOUS
  <2>1. k + 1 <= q
    OBVIOUS
  <2>2. (k + 1) * n <= q * n
    BY <2>1, TimesMonotone
  <2>3. (k + 1) * n = k * n + n
    OBVIOUS
  <2> QED BY <1>1, <1>2, <1>3, <2>2, <2>3
<1>5. ~(q < k)
  <2> SUFFICES ASSUME q < k PROVE FALSE
    OBVIOUS
  <2>1. q + 1 <= k
    OBVIOUS
  <2>2. (q + 1) * n <= k * n
    BY <2>1, TimesMonotone
  <2>3. (q + 1) * n = q * n + n
    OBVIOUS
  <2> QED BY <1>1, <1>2, <1>3, <2>2, <2>3
<1>6. q = k
  BY <1>4, <1>5
<1>7. m = r
  BY <1>1, <1>2, <1>3, <1>6
<1> QED BY <1>1, <1>2, <1>6, <1>7

\* When the server comes up the next record goes behind the end of the log.
LEMMA StartEnd ==
  ASSUME NEW end \in Starts
  PROVE  /\ end \in Nat /\ end <= Horizon /\ Horizon \in Nat
         /\ XLogBytePosToEndRecPtr(XLogRecPtrToBytePos(end)) = end
<1>1. end \in Nat /\ end <= Horizon /\ Horizon \in Nat
      /\ (end % XLOG_BLCKSZ = 0 \/ end % XLOG_BLCKSZ > HeaderSize(end))
  BY XLogConstants, PositionsAssumption
<1>2. PICK B \in Nat \ {0}, S \in Nat \ {0}, U \in Nat \ {0}, V \in Nat \ {0}, F \in Nat \ {0}, P \in Nat \ {0} :
        B = XLOG_BLCKSZ /\ S = SegSize /\ U = UsableBytesInSegment /\ V = UsableBytesInPage /\ F = FirstPageBytes
        /\ P = PagesPerSegment
  BY Sizes
<1>3. PICK short \in Nat \ {0}, long \in Nat \ {0} :
        short = SizeOfXLogShortPHD /\ long = SizeOfXLogLongPHD /\ short <= long /\ B = F + long /\ B = V + short
  BY <1>2, Sizes, XLogConstants
<1>4. S = P * B /\ U = F + (P - 1) * V
  BY <1>2 DEF SegSize, UsableBytesInSegment
<1>5. PICK s \in Nat, o \in Nat : s = end \div S /\ o = end % S /\ o < S /\ end = s * S + o
  BY <1>1, Quotient
<1>6. PICK g \in Nat, off \in Nat : g = o \div B /\ off = o % B /\ off < B /\ o = g * B + off
  BY Quotient
<1>7. end % B = off
  <2>1. PICK k \in Nat : k = s * P + g
    OBVIOUS
  <2>2. k * B = s * S + g * B
    BY <1>4, <2>1
  <2>3. PICK x \in Nat, y \in Nat, z \in Nat : x = s * S /\ y = g * B /\ z = k * B
    OBVIOUS
  <2>4. end = x + o
    BY <1>5, <2>3
  <2>5. o = y + off
    BY <1>6, <2>3
  <2>6. z = x + y
    BY <2>2, <2>3
  <2>7. end = z + off
    BY ONLY <2>4, <2>5, <2>6, <1>1, x \in Nat, y \in Nat, z \in Nat, off \in Nat
  <2> QED BY <1>6, <2>3, <2>7, QuotientOf
<1>8. g <= P - 1
  <2> SUFFICES ASSUME P <= g PROVE FALSE
    OBVIOUS
  <2>1. P * B <= g * B
    BY TimesMonotone
  <2>2. PICK x \in Nat, y \in Nat : x = g * B /\ y = P * B
    OBVIOUS
  <2> QED BY <1>4, <1>5, <1>6, <2>1, <2>2
<1>9. PICK h \in Nat : h = HeaderSize(end) /\ (h = short \/ h = long) /\ (off = 0 \/ off > h)
  BY <1>1, <1>2, <1>3, <1>7 DEF HeaderSize
<1>10. PICK w \in Nat : w = (IF off = 0 THEN 0 ELSE off - h) /\ w < V /\ (w = 0 <=> off = 0) /\ (off # 0 => w + h = off)
  BY <1>3, <1>6, <1>9
<1>11. PICK left \in Nat : /\ left = (IF g = 0 THEN 0 ELSE F + (g - 1) * V) + w
                           /\ left < U /\ EndOffset(left) = o
  <2>1. CASE g = 0
    <3>1. o = off
      BY <1>6, <2>1
    <3>2. PageBegin(end) = s * S
      <4>1. PICK x \in Nat : x = s * S
        OBVIOUS
      <4> QED BY <1>2, <1>5, <1>7, <3>1, <4>1 DEF PageBegin
    <3>3. h = long
      <4>1. PageBegin(end) % SegSize = 0
        BY <1>2, <3>2, MultipleOf
      <4> QED BY <1>3, <1>9, <4>1 DEF HeaderSize
    <3>4. w < F
      BY <1>3, <1>6, <1>10, <3>3
    <3>5. EndOffset(w) = IF w = 0 THEN 0 ELSE w + long
      BY <1>2, <1>3, <3>4 DEF EndOffset, SegOffset
    <3>6. EndOffset(w) = o
      BY <1>10, <3>1, <3>3, <3>5
    <3>7. F <= U
      <4>1. PICK m \in Nat : m = P - 1
        OBVIOUS
      <4>2. PICK x \in Nat : x = m * V
        OBVIOUS
      <4> QED BY <1>4, <4>1, <4>2
    <3> QED BY <2>1, <3>4, <3>6, <3>7
  <2>2. CASE g # 0
    <3>1. PICK m \in Nat : m = g - 1
      BY <2>2
    <3>2. PICK x \in Nat, y \in Nat : x = m * V /\ y = m * B
      OBVIOUS
    <3>3. PICK left \in Nat : left = F + x + w
      OBVIOUS
    <3>4. (m * V + w) \div V = m /\ (m * V + w) % V = w
      BY <1>10, QuotientOf
    <3>5. left - F = m * V + w /\ ~(left < F)
      BY <3>2, <3>3
    <3>6. EndOffset(left) = B + m * B + w + (IF w = 0 THEN 0 ELSE short)
      BY <1>2, <1>3, <3>4, <3>5 DEF EndOffset, SegOffset
    <3>7. g * B = m * B + B
      BY <3>1
    <3>8. EndOffset(left) = o
      <4>1. PICK z \in Nat : z = g * B /\ z # 0 /\ z < S
        <5>1. g * B = y + B
          BY <3>2, <3>7
        <5>2. g * B <= (P - 1) * B /\ (P - 1) * B = P * B - B
          BY <1>8, TimesMonotone
        <5>3. PICK u \in Nat : u = P * B
          OBVIOUS
        <5> QED BY <1>4, <5>1, <5>2, <5>3
      <4>2. PageBegin(end) = s * S + z
        <5>1. PICK u \in Nat : u = s * S
          OBVIOUS
        <5> QED BY <1>2, <1>5, <1>6, <1>7, <4>1, <5>1 DEF PageBegin
      <4>3. PageBegin(end) % S = z
        <5>1. (s * S + z) % S = z
          BY <4>1, QuotientOf
        <5> QED BY <4>2, <5>1
      <4>4. h = short
        BY <1>2, <1>3, <1>9, <4>1, <4>3 DEF HeaderSize
      <4> QED BY <1>6, <1>10, <3>2, <3>6, <3>7, <4>4
    <3>9. left < U
      <4>1. m + 1 <= P - 1
        BY <1>8, <3>1
      <4>2. (m + 1) * V <= (P - 1) * V
        BY <4>1, TimesMonotone
      <4>3. (m + 1) * V = m * V + V
        OBVIOUS
      <4>4. PICK z \in Int : z = (P - 1) * V
        OBVIOUS
      <4> QED BY <1>4, <1>10, <3>2, <3>3, <4>2, <4>3, <4>4
    <3> QED BY <2>2, <3>1, <3>2, <3>3, <3>8, <3>9
  <2> QED BY <2>1, <2>2
<1>12. XLogRecPtrToBytePos(end) = s * U + left
  <2>1. XLogRecPtrToBytePos(end) = s * U + (IF g = 0 THEN 0 ELSE F + (g - 1) * V) + w
    BY <1>2, <1>5, <1>6, <1>7, <1>9, <1>10 DEF XLogRecPtrToBytePos
  <2>2. PICK y \in Int : y = IF g = 0 THEN 0 ELSE F + (g - 1) * V
    OBVIOUS
  <2>3. PICK x \in Nat : x = s * U
    OBVIOUS
  <2> QED BY <1>11, <2>1, <2>2, <2>3
<1>13. XLogBytePosToEndRecPtr(s * U + left) = s * S + EndOffset(left)
  <2>1. (s * U + left) \div U = s /\ (s * U + left) % U = left
    BY <1>11, QuotientOf
  <2> QED BY <1>2, <2>1 DEF XLogBytePosToEndRecPtr, EndOffset
<1>14. PICK x \in Nat : x = s * S
  OBVIOUS
<1> QED BY <1>1, <1>5, <1>11, <1>12, <1>13, <1>14

\* The state after StartupXLOG.
LEMMA InitWaitInv == Init => WaitInv
<1> SUFFICES ASSUME Init PROVE WaitInv
  OBVIOUS
<1>1. PICK end \in Starts :
        /\ CurrBytePos = XLogRecPtrToBytePos(end) /\ logInsertResult = end
        /\ InitializedUpTo = IF end % XLOG_BLCKSZ = 0 THEN end ELSE PageEnd(end)
        /\ xlblocks = [i \in 0..(XLogBuffers - 1) |->
                         IF end % XLOG_BLCKSZ # 0 /\ i = BufIdx(end) THEN PageEnd(end) ELSE 0]
        /\ insertLock = [l \in Locks |-> None] /\ insertingAt = [l \in Locks |-> 0]
        /\ WALBufMappingLock = None /\ WALWriteLock = None
        /\ at = [p \in Everyone |-> "idle"] /\ wait = [p \in Everyone |-> None]
  BY DEF Init, Invalid
<1>2. end \in Nat /\ WalWriter \in Everyone /\ Procs \subseteq Everyone
  BY XLogConstants DEF Everyone
<1>3. PageEnd(end) \in Nat /\ PageEnd(end) % XLOG_BLCKSZ = 0
  <2>1. PICK B \in Nat \ {0} : B = XLOG_BLCKSZ
    BY Sizes
  <2>2. PICK k \in Nat, o \in Nat : o = end % B /\ end = k * B + o
    BY <1>2, Quotient
  <2>3. PICK x \in Nat : x = k * B
    OBVIOUS
  <2>4. PageEnd(end) = x + B
    BY <2>1, <2>2, <2>3 DEF PageEnd, PageBegin
  <2>5. x % B = 0
    BY <2>3, MultipleOf
  <2> QED BY <2>1, <2>4, <2>5, NextPage
<1>4. InitializedUpTo \in Nat /\ InitializedUpTo % XLOG_BLCKSZ = 0
  BY <1>1, <1>2, <1>3
<1>5. DOMAIN xlblocks = 0..(XLogBuffers - 1)
  BY <1>1
<1>6. ASSUME NEW i \in 0..(XLogBuffers - 1) PROVE xlblocks[i] \in Nat /\ xlblocks[i] <= InitializedUpTo
  BY <1>1, <1>2, <1>3, <1>4
<1>7. PositionsOK
  BY <1>1, <1>2, <1>4, <1>5, <1>6, StartEnd DEF PositionsOK
<1>8. HoldersMove
  BY <1>1, <1>2 DEF HoldersMove
<1>9. \A p \in Everyone : WaitOK(p)
  BY <1>1 DEF WaitOK
<1>10. \A p \in Procs : Inserter(p)
  BY <1>1, <1>2 DEF Inserter, Inserts, Free
<1> QED BY <1>1, <1>7, <1>8, <1>9, <1>10 DEF WaitInv

\* Nothing happens.
LEMMA StutterWaitInv ==
  ASSUME RedoInv, RedoInv', WaitInv, UNCHANGED vars
  PROVE  WaitInv'
<1>1. /\ UNCHANGED <<CurrBytePos, InitializedUpTo, xlblocks, logInsertResult, insertLock, insertingAt>>
      /\ UNCHANGED <<WALBufMappingLock, WALWriteLock, at, caller, todo, rec, lockNo, redo, doPageWrites, pageLSN, wait>>
  BY DEF vars
<1>2. WalWriter \in Everyone /\ WalWriter \notin Procs
  BY XLogConstants DEF Everyone
<1>3. PositionsOK /\ HoldersMove /\ WaitOK(WalWriter) /\ DOMAIN wait = Everyone /\ CurrBytePos \in Nat
  BY <1>2 DEF WaitInv, RedoInv, Typed
<1>4. Still(WalWriter)
  BY <1>1, <1>3 DEF Still, Same, Held
<1>5. PositionsOK' /\ HoldersMove' /\ WaitOK(WalWriter)'
  BY <1>1, <1>3 DEF PositionsOK, HoldersMove, WaitOK, Writing
<1> QED BY <1>1, <1>2, <1>3, <1>4, <1>5, WaitInvStep

\* Every step.
LEMMA NextWaitInv == RedoInv /\ RedoInv' /\ WaitInv /\ [Next]_vars => WaitInv'
<1> SUFFICES ASSUME RedoInv, RedoInv', WaitInv, [Next]_vars PROVE WaitInv'
  OBVIOUS
<1>1. Procs \subseteq Everyone
  BY DEF Everyone
<1>2. ASSUME NEW p \in Procs, XLogInsertRecord(p) \/ XLogFlush(p) \/ AcquireOrWait(p) \/ FlushLocked(p) PROVE WaitInv'
  BY <1>1, <1>2, WaitLockBusy, WaitLockAcquire, WaitLockAll, WaitReserve, WaitSwitch, WaitGetBuffer, WaitCopy, WaitSteps,
     WaitLockRelease, WaitFlushSteps DEF XLogInsertRecord
<1>3. ASSUME NEW p \in Everyone, WaitXLogInsertionsToFinish(p) \/ AdvanceXLInsertBuffer(p) \/ XLogWrite(p) PROVE WaitInv'
  BY <1>3, WaitWaitStart, WaitWaitForVar, WaitWaitEnd, WaitSteps, WaitAdvance, WaitPublishFlush
     DEF WaitXLogInsertionsToFinish, AdvanceXLInsertBuffer, XLogWrite
<1>4. CASE XLogBackgroundFlush \/ Done \/ UNCHANGED vars
  BY <1>4, WaitBackgroundFlush, StutterWaitInv DEF Done
<1> QED BY <1>2, <1>3, <1>4 DEF Next

\* Who holds an insertion lock and waits is taking the other locks, or waits for an insertion in
\* order to get a buffer: the other locks it may wait for are held by who never waits.
LEMMA HolderWaits ==
  ASSUME RedoInv, WaitInv, NEW S \in SUBSET Everyone, \A p \in S : \E q \in S : Blocks(q, p),
         NEW p \in S, NEW q \in S, Blocks(q, p)
  PROVE  /\ q \in Procs /\ Held(q) # {}
         /\ at[q] = "lockAll" \/ (at[q] = "waitVar" /\ Inserts(q))
<1>1. ASSUME NEW r \in S, at[r] = "advance" \/ at[r] \in Writing PROVE FALSE
  BY <1>1 DEF Blocks, Writing
<1>2. p \in Everyone /\ q \in Everyone /\ None \notin Everyone /\ WalWriter \notin Procs
  BY XLogConstants DEF Everyone
<1>3. HoldersMove
  BY DEF WaitInv
<1>4. ~(at[p] = "map" /\ WALBufMappingLock = q)
  BY <1>1, <1>2, <1>3 DEF HoldersMove
<1>5. ~(at[p] \in {"writeLock", "waitFree"} /\ WALWriteLock = q)
  BY <1>1, <1>2, <1>3 DEF HoldersMove
<1>6. PICK l \in Locks : insertLock[l] = q
  <2>1. CASE at[p] = "lockWait" /\ insertLock[lockNo[p]] = q
    <3>1. p \in Procs
      BY <1>2, <1>3, <2>1 DEF HoldersMove, Everyone
    <3>2. lockNo[p] \in Locks
      BY <3>1 DEF RedoInv, Proc
    <3> QED BY <2>1, <3>2
  <2>2. CASE at[p] = "lockAll" /\ insertLock[Cardinality(Held(p)) + 1] = q
    <3>1. p \in Procs
      BY <1>2, <1>3, <2>2 DEF HoldersMove, Everyone
    <3>2. PICK k \in 1..(All - 1) : Held(p) = 1..k
      BY <2>2, <3>1 DEF RedoInv, Proc
    <3>3. Cardinality(Held(p)) = k
      BY <3>2, LocksNumbered, CardinalityOfNumbers
    <3> QED BY <2>2, <3>2, <3>3, LocksNumbered
  <2> QED BY <1>4, <1>5, <2>1, <2>2 DEF Blocks
<1>7. q \in Procs
  BY <1>2, <1>3, <1>6 DEF HoldersMove
<1>8. Held(q) # {} /\ ~Free(q)
  BY <1>6, <1>7 DEF Held, RedoInv, Proc
<1>9. PICK r \in S : Blocks(r, q)
  OBVIOUS
<1>10. r \in Everyone
  BY DEF Everyone
<1>11. ~(at[q] = "map" /\ WALBufMappingLock = r)
  BY <1>1, <1>2, <1>3, <1>10 DEF HoldersMove
<1>12. ~(at[q] \in {"writeLock", "waitFree"} /\ WALWriteLock = r)
  BY <1>1, <1>2, <1>3, <1>10 DEF HoldersMove
<1>13. at[q] = "lockAll" \/ at[q] = "waitVar"
  BY <1>8, <1>9, <1>11, <1>12 DEF Blocks, Free
<1> QED BY <1>7, <1>8, <1>13 DEF Inserts

\* Who takes all the locks waits for nobody else who does.
LEMMA OneTakesAll ==
  ASSUME RedoInv, WaitInv, NEW p \in Procs, NEW q \in Procs, at[p] = "lockAll", at[q] = "lockAll", Blocks(q, p)
  PROVE  FALSE
<1>1. PICK j \in 1..(All - 1) : Held(p) = 1..j
  BY DEF RedoInv, Proc
<1>2. PICK k \in 1..(All - 1) : Held(q) = 1..k
  BY DEF RedoInv, Proc
<1>3. Cardinality(Held(p)) = j /\ j + 1 \in Locks /\ 1 \in Locks
  BY <1>1, LocksNumbered, CardinalityOfNumbers
<1>4. insertLock[j + 1] = q
  BY <1>3 DEF Blocks
<1>5. 1 \in Held(p) /\ 1 \in Held(q)
  BY <1>1, <1>2, LocksNumbered
<1>6. p = q
  BY <1>5 DEF Held
<1>7. j + 1 \in Held(p)
  BY <1>3, <1>4, <1>6 DEF Held
<1> QED BY <1>1, <1>7, LocksNumbered

\* Who waits for an insertion waits for one that is further behind.
LEMMA WaitsForEarlier ==
  ASSUME RedoInv, WaitInv, NEW p \in Procs, NEW q \in Procs, at[p] = "waitVar", Inserts(p), Blocks(q, p),
         at[q] = "lockAll" \/ (at[q] = "waitVar" /\ Inserts(q))
  PROVE  /\ at[q] = "waitVar" /\ Inserts(q)
         /\ Position(p) \in Nat /\ Position(q) \in Nat /\ Position(q) < Position(p)
<1> DEFINE l == wait[p].lock
<1>1. l \in Locks /\ insertLock[l] = q /\ insertingAt[l] = wait[p].value
  BY DEF Blocks, ConflictsWithVar
<1>2. /\ wait[p].upto \in Nat /\ wait[p].upto <= Position(p) /\ wait[p].upto >= 1 /\ wait[p].upto <= Horizon
      /\ wait[p].value \in Nat /\ (wait[p].value = 0 \/ wait[p].value < wait[p].upto)
  BY DEF WaitInv, Inserter
<1>3. wait[p].value < wait[p].upto /\ wait[p].value < MaxPtr
  BY <1>2, PositionsAssumption DEF MaxPtr
<1>4. l \in Held(q) /\ insertingAt[l] # MaxPtr
  BY <1>1, <1>2, <1>3 DEF Held, MaxPtr
<1>5. at[q] = "waitVar" /\ Inserts(q)
  BY <1>4 DEF WaitInv, Inserter
<1>6. l = Max(Held(q))
  BY <1>4, <1>5 DEF WaitInv, Inserter
<1>7. Position(q) = wait[p].value
  BY <1>1, <1>6 DEF Position
<1>8. LocksOf(p)
  BY DEF WaitInv, Inserter
<1>9. Position(p) \in Nat
  BY <1>8, TopLock DEF Position, WaitInv, PositionsOK
<1> QED BY <1>2, <1>3, <1>5, <1>7, <1>9

\* The waits have no circle.
LEMMA NoCircle ==
  ASSUME RedoInv, WaitInv
  PROVE  NoWaitCycle
<1> SUFFICES ASSUME NEW S \in (SUBSET Everyone) \ {{}}, \A p \in S : \E q \in S : Blocks(q, p)
             PROVE  FALSE
  BY DEF NoWaitCycle
<1> DEFINE W == {p \in S : p \in Procs /\ at[p] = "waitVar" /\ Inserts(p)}
           N == {n \in Nat : \E p \in W : Position(p) = n}
<1>1. ASSUME NEW p \in W PROVE \E q \in W : Position(p) \in Nat /\ Position(q) \in Nat /\ Position(q) < Position(p)
  <2>1. PICK q \in S : Blocks(q, p)
    OBVIOUS
  <2>2. q \in Procs /\ (at[q] = "lockAll" \/ (at[q] = "waitVar" /\ Inserts(q)))
    BY <2>1, HolderWaits
  <2> QED BY <2>1, <2>2, WaitsForEarlier
<1>2. \E p \in S : p \in W
  <2>1. PICK p0 \in S : TRUE
    OBVIOUS
  <2>2. PICK p \in S : Blocks(p, p0)
    OBVIOUS
  <2>3. p \in Procs /\ (at[p] = "lockAll" \/ (at[p] = "waitVar" /\ Inserts(p)))
    BY <2>2, HolderWaits
  <2>4. PICK q \in S : Blocks(q, p)
    OBVIOUS
  <2>5. q \in Procs /\ (at[q] = "lockAll" \/ (at[q] = "waitVar" /\ Inserts(q)))
    BY <2>4, HolderWaits
  <2> QED BY <2>3, <2>4, <2>5, OneTakesAll
<1>3. N # {}
  BY <1>1, <1>2
<1>4. PICK n \in N : \A m \in N : n <= m
  <2> HIDE DEF W
  <2> QED BY <1>3, LeastNumber
<1>5. PICK p \in W : Position(p) = n
  OBVIOUS
<1>6. PICK q \in W : Position(q) \in Nat /\ Position(q) < Position(p) /\ Position(p) \in Nat
  BY <1>1, <1>5
<1>7. n <= Position(q)
  BY <1>4, <1>6
<1> QED BY <1>5, <1>6, <1>7

(***************************************************************************)
(* A flusher waits for inserters, an inserter that needs a buffer waits    *)
(* for inserters before it while it holds its own lock, and who takes all  *)
(* the locks waits for them one after the other: never in a circle,        *)
(* however many backends, locks and buffers there are.                     *)
(***************************************************************************)
THEOREM NoWaitCycleHolds == Spec => []NoWaitCycle
<1>1. Init => RedoInv /\ WaitInv
  BY InitRedoInv, InitWaitInv
<1>2. RedoInv /\ WaitInv /\ [Next]_vars => (RedoInv /\ WaitInv)'
  BY NextRedoInv, NextWaitInv
<1>3. RedoInv /\ WaitInv => NoWaitCycle
  BY NoCircle
<1> QED BY <1>1, <1>2, <1>3, PTL DEF Spec
(***************************************************************************)
(* Positions and pages.                                                    *)
(***************************************************************************)

\* A position and its page.
LEMMA PageParts ==
  ASSUME NEW ptr \in Nat
  PROVE  /\ PageOf(ptr) \in Nat /\ PageBegin(ptr) \in Nat /\ PageEnd(ptr) \in Nat /\ ptr % XLOG_BLCKSZ \in Nat
         /\ PageBegin(ptr) = PageOf(ptr) * XLOG_BLCKSZ /\ PageEnd(ptr) = PageBegin(ptr) + XLOG_BLCKSZ
         /\ PageEnd(ptr) = (PageOf(ptr) + 1) * XLOG_BLCKSZ
         /\ ptr = PageBegin(ptr) + (ptr % XLOG_BLCKSZ) /\ ptr % XLOG_BLCKSZ < XLOG_BLCKSZ
         /\ PageBegin(ptr) <= ptr /\ ptr < PageEnd(ptr)
         /\ PageBegin(ptr) % XLOG_BLCKSZ = 0 /\ PageEnd(ptr) % XLOG_BLCKSZ = 0
<1>1. PICK B \in Nat \ {0} : B = XLOG_BLCKSZ
  BY Sizes
<1>2. PICK k \in Nat, o \in Nat : k = ptr \div B /\ o = ptr % B /\ o < B /\ ptr = k * B + o
  BY Quotient
<1>3. PICK x \in Nat : x = k * B
  OBVIOUS
<1>4. PageOf(ptr) = k /\ PageBegin(ptr) = x /\ PageEnd(ptr) = x + B
  BY <1>1, <1>2, <1>3 DEF PageOf, PageBegin, PageEnd
<1>5. (k + 1) * B = x + B
  BY <1>3
<1>6. x % B = 0 /\ (x + B) % B = 0
  <2>1. (k * B) % B = 0 /\ ((k + 1) * B) % B = 0
    BY MultipleOf
  <2> QED BY <1>3, <1>5, <2>1
<1> QED BY <1>1, <1>2, <1>3, <1>4, <1>5, <1>6

\* Pages do not overlap.
LEMMA PagesApart ==
  ASSUME NEW m \in Nat, m % XLOG_BLCKSZ = 0, NEW ptr \in Nat
  PROVE  /\ m <= ptr => m <= PageBegin(ptr)
         /\ ptr < m => PageEnd(ptr) <= m
<1>1. PICK B \in Nat \ {0} : B = XLOG_BLCKSZ
  BY Sizes
<1>2. PICK k \in Nat, o \in Nat : k = ptr \div B /\ o = ptr % B /\ o < B /\ ptr = k * B + o
  BY Quotient
<1>3. PICK x \in Nat : x = k * B
  OBVIOUS
<1>4. PageBegin(ptr) = x /\ PageEnd(ptr) = x + B
  BY <1>1, <1>2, <1>3 DEF PageBegin, PageEnd
<1>5. PICK j \in Nat : m = j * B
  <2>1. PICK j \in Nat, r \in Nat : r = m % B /\ m = j * B + r
    BY Quotient, ZenonT(60)
  <2>2. r = 0 /\ j * B + 0 = j * B
    BY <1>1, <2>1
  <2>3. m = j * B
    BY <2>1, <2>2
  <2> QED BY <2>3
<1>6. ASSUME m <= ptr PROVE m <= x
  <2>1. j <= k
    <3> SUFFICES ASSUME k + 1 <= j PROVE FALSE
      OBVIOUS
    <3>1. (k + 1) * B <= j * B
      BY TimesMonotone
    <3>2. (k + 1) * B = x + B
      BY <1>3
    <3> QED BY <1>2, <1>3, <1>5, <1>6, <3>1, <3>2
  <2> QED BY <2>1, <1>3, <1>5, TimesMonotone
<1>7. ASSUME ptr < m PROVE x + B <= m
  <2>1. k + 1 <= j
    <3> SUFFICES ASSUME j <= k PROVE FALSE
      OBVIOUS
    <3>1. j * B <= k * B
      BY TimesMonotone
    <3> QED BY <1>2, <1>3, <1>5, <1>7, <3>1
  <2>2. (k + 1) * B <= j * B
    BY <2>1, TimesMonotone
  <2>3. (k + 1) * B = x + B
    BY <1>3
  <2> QED BY <1>5, <2>2, <2>3
<1> QED BY <1>4, <1>6, <1>7

\* Two positions on one page.
LEMMA SamePage ==
  ASSUME NEW a \in Nat, NEW b \in Nat, PageBegin(a) <= b, b < PageEnd(a)
  PROVE  /\ PageBegin(b) = PageBegin(a) /\ PageEnd(b) = PageEnd(a) /\ PageOf(b) = PageOf(a)
         /\ BufIdx(b) = BufIdx(a) /\ HeaderSize(b) = HeaderSize(a)
<1>1. /\ PageBegin(a) \in Nat /\ PageBegin(b) \in Nat /\ PageEnd(a) \in Nat /\ PageEnd(b) \in Nat
      /\ PageBegin(a) % XLOG_BLCKSZ = 0 /\ PageEnd(a) % XLOG_BLCKSZ = 0
      /\ PageEnd(a) = PageBegin(a) + XLOG_BLCKSZ /\ PageEnd(b) = PageBegin(b) + XLOG_BLCKSZ
      /\ PageOf(a) \in Nat /\ PageOf(b) \in Nat /\ XLOG_BLCKSZ \in Nat \ {0}
      /\ PageBegin(a) = PageOf(a) * XLOG_BLCKSZ /\ PageBegin(b) = PageOf(b) * XLOG_BLCKSZ
  BY PageParts, Sizes
<1>2. PageBegin(a) <= PageBegin(b) /\ PageEnd(b) <= PageEnd(a)
  BY <1>1, PagesApart
<1>3. PageBegin(b) = PageBegin(a) /\ PageEnd(b) = PageEnd(a)
  BY <1>1, <1>2
<1>4. PageOf(b) = PageOf(a)
  <2>1. (PageOf(a) * XLOG_BLCKSZ) \div XLOG_BLCKSZ = PageOf(a) /\ (PageOf(b) * XLOG_BLCKSZ) \div XLOG_BLCKSZ = PageOf(b)
    BY <1>1, MultipleOf
  <2> QED BY <1>1, <1>3, <2>1
<1> QED BY <1>3, <1>4 DEF BufIdx, HeaderSize

\* A segment consists of whole pages.
LEMMA SegmentOfPages ==
  ASSUME NEW m \in Nat, m % SegSize = 0
  PROVE  m % XLOG_BLCKSZ = 0
<1>1. PICK B \in Nat \ {0}, P \in Nat \ {0}, S \in Nat \ {0} :
        B = XLOG_BLCKSZ /\ P = PagesPerSegment /\ S = SegSize /\ S = P * B
  BY Sizes DEF SegSize
<1>2. PICK j \in Nat, r \in Nat : j = m \div S /\ r = m % S /\ m = j * S + r
  BY Quotient
<1>3. m = j * S
  <2>1. r = 0 /\ j * S + 0 = j * S
    BY <1>1, <1>2
  <2> QED BY <1>2, <2>1
<1>4. PICK k \in Nat : k = j * P
  OBVIOUS
<1>5. m = k * B
  BY <1>1, <1>3, <1>4
<1> QED BY <1>1, <1>5, MultipleOf
\* Offsets on page q after the first one of a segment.
LEMMA OffsetOn ==
  ASSUME NEW q \in Nat, NEW off \in Nat, off < UsableBytesInPage
  PROVE  LET left == FirstPageBytes + q * UsableBytesInPage + off
         IN  /\ StartOffset(left) = XLOG_BLCKSZ + q * XLOG_BLCKSZ + off + SizeOfXLogShortPHD
             /\ EndOffset(left) = XLOG_BLCKSZ + q * XLOG_BLCKSZ + off + (IF off = 0 THEN 0 ELSE SizeOfXLogShortPHD)
<1>1. PICK V \in Nat \ {0}, F \in Nat \ {0} : V = UsableBytesInPage /\ F = FirstPageBytes
  BY Sizes
<1>2. (q * V + off) \div V = q /\ (q * V + off) % V = off
  BY <1>1, QuotientOf
<1>3. PICK x \in Nat : x = q * V
  OBVIOUS
<1>4. PICK left \in Nat : left = F + q * V + off /\ left - F = q * V + off /\ ~(left < F)
  BY <1>3
<1>5. StartOffset(left) = XLOG_BLCKSZ + q * XLOG_BLCKSZ + off + SizeOfXLogShortPHD
  BY <1>1, <1>2, <1>4 DEF StartOffset, SegOffset
<1>6. EndOffset(left) = XLOG_BLCKSZ + q * XLOG_BLCKSZ + off + (IF off = 0 THEN 0 ELSE SizeOfXLogShortPHD)
  BY <1>1, <1>2, <1>4 DEF EndOffset, SegOffset
<1> QED BY <1>1, <1>4, <1>5, <1>6

\* The last byte of a segment ends with the segment.
LEMMA OffsetOfAll == EndOffset(UsableBytesInSegment) = SegSize
<1>1. PICK m \in Nat : m = PagesPerSegment - 1 /\ PagesPerSegment = m + 1
  BY Sizes
<1>2. PICK B \in Nat \ {0}, V \in Nat \ {0} : B = XLOG_BLCKSZ /\ V = UsableBytesInPage
  BY Sizes
<1>3. PICK x \in Nat, y \in Nat : x = m * V /\ y = m * B
  OBVIOUS
<1>4. FirstPageBytes + m * V + 0 = UsableBytesInSegment
  BY <1>1, <1>2, <1>3, Sizes DEF UsableBytesInSegment
<1>5. EndOffset(FirstPageBytes + m * V + 0) = B + m * B + 0 + 0
  BY <1>2, OffsetOn
<1>6. (m + 1) * B = m * B + B
  OBVIOUS
<1>7. SegSize = m * B + B
  BY <1>1, <1>2, <1>6 DEF SegSize
<1> QED BY <1>3, <1>4, <1>5, <1>7

\* Where bytes of segment s are.
LEMMA InSegment ==
  ASSUME NEW s \in Nat, NEW left \in Nat, left <= UsableBytesInSegment
  PROVE  /\ XLogBytePosToEndRecPtr(s * UsableBytesInSegment + left) = s * SegSize + EndOffset(left)
         /\ left < UsableBytesInSegment =>
              XLogBytePosToRecPtr(s * UsableBytesInSegment + left) = s * SegSize + StartOffset(left)
<1>1. PICK U \in Nat \ {0}, S \in Nat \ {0} : U = UsableBytesInSegment /\ S = SegSize
  BY Sizes
<1>2. CASE left < U
  <2>1. (s * U + left) \div U = s /\ (s * U + left) % U = left
    BY <1>2, QuotientOf
  <2> QED BY <1>1, <2>1 DEF XLogBytePosToEndRecPtr, XLogBytePosToRecPtr, EndOffset, StartOffset
<1>3. CASE left = U
  <2>1. s * U + U = (s + 1) * U /\ s * S + S = (s + 1) * S
    OBVIOUS
  <2>2. ((s + 1) * U) % U = 0 /\ ((s + 1) * U) \div U = s + 1
    BY MultipleOf
  <2>3. EndOffset(0) = 0
    BY Sizes DEF EndOffset, SegOffset
  <2>4. XLogBytePosToEndRecPtr((s + 1) * U) = (s + 1) * S + 0
    BY <1>1, <2>2, <2>3 DEF XLogBytePosToEndRecPtr, EndOffset
  <2>5. PICK z \in Nat : z = (s + 1) * S
    OBVIOUS
  <2>6. EndOffset(U) = S
    BY <1>1, OffsetOfAll
  <2>7. s * U + left = (s + 1) * U /\ s * S + EndOffset(left) = (s + 1) * S
    BY <1>3, <2>1, <2>6
  <2>8. XLogBytePosToEndRecPtr(s * U + left) = s * S + EndOffset(left)
    BY <2>4, <2>5, <2>7
  <2> QED BY <1>1, <1>3, <2>8
<1> QED BY <1>1, <1>2, <1>3

\* Byte b is number o on the page that begins at begin, whose header has h units.
Place(b, begin, h, o) ==
  /\ begin \in Nat /\ h \in Nat /\ o \in Nat /\ begin % XLOG_BLCKSZ = 0
  /\ h = (IF begin % SegSize = 0 THEN SizeOfXLogLongPHD ELSE SizeOfXLogShortPHD)
  /\ h + o < XLOG_BLCKSZ
  /\ XLogBytePosToRecPtr(b) = begin + h + o
  /\ XLogBytePosToEndRecPtr(b) = IF o = 0 THEN begin ELSE begin + h + o
  /\ \A n \in Nat : 0 < n /\ h + o + n <= XLOG_BLCKSZ => XLogBytePosToEndRecPtr(b + n) = begin + h + o + n

\* A byte of the first page of a segment.
LEMMA PlaceFirst ==
  ASSUME NEW s \in Nat, NEW left \in Nat, left < FirstPageBytes
  PROVE  Place(s * UsableBytesInSegment + left, s * SegSize, SizeOfXLogLongPHD, left)
<1>1. PICK B \in Nat \ {0}, S \in Nat \ {0}, U \in Nat \ {0}, F \in Nat \ {0}, long \in Nat \ {0} :
        B = XLOG_BLCKSZ /\ S = SegSize /\ U = UsableBytesInSegment /\ F = FirstPageBytes /\ long = SizeOfXLogLongPHD
        /\ B = F + long
  BY Sizes
<1>2. F <= U
  <2>1. PICK m \in Nat : m = PagesPerSegment - 1
    BY Sizes
  <2>2. PICK x \in Nat : x = m * UsableBytesInPage
    BY Sizes
  <2>3. U = F + x
    BY <1>1, <2>1, <2>2 DEF UsableBytesInSegment
  <2> QED BY <2>3
<1>3. PICK x \in Nat, y \in Nat : x = s * S /\ y = s * U
  OBVIOUS
<1>4. x % S = 0 /\ x % B = 0
  <2>1. x % S = 0
    BY <1>3, MultipleOf
  <2> QED BY <1>1, <2>1, SegmentOfPages
<1>5. StartOffset(left) = left + long /\ EndOffset(left) = (IF left = 0 THEN 0 ELSE left + long)
  BY <1>1, OffsetParts
<1>6. /\ XLogBytePosToRecPtr(y + left) = x + long + left
      /\ XLogBytePosToEndRecPtr(y + left) = IF left = 0 THEN x ELSE x + long + left
  <2>1. left <= U /\ left < U
    BY <1>1, <1>2
  <2>2. XLogBytePosToRecPtr(y + left) = x + StartOffset(left) /\ XLogBytePosToEndRecPtr(y + left) = x + EndOffset(left)
    BY <1>1, <1>3, <2>1, InSegment
  <2> QED BY <1>5, <2>2
<1>7. ASSUME NEW n \in Nat, 0 < n, long + left + n <= B
      PROVE  XLogBytePosToEndRecPtr(y + left + n) = x + long + left + n
  <2>1. PICK k \in Nat : k = left + n /\ k <= F /\ k <= U /\ k # 0
    BY <1>1, <1>2, <1>7
  <2>2. EndOffset(k) = k + long
    <3>1. CASE k < F
      BY <1>1, <2>1, <3>1, OffsetParts
    <3>2. CASE k = F
      <4>1. EndOffset(F + 0 * UsableBytesInPage + 0) = B + 0 * B + 0 + 0
        BY <1>1, Sizes, OffsetOn
      <4>2. F + 0 * UsableBytesInPage + 0 = F /\ B + 0 * B + 0 + 0 = B
        BY Sizes
      <4> QED BY <1>1, <3>2, <4>1, <4>2
    <3> QED BY <2>1, <3>1, <3>2
  <2>3. XLogBytePosToEndRecPtr(y + k) = x + EndOffset(k)
    BY <1>1, <1>3, <2>1, InSegment
  <2>4. y + left + n = y + k
    BY <2>1
  <2>5. x + EndOffset(k) = x + long + left + n
    BY <2>1, <2>2
  <2> QED BY <2>3, <2>4, <2>5
<1> QED BY <1>1, <1>3, <1>4, <1>6, <1>7 DEF Place

\* A byte of page q after it.
LEMMA PlaceLater ==
  ASSUME NEW s \in Nat, NEW q \in Nat, NEW off \in Nat, off < UsableBytesInPage,
         FirstPageBytes + q * UsableBytesInPage + off < UsableBytesInSegment
  PROVE  Place(s * UsableBytesInSegment + (FirstPageBytes + q * UsableBytesInPage + off),
               s * SegSize + (q + 1) * XLOG_BLCKSZ, SizeOfXLogShortPHD, off)
<1>1. PICK B \in Nat \ {0}, S \in Nat \ {0}, U \in Nat \ {0}, V \in Nat \ {0}, F \in Nat \ {0}, short \in Nat \ {0}, m \in Nat :
        /\ B = XLOG_BLCKSZ /\ S = SegSize /\ U = UsableBytesInSegment /\ V = UsableBytesInPage /\ F = FirstPageBytes
        /\ short = SizeOfXLogShortPHD /\ m = PagesPerSegment - 1 /\ PagesPerSegment = m + 1 /\ B = V + short
  BY Sizes
<1>2. PICK w \in Nat, z \in Nat, x \in Nat, y \in Nat, i \in Nat, j \in Nat :
        w = m * V /\ z = m * B /\ x = s * S /\ y = s * U /\ i = q * V /\ j = q * B
  OBVIOUS
<1>3. U = F + w /\ S = z + B
  <2>1. (m + 1) * B = m * B + B
    OBVIOUS
  <2>2. S = m * B + B
    BY <1>1, <2>1 DEF SegSize
  <2> QED BY <1>1, <1>2, <2>2 DEF UsableBytesInSegment
<1>4. q + 1 <= m
  <2> SUFFICES ASSUME m <= q PROVE FALSE
    OBVIOUS
  <2>1. w <= i
    BY <1>2, TimesMonotone
  <2> QED BY <1>1, <1>2, <1>3, <2>1
<1>5. i + V <= w /\ j + B <= z /\ (q + 1) * B = j + B /\ (q + 1) * V = i + V
  <2>1. (q + 1) * B <= m * B /\ (q + 1) * V <= m * V
    BY <1>4, TimesMonotone
  <2>2. (q + 1) * B = j + B /\ (q + 1) * V = i + V
    BY <1>2
  <2> QED BY <1>2, <2>1, <2>2
<1>6. PICK begin \in Nat : begin = x + (q + 1) * B /\ begin = x + (j + B)
  BY <1>5
<1>7. begin % S # 0 /\ begin % B = 0
  <2>1. j + B < S /\ j + B # 0
    BY <1>3, <1>5
  <2>2. PICK g \in Nat : g = j + B
    OBVIOUS
  <2>3. (s * S + g) % S = g
    BY <2>1, <2>2, QuotientOf
  <2>4. begin = s * S + g
    BY <1>2, <1>6, <2>2
  <2>5. x % B = 0
    <3>1. x % S = 0
      BY <1>2, MultipleOf
    <3> QED BY <1>1, <3>1, SegmentOfPages
  <2>6. PICK k \in Nat : x = k * B
    <3>1. PICK k \in Nat, r \in Nat : k = x \div B /\ r = x % B /\ x = k * B + r
      BY Quotient
    <3>2. k * B + 0 = k * B
      OBVIOUS
    <3>3. x = k * B
      BY <2>5, <3>1, <3>2
    <3> QED BY <3>3
  <2>7. (k + (q + 1)) * B = k * B + (q + 1) * B
    OBVIOUS
  <2>8. begin = (k + (q + 1)) * B
    BY <1>6, <2>6, <2>7
  <2>9. begin % B = 0
    BY <2>8, MultipleOf
  <2> QED BY <2>1, <2>2, <2>3, <2>4, <2>9
<1>8. PICK left \in Nat : left = F + i + off /\ left < U
  BY <1>1, <1>2
<1>9. /\ XLogBytePosToRecPtr(y + left) = begin + short + off
      /\ XLogBytePosToEndRecPtr(y + left) = IF off = 0 THEN begin ELSE begin + short + off
  <2>1. left = FirstPageBytes + q * UsableBytesInPage + off
    BY <1>1, <1>2, <1>8
  <2>2. /\ StartOffset(left) = XLOG_BLCKSZ + q * XLOG_BLCKSZ + off + SizeOfXLogShortPHD
        /\ EndOffset(left) = XLOG_BLCKSZ + q * XLOG_BLCKSZ + off + (IF off = 0 THEN 0 ELSE SizeOfXLogShortPHD)
    BY <2>1, OffsetOn
  <2>3. /\ StartOffset(left) = B + j + off + short
        /\ EndOffset(left) = B + j + off + (IF off = 0 THEN 0 ELSE short)
    BY <1>1, <1>2, <2>2
  <2>4. left <= U
    BY <1>8
  <2>5. XLogBytePosToRecPtr(y + left) = x + StartOffset(left) /\ XLogBytePosToEndRecPtr(y + left) = x + EndOffset(left)
    BY <1>1, <1>2, <1>8, <2>4, InSegment
  <2> QED BY <1>6, <2>3, <2>5
<1>10. ASSUME NEW n \in Nat, 0 < n, short + off + n <= B
       PROVE  XLogBytePosToEndRecPtr(y + left + n) = begin + short + off + n
  <2>1. PICK k \in Nat : k = off + n /\ k <= V /\ k # 0
    BY <1>1, <1>10
  <2>2. EndOffset(F + i + k) = B + j + k + short
    <3>1. CASE k < V
      <4>1. k < UsableBytesInPage
        BY <1>1, <3>1
      <4>2. EndOffset(FirstPageBytes + q * UsableBytesInPage + k)
              = XLOG_BLCKSZ + q * XLOG_BLCKSZ + k + (IF k = 0 THEN 0 ELSE SizeOfXLogShortPHD)
        BY <4>1, OffsetOn
      <4>3. EndOffset(F + q * V + k) = B + q * B + k + short
        BY <1>1, <2>1, <4>2
      <4> QED BY <1>2, <4>3
    <3>2. CASE k = V
      <4>1. 0 < UsableBytesInPage /\ q + 1 \in Nat
        BY Sizes
      <4>2. EndOffset(FirstPageBytes + (q + 1) * UsableBytesInPage + 0)
              = XLOG_BLCKSZ + (q + 1) * XLOG_BLCKSZ + 0 + (IF 0 = 0 THEN 0 ELSE SizeOfXLogShortPHD)
        BY <4>1, OffsetOn
      <4>3. EndOffset(F + (q + 1) * V + 0) = B + (q + 1) * B + 0 + 0
        BY <1>1, <4>2
      <4>4. F + (q + 1) * V + 0 = F + i + k /\ B + (q + 1) * B + 0 + 0 = B + j + k + short
        BY <1>1, <1>5, <3>2
      <4> QED BY <4>3, <4>4
    <3> QED BY <2>1, <3>1, <3>2
  <2>3. F + i + k \in Nat /\ F + i + k <= U
    BY <1>3, <1>5, <2>1
  <2>4. XLogBytePosToEndRecPtr(y + (F + i + k)) = x + EndOffset(F + i + k)
    BY <1>1, <1>2, <2>3, InSegment
  <2>5. y + left + n = y + (F + i + k)
    BY <1>8, <2>1
  <2>6. x + EndOffset(F + i + k) = begin + short + off + n
    BY <1>6, <2>1, <2>2
  <2> QED BY <2>4, <2>5, <2>6
<1>11. short + off < B
  BY <1>1
<1>12. Place(y + left, begin, short, off)
  BY <1>1, <1>7, <1>9, <1>10, <1>11 DEF Place
<1>13. y + left = s * U + (F + q * V + off)
  BY <1>2, <1>8
<1> QED BY <1>1, <1>2, <1>6, <1>12, <1>13

\* Every byte has a place.
LEMMA EveryPlace ==
  ASSUME NEW b \in Nat
  PROVE  \E begin, h, o \in Nat : Place(b, begin, h, o)
<1>1. PICK U \in Nat \ {0}, F \in Nat \ {0}, V \in Nat \ {0} :
        U = UsableBytesInSegment /\ F = FirstPageBytes /\ V = UsableBytesInPage
  BY Sizes
<1>2. PICK s \in Nat, left \in Nat : s = b \div U /\ left = b % U /\ left < U /\ b = s * U + left
  BY Quotient
<1>3. CASE left < F
  <2>1. Place(s * U + left, s * SegSize, SizeOfXLogLongPHD, left)
    BY <1>1, <1>3, PlaceFirst
  <2>2. s * SegSize \in Nat /\ SizeOfXLogLongPHD \in Nat
    BY Sizes
  <2> QED BY <1>2, <2>1, <2>2
<1>4. CASE left >= F
  <2>1. PICK rest \in Nat : rest = left - F /\ left = F + rest
    BY <1>4
  <2>2. PICK q \in Nat, off \in Nat : q = rest \div V /\ off = rest % V /\ off < V /\ rest = q * V + off
    BY Quotient
  <2>3. left = F + q * V + off
    <3>1. PICK x \in Nat : x = q * V
      OBVIOUS
    <3> QED BY <2>1, <2>2, <3>1
  <2>4. Place(s * U + (F + q * V + off), s * SegSize + (q + 1) * XLOG_BLCKSZ, SizeOfXLogShortPHD, off)
    BY <1>1, <1>2, <2>2, <2>3, PlaceLater
  <2>5. s * SegSize + (q + 1) * XLOG_BLCKSZ \in Nat /\ SizeOfXLogShortPHD \in Nat
    BY Sizes
  <2> QED BY <1>2, <2>3, <2>4, <2>5
<1> QED BY <1>3, <1>4
\* A page header is shorter than the page.
LEMMA HeaderBounds ==
  ASSUME NEW ptr
  PROVE  HeaderSize(ptr) \in Nat \ {0} /\ HeaderSize(ptr) < XLOG_BLCKSZ
BY Sizes DEF HeaderSize

\* A position on the page that begins at begin.
LEMMA BehindBegin ==
  ASSUME NEW begin \in Nat, begin % XLOG_BLCKSZ = 0, NEW x \in Nat, x < XLOG_BLCKSZ
  PROVE  /\ PageBegin(begin + x) = begin /\ (begin + x) % XLOG_BLCKSZ = x /\ PageEnd(begin + x) = begin + XLOG_BLCKSZ
         /\ HeaderSize(begin + x) = HeaderSize(begin)
<1>1. XLOG_BLCKSZ \in Nat \ {0} /\ begin + x \in Nat
  BY Sizes
<1>2. /\ PageBegin(begin) \in Nat /\ PageEnd(begin) = PageBegin(begin) + XLOG_BLCKSZ
      /\ begin = PageBegin(begin) + (begin % XLOG_BLCKSZ)
  BY PageParts
<1>3. PageBegin(begin) = begin /\ PageEnd(begin) = begin + XLOG_BLCKSZ
  BY <1>1, <1>2
<1>4. PageBegin(begin + x) = begin /\ PageEnd(begin + x) = begin + XLOG_BLCKSZ /\ HeaderSize(begin + x) = HeaderSize(begin)
  <2>1. PageBegin(begin) <= begin + x /\ begin + x < PageEnd(begin)
    BY <1>1, <1>3
  <2> QED BY <1>1, <1>3, <2>1, SamePage
<1>5. begin + x = PageBegin(begin + x) + ((begin + x) % XLOG_BLCKSZ) /\ (begin + x) % XLOG_BLCKSZ \in Nat
  BY <1>1, PageParts
<1> QED BY <1>4, <1>5

\* What is known to be copied is before the place of the copy.
LEMMA PartBounds ==
  ASSUME NEW ptr \in Nat
  PROVE  InitializedPart(ptr) \in Nat /\ InitializedPart(ptr) <= ptr /\ PageBegin(ptr) <= InitializedPart(ptr)
BY PageParts DEF InitializedPart

\* The place of a byte, and where what precedes it ends.
LEMMA PlacePart ==
  ASSUME NEW b \in Nat, NEW begin, NEW h, NEW o, Place(b, begin, h, o), NEW curr,
         curr \in {XLogBytePosToRecPtr(b), XLogBytePosToEndRecPtr(b)}
  PROVE  /\ curr \in Nat /\ PageBegin(curr) = begin /\ PageEnd(curr) = begin + XLOG_BLCKSZ
         /\ h = HeaderSize(curr) /\ h \in Nat \ {0}
         /\ InitializedPart(curr) = XLogBytePosToEndRecPtr(b)
         /\ (IF curr % XLOG_BLCKSZ = 0 THEN curr + HeaderSize(curr) ELSE curr) = begin + h + o
         /\ curr <= begin + h + o
<1>1. /\ begin \in Nat /\ h \in Nat /\ o \in Nat /\ begin % XLOG_BLCKSZ = 0
      /\ h = (IF begin % SegSize = 0 THEN SizeOfXLogLongPHD ELSE SizeOfXLogShortPHD)
      /\ h + o < XLOG_BLCKSZ
      /\ XLogBytePosToRecPtr(b) = begin + h + o
      /\ XLogBytePosToEndRecPtr(b) = IF o = 0 THEN begin ELSE begin + h + o
  BY DEF Place
<1>2. h \in Nat \ {0}
  BY <1>1, Sizes
<1>3. PICK x \in Nat : x < XLOG_BLCKSZ /\ curr = begin + x /\ (x = h + o \/ (x = 0 /\ o = 0))
  <2>1. h + o \in Nat /\ 0 \in Nat /\ 0 < XLOG_BLCKSZ /\ begin + 0 = begin /\ begin + (h + o) = begin + h + o
    BY <1>1, Sizes
  <2> QED BY <1>1, <2>1
<1>4. PageBegin(curr) = begin /\ curr % XLOG_BLCKSZ = x /\ PageEnd(curr) = begin + XLOG_BLCKSZ
  BY <1>1, <1>3, BehindBegin
<1>5. HeaderSize(curr) = h
  BY <1>1, <1>4 DEF HeaderSize
<1>6. InitializedPart(curr) = XLogBytePosToEndRecPtr(b)
  BY <1>1, <1>2, <1>3, <1>4, <1>5 DEF InitializedPart
<1> QED BY <1>1, <1>2, <1>3, <1>4, <1>5, <1>6

\* The first record behind the reserved space begins where that ends.
LEMMA PartOfStart ==
  ASSUME NEW b \in Nat
  PROVE  InitializedPart(XLogBytePosToRecPtr(b)) = XLogBytePosToEndRecPtr(b)
<1>1. PICK begin, h, o \in Nat : Place(b, begin, h, o)
  BY EveryPlace
<1> QED BY <1>1, PlacePart

\* What is left of a record, or of the segment after a switch, ends where its space does.
Ahead(curr, left, end, kind) ==
  /\ kind = "switch" => end % XLOG_BLCKSZ = 0
  /\ IF left > 0
     THEN \E b \in Nat : /\ curr \in {XLogBytePosToRecPtr(b), XLogBytePosToEndRecPtr(b)}
                         /\ XLogBytePosToEndRecPtr(b + left) <= end
                         /\ kind = "switch" \/ XLogBytePosToEndRecPtr(b + left) = end
     ELSE kind = "switch" /\ curr < end /\ curr % XLOG_BLCKSZ = 0

\* There is something left.
LEMMA AheadBounds ==
  ASSUME NEW curr \in Nat, NEW left \in Nat, NEW end \in Nat, NEW kind, Ahead(curr, left, end, kind)
  PROVE  InitializedPart(curr) \in Nat /\ InitializedPart(curr) < end
<1>1. CASE left > 0
  <2>1. PICK b \in Nat : /\ curr \in {XLogBytePosToRecPtr(b), XLogBytePosToEndRecPtr(b)}
                         /\ XLogBytePosToEndRecPtr(b + left) <= end
    BY <1>1 DEF Ahead
  <2>2. PICK begin, h, o \in Nat : Place(b, begin, h, o)
    BY EveryPlace
  <2>3. InitializedPart(curr) = XLogBytePosToEndRecPtr(b) /\ h \in Nat \ {0}
    BY <2>1, <2>2, PlacePart
  <2>4. XLogBytePosToEndRecPtr(b + 1) = begin + h + o + 1
    <3>1. h + o + 1 <= XLOG_BLCKSZ
      BY <2>2, Sizes DEF Place
    <3> QED BY <2>2, <3>1 DEF Place
  <2>5. XLogBytePosToEndRecPtr(b + 1) <= XLogBytePosToEndRecPtr(b + left) /\ XLogBytePosToEndRecPtr(b + left) \in Nat
    <3>1. b + 1 \in Nat /\ b + left \in Nat /\ b + 1 <= b + left
      BY <1>1
    <3> QED BY <3>1, PointersMonotone
  <2>6. XLogBytePosToEndRecPtr(b) \in Nat /\ XLogBytePosToEndRecPtr(b) <= begin + h + o
    BY <2>2 DEF Place
  <2> QED BY <2>1, <2>3, <2>4, <2>5, <2>6
<1>2. CASE left = 0
  <2>1. curr < end
    BY <1>2 DEF Ahead
  <2> QED BY <2>1, PartBounds
<1> QED BY <1>1, <1>2

\* Behind the header of a page the copy begins on.
From(curr) == IF curr % XLOG_BLCKSZ = 0 THEN curr + HeaderSize(curr) ELSE curr

\* What one page takes of it.
LEMMA CopyMoves ==
  ASSUME NEW curr \in Nat, NEW left \in Nat, NEW end \in Nat, NEW kind, Ahead(curr, left, end, kind),
         NEW from, from = From(curr),
         NEW n, n = Smaller(left, PageEnd(curr) - from), NEW rest, rest = left - n,
         NEW to, to = IF rest = 0 /\ kind = "switch" THEN PageEnd(curr) ELSE from + n
  PROVE  /\ from \in Nat /\ to \in Nat /\ rest \in Nat /\ from <= to /\ to <= PageEnd(curr) /\ curr < to
         /\ InitializedPart(curr) <= to /\ InitializedPart(to) = to
         /\ InitializedPart(curr) = PageBegin(curr) \/ InitializedPart(curr) = from
         /\ from <= PageBegin(curr) + HeaderSize(curr) \/ InitializedPart(curr) = from
         /\ rest > 0 \/ to < end => Ahead(to, rest, end, kind)
         /\ to <= end
<1>0. PageEnd(curr) % XLOG_BLCKSZ = 0
  BY PageParts
<1>1. /\ PageBegin(curr) \in Nat /\ PageEnd(curr) \in Nat /\ PageEnd(curr) = PageBegin(curr) + XLOG_BLCKSZ
      /\ curr < PageEnd(curr) /\ XLOG_BLCKSZ \in Nat \ {0}
  BY PageParts, Sizes
<1>2. HeaderSize(curr) \in Nat \ {0} /\ HeaderSize(curr) < XLOG_BLCKSZ /\ XLOG_BLCKSZ \in Nat
  BY HeaderBounds, Sizes
<1>3. InitializedPart(PageEnd(curr)) = PageEnd(curr)
  <2>1. HeaderSize(PageEnd(curr)) # 0
    BY HeaderBounds
  <2> QED BY <1>0, <1>1, <2>1 DEF InitializedPart
<1>4. CASE left > 0
  <2>1. PICK b \in Nat : /\ curr \in {XLogBytePosToRecPtr(b), XLogBytePosToEndRecPtr(b)}
                         /\ XLogBytePosToEndRecPtr(b + left) <= end
                         /\ kind = "switch" \/ XLogBytePosToEndRecPtr(b + left) = end
    BY <1>4 DEF Ahead
  <2>2. PICK begin, h, o \in Nat : Place(b, begin, h, o)
    BY EveryPlace
  <2>3. /\ PageBegin(curr) = begin /\ PageEnd(curr) = begin + XLOG_BLCKSZ
        /\ h = HeaderSize(curr) /\ from = begin + h + o /\ curr <= from
        /\ InitializedPart(curr) = XLogBytePosToEndRecPtr(b)
    BY <2>1, <2>2, PlacePart DEF From
  <2>0. begin % XLOG_BLCKSZ = 0
    BY <2>2 DEF Place
  <2>4. h + o < XLOG_BLCKSZ /\ InitializedPart(curr) = IF o = 0 THEN begin ELSE from
    BY <2>2, <2>3 DEF Place
  <2>5. n \in Nat /\ 0 < n /\ n <= left /\ h + o + n <= XLOG_BLCKSZ /\ (n = left \/ h + o + n = XLOG_BLCKSZ)
    <3>1. PICK room \in Nat : room = PageEnd(curr) - from /\ room = XLOG_BLCKSZ - (h + o) /\ room > 0
      BY <1>2, <2>3, <2>4
    <3>2. n = IF left < room THEN left ELSE room
      BY <3>1 DEF Smaller
    <3> QED BY <1>2, <1>4, <3>1, <3>2
  <2>6. XLogBytePosToEndRecPtr(b + n) = from + n
    BY <2>2, <2>3, <2>5 DEF Place
  <2>7. rest \in Nat /\ (rest = 0 <=> n = left)
    BY <2>5
  <2>8. to = PageEnd(curr) \/ to = from + n
    OBVIOUS
  <2>9. from + n <= PageEnd(curr)
    BY <1>1, <2>3, <2>5
  <2>10. InitializedPart(from + n) = from + n
    <3>1. CASE h + o + n = XLOG_BLCKSZ
      <4>1. from + n = PageEnd(curr)
        BY <1>2, <2>3, <2>5, <3>1
      <4> QED BY <1>3, <4>1
    <3>2. CASE h + o + n < XLOG_BLCKSZ
      <4>1. PICK x \in Nat : x = h + o + n
        BY <2>5
      <4>2. from + n = begin + x
        <5>1. from = begin + h + o /\ n \in Nat
          BY <2>3, <2>5
        <5> QED BY ONLY <4>1, <5>1, begin \in Nat, h \in Nat, o \in Nat, x \in Nat
      <4>3. (begin + x) % XLOG_BLCKSZ = x /\ HeaderSize(begin + x) = HeaderSize(begin)
        BY <2>0, <3>2, <4>1, BehindBegin
      <4>4. HeaderSize(begin) = h
        <5>1. HeaderSize(begin + 0) = HeaderSize(begin) /\ begin = PageBegin(curr) /\ PageBegin(begin + 0) = begin /\ begin + 0 = begin
          BY <1>1, <2>0, <2>3, BehindBegin
        <5> QED BY <2>3, <5>1 DEF HeaderSize
      <4>5. x # h
        BY <2>5, <4>1
      <4> QED BY <4>2, <4>3, <4>4, <4>5 DEF InitializedPart
    <3> QED BY <1>2, <2>5, <3>1, <3>2
  <2>11. /\ from \in Nat /\ to \in Nat /\ from <= to /\ to <= PageEnd(curr) /\ curr < to
         /\ InitializedPart(curr) <= to /\ InitializedPart(to) = to
         /\ InitializedPart(curr) = PageBegin(curr) \/ InitializedPart(curr) = from
         /\ from <= PageBegin(curr) + HeaderSize(curr) \/ InitializedPart(curr) = from
    <3>1. from \in Nat /\ from <= from + n /\ curr < from + n /\ InitializedPart(curr) <= from
      BY <2>3, <2>4, <2>5
    <3>2. from <= begin + h \/ InitializedPart(curr) = from
      BY <2>3, <2>4
    <3> QED BY <1>1, <1>3, <2>3, <2>4, <2>5, <2>8, <2>9, <2>10, <3>1, <3>2
  <2>12. CASE rest > 0
    <3>1. n # left /\ h + o + n = XLOG_BLCKSZ /\ to = from + n
      BY <2>5, <2>7, <2>12
    <3>2. to = XLogBytePosToEndRecPtr(b + n)
      BY <2>6, <3>1
    <3>3. b + n \in Nat /\ (b + n) + rest = b + left
      BY <2>5
    <3>4. Ahead(to, rest, end, kind)
      BY <2>1, <2>12, <3>2, <3>3 DEF Ahead
    <3>5. to <= end
      BY <2>7, <2>11, <3>4, AheadBounds
    <3> QED BY <2>7, <2>11, <3>4, <3>5
  <2>13. CASE rest = 0 /\ kind = "switch"
    <3>1. to < end => Ahead(to, rest, end, kind)
      BY <1>0, <2>13 DEF Ahead
    <3>2. InitializedPart(curr) < end /\ end % XLOG_BLCKSZ = 0
      BY <2>13, AheadBounds DEF Ahead
    <3>3. PageBegin(curr) < end /\ to = PageEnd(curr)
      BY <1>1, <2>3, <2>4, <2>11, <2>13, <3>2
    <3>4. to <= end
      <4>1. PageEnd(PageBegin(curr)) <= end
        BY <1>1, <3>2, <3>3, PagesApart
      <4>2. PageEnd(PageBegin(curr)) = PageEnd(curr)
        BY <1>1, <2>3, SamePage
      <4> QED BY <3>3, <4>1, <4>2
    <3> QED BY <2>7, <2>11, <2>13, <3>1, <3>4
  <2>14. CASE rest = 0 /\ kind # "switch"
    <3>1. to = from + n /\ n = left
      BY <2>7, <2>14
    <3>2. to = end
      BY <2>1, <2>6, <2>14, <3>1
    <3> QED BY <2>7, <2>11, <2>14, <3>2
  <2> QED BY <2>7, <2>12, <2>13, <2>14
<1>5. CASE left = 0
  <2>1. kind = "switch" /\ curr < end /\ curr % XLOG_BLCKSZ = 0 /\ end % XLOG_BLCKSZ = 0
    BY <1>5 DEF Ahead
  <2>2. from = curr + HeaderSize(curr) /\ curr = PageBegin(curr)
    BY <2>1, PageParts DEF From
  <2>3. n = 0 /\ rest = 0 /\ to = PageEnd(curr)
    <3>1. PICK room \in Nat : room = PageEnd(curr) - from /\ room > 0
      BY <1>1, <1>2, <2>2
    <3>2. n = IF left < room THEN left ELSE room
      BY <3>1 DEF Smaller
    <3>3. n = 0 /\ rest = 0
      BY <1>5, <3>1, <3>2
    <3> QED BY <2>1, <3>3
  <2>4. InitializedPart(curr) = curr
    BY <1>2, <2>1 DEF InitializedPart
  <2>5. to < end => Ahead(to, rest, end, kind)
    <3>1. to % XLOG_BLCKSZ = 0 /\ ~(rest > 0)
      BY <1>0, <2>3
    <3> QED BY <2>1, <3>1 DEF Ahead
  <2>6. from \in Nat /\ from <= to /\ curr < to /\ from <= PageBegin(curr) + HeaderSize(curr)
    BY <1>1, <1>2, <2>2, <2>3
  <2>7. to <= end
    BY <2>1, <2>3, PagesApart
  <2> QED BY <1>1, <1>3, <2>2, <2>3, <2>4, <2>5, <2>6, <2>7
<1> QED BY <1>4, <1>5

(***************************************************************************)
(* What is copied.                                                         *)
(***************************************************************************)

\* Where the reserved space ends; who has space in it, and how much of that is copied.
End == XLogBytePosToEndRecPtr(CurrBytePos)
HasSpace(p) == Inserts(p) /\ at[p] # "reserve"
Copied(p) == InitializedPart(rec[p].curr)

\* What is asked for, finished and written lies in the reserved space, and nobody is told of a
\* position in a lock that nobody holds.
Bounds ==
  /\ logInsertResult <= End
  /\ LogwrtRqstWrite \in Nat /\ LogwrtRqstWrite <= End
  /\ asyncXactLSN \in Nat /\ asyncXactLSN <= End
  /\ logWriteResult \in Nat /\ logWriteResult <= logInsertResult /\ logFlushResult \in Nat
  /\ DOMAIN LogwrtResult = Everyone /\ DOMAIN rqst = Everyone
  /\ \A l \in Locks : insertLock[l] = None => insertingAt[l] = 0
  /\ caller[WalWriter] # "flush"

\* An inserter has copied at least what it told, and at least what counts as finished; the rest
\* of its record fits its space.
Insertion(p) ==
  /\ at[p] = "reserve" => Position(p) = 0
  /\ HasSpace(p) => /\ Position(p) <= Copied(p) /\ logInsertResult <= Copied(p)
                    /\ Ahead(rec[p].curr, rec[p].left, rec[p].end, Job(p).kind)
  /\ at[p] \notin Before => rec[p].end \in Nat /\ rec[p].end <= End

\* Who waits for insertions: all that are not finished are behind a lock it has yet to look at.
\* Who writes: what it asks for is finished.
Requesting == {"writeLock", "write", "sync", "publishWrite", "publishFlush"}
Target(p) == IF caller[p] = "flush" THEN rec[p].end ELSE rqst[p].write

Waiter(p) ==
  /\ DOMAIN LogwrtResult[p] = {"write", "flush"}
  /\ LogwrtResult[p].write \in Nat /\ LogwrtResult[p].flush \in Nat /\ LogwrtResult[p].write <= logInsertResult
  /\ at[p] \in {"wait", "waitVar"} =>
       /\ caller[p] # "flush" => rqst[p].write \in Nat /\ rqst[p].flush \in Nat
       /\ wait[p].upto \in Nat /\ Target(p) <= wait[p].upto
  /\ at[p] = "wait" => wait[p].upto <= End
  /\ at[p] = "waitVar" =>
       /\ wait[p].lock \in 1..(All + 1)
       /\ wait[p].upto <= wait[p].finished /\ wait[p].finished <= End
       /\ \A q \in Procs : HasSpace(q) /\ Copied(q) < wait[p].finished => wait[p].lock <= Max(Held(q))
  /\ at[p] \in {"acquireOrWait", "flushLocked"} =>
       /\ p \in Procs /\ wait[p].insertpos \in Nat
       /\ rec[p].end <= wait[p].insertpos /\ wait[p].insertpos <= logInsertResult
  /\ at[p] \in Requesting =>
       /\ rqst[p].write \in Nat /\ rqst[p].flush \in Nat /\ rqst[p].write <= logInsertResult
       /\ caller[p] = "flush" => /\ rqst[p].flush = rqst[p].write /\ rec[p].end <= rqst[p].write
                                 /\ rqst[p].flexible = FALSE

InsertInv == Bounds /\ (\A p \in Procs : Insertion(p)) /\ (\A p \in Everyone : Waiter(p))

\* What the others keep while p moves.
Aside(p) ==
  \A q \in Everyone \ {p} : caller'[q] = caller[q] /\ rqst'[q] = rqst[q] /\ LogwrtResult'[q] = LogwrtResult[q]

\* No step takes back what p has copied.
NotBack(p) ==
  HasSpace(p)' => \/ End <= Copied(p)'
                  \/ HasSpace(p) /\ Copied(p) <= Copied(p)' /\ Held(p)' = Held(p)

\* An inserter has a position to tell and a place for its copy.
LEMMA SpaceTyped ==
  ASSUME RedoInv, WaitInv, NEW q \in Procs, HasSpace(q)
  PROVE  /\ rec[q].curr \in Nat /\ rec[q].left \in Nat /\ Copied(q) \in Nat
         /\ Max(Held(q)) \in Held(q) /\ Held(q) \subseteq Locks /\ Position(q) \in Nat
         /\ DOMAIN rec[q] = {"start", "end", "curr", "left"}
<1>1. Inserter(q) /\ PositionsOK /\ Inserts(q) /\ at[q] # "reserve"
  BY DEF WaitInv, HasSpace
<1>2. LocksOf(q) /\ rec[q].curr \in Nat /\ rec[q].left \in Nat /\ DOMAIN rec[q] = {"start", "end", "curr", "left"}
  BY <1>1 DEF Inserter
<1>3. Max(Held(q)) \in Held(q) /\ Held(q) \subseteq Locks
  BY <1>2, TopLock
<1>4. Copied(q) \in Nat
  BY <1>2, PartBounds DEF Copied
<1> QED BY <1>1, <1>2, <1>3, <1>4 DEF Position, PositionsOK

\* The reserved space ends at a position.
LEMMA EndTyped ==
  ASSUME RedoInv
  PROVE  End \in Nat
BY PointersMonotone DEF RedoInv, Typed, End

\* What an inserter that does nothing keeps.
LEMMA OtherSpace ==
  ASSUME RedoInv, WaitInv, NEW p \in Everyone, Still(p), NEW q \in Procs, q # p
  PROVE  /\ HasSpace(q)' <=> HasSpace(q)
         /\ Copied(q)' = Copied(q) /\ Held(q)' = Held(q) /\ Max(Held(q))' = Max(Held(q))
         /\ HasSpace(q) \/ at[q] = "reserve" => Position(q)' = Position(q)
         /\ rec'[q] = rec[q] /\ at'[q] = at[q] /\ Job(q)' = Job(q)
<1>1. /\ Same(q) /\ Held(q)' = Held(q) /\ Inserter(q)
      /\ \A l \in Held(q) : insertingAt'[l] = insertingAt[l]
  BY DEF Still, WaitInv
<1>2. HasSpace(q)' <=> HasSpace(q)
  BY <1>1 DEF Same, HasSpace, Inserts, Free
<1>3. Copied(q)' = Copied(q)
  BY <1>1 DEF Same, Copied, InitializedPart, HeaderSize, PageBegin
<1>4. Max(Held(q))' = Max(Held(q))
  BY <1>1 DEF Max
<1>5. ASSUME HasSpace(q) \/ at[q] = "reserve" PROVE Position(q)' = Position(q)
  <2>1. Inserts(q)
    <3>1. Proc(q) /\ None # "flush"
      BY XLogConstants DEF RedoInv
    <3> QED BY <1>5, <3>1 DEF HasSpace, Inserts, Free, Proc, Flushing
  <2>2. Max(Held(q)) \in Held(q)
    BY <1>1, <2>1, TopLock DEF Inserter
  <2> QED BY <1>1, <1>4, <2>2 DEF Position
<1>6. Job(q)' = Job(q)
  BY <1>1 DEF Same, Job
<1> QED BY <1>1, <1>2, <1>3, <1>4, <1>5, <1>6 DEF Same

\* A step of p, put together.
LEMMA InsertStep ==
  ASSUME RedoInv, RedoInv', WaitInv, WaitInv', InsertInv, NEW p \in Everyone, Still(p), Aside(p),
         End <= End', logInsertResult <= logInsertResult',
         \A q \in Procs \ {p} : HasSpace(q) => logInsertResult' <= Copied(q),
         Bounds', Waiter(p)', p \in Procs => Insertion(p)' /\ NotBack(p)
  PROVE  InsertInv'
<1>1. /\ Procs \subseteq Everyone /\ End \in Nat /\ End' \in Nat
      /\ logInsertResult \in Nat /\ logInsertResult' \in Nat
  <2>1. End' \in Nat
    BY PointersMonotone DEF RedoInv, Typed, End
  <2> QED BY <2>1, EndTyped DEF Everyone, WaitInv, PositionsOK
<1>2. ASSUME NEW q \in Procs PROVE Insertion(q)'
  <2>1. CASE q # p
    <3>1. Insertion(q)
      BY DEF InsertInv
    <3>2. at[q] \notin Before => rec[q].end \in Nat /\ rec[q].end <= End'
      BY <1>1, <3>1 DEF Insertion
    <3>3. HasSpace(q) => logInsertResult' <= Copied(q)
      BY <2>1
    <3> QED BY <2>1, <3>1, <3>2, <3>3, OtherSpace DEF Insertion
  <2> QED BY <2>1
<1>3. ASSUME NEW q \in Everyone, q # p PROVE Waiter(q)'
  <2>1. /\ Waiter(q) /\ at'[q] = at[q] /\ wait'[q] = wait[q] /\ caller'[q] = caller[q] /\ rqst'[q] = rqst[q]
        /\ LogwrtResult'[q] = LogwrtResult[q] /\ WaitOK(q)
    BY <1>3 DEF InsertInv, Still, Aside, WaitInv
  <2>2. q \in Procs => rec'[q] = rec[q]
    BY <1>3, OtherSpace
  <2>3. caller[q] = "flush" => q \in Procs
    BY DEF InsertInv, Bounds, Everyone
  <2>4. Target(q)' = Target(q)
    BY <2>1, <2>2, <2>3 DEF Target
  <2>5. at[q] = "waitVar" => \A r \in Procs : HasSpace(r)' /\ Copied(r)' < wait[q].finished => wait[q].lock <= Max(Held(r))'
    <3> SUFFICES ASSUME at[q] = "waitVar", NEW r \in Procs, HasSpace(r)', Copied(r)' < wait[q].finished
                 PROVE  wait[q].lock <= Max(Held(r))'
      OBVIOUS
    <3>1. /\ wait[q].finished \in Nat /\ wait[q].finished <= End
          /\ HasSpace(r) /\ Copied(r) < wait[q].finished => wait[q].lock <= Max(Held(r))
      BY <2>1 DEF Waiter, WaitOK
    <3>2. CASE r # p
      BY <3>1, <3>2, OtherSpace
    <3>3. CASE r = p
      <4>1. Copied(p)' \in Nat
        <5>1. rec'[p].curr \in Nat
          BY <3>3 DEF WaitInv, Inserter, HasSpace
        <5>2. InitializedPart(rec'[p].curr) \in Nat
          BY <5>1, PartBounds
        <5> QED BY <5>2 DEF Copied, InitializedPart, HeaderSize, PageBegin
      <4>2. HasSpace(p) /\ Copied(p) <= Copied(p)' /\ Held(p)' = Held(p)
        BY <1>1, <3>1, <3>3, <4>1 DEF NotBack
      <4>3. Copied(p) \in Nat /\ Max(Held(p))' = Max(Held(p))
        BY <3>3, <4>2, SpaceTyped DEF Max
      <4> QED BY <3>1, <3>3, <4>1, <4>2, <4>3
    <3> QED BY <3>2, <3>3
  <2>6. /\ LogwrtResult[q].write <= logInsertResult'
        /\ at[q] = "wait" => wait[q].upto <= End'
        /\ at[q] = "waitVar" => wait[q].finished <= End'
        /\ at[q] \in {"acquireOrWait", "flushLocked"} => wait[q].insertpos <= logInsertResult'
        /\ at[q] \in Requesting => rqst[q].write <= logInsertResult'
    BY <1>1, <2>1 DEF Waiter, WaitOK
  <2> QED BY <2>1, <2>2, <2>3, <2>4, <2>5, <2>6 DEF Waiter
<1> QED BY <1>2, <1>3 DEF InsertInv

\* An inserter that keeps its record, its locks and its position.
LEMMA KeepsInsertion ==
  ASSUME RedoInv, InsertInv, NEW p \in Procs, Held(p)' = Held(p), UNCHANGED <<insertingAt, CurrBytePos>>,
         rec'[p] = rec[p], todo'[p] = todo[p], HasSpace(p)' => HasSpace(p), at'[p] # "reserve",
         at'[p] \notin Before => at[p] \notin Before,
         HasSpace(p) => logInsertResult' <= Copied(p) /\ Copied(p) \in Nat
  PROVE  Insertion(p)' /\ NotBack(p)
<1>1. Insertion(p) /\ End' = End
  BY DEF InsertInv, End
<1>2. Copied(p)' = Copied(p) /\ Job(p)' = Job(p) /\ Position(p)' = Position(p)
  BY DEF Copied, InitializedPart, HeaderSize, PageBegin, Job, Position, Max
<1>3. NotBack(p)
  BY <1>2 DEF NotBack
<1> QED BY <1>1, <1>2, <1>3 DEF Insertion

\* A plain step of an inserter.
LEMMA PlainInsertion ==
  ASSUME RedoInv, RedoInv', WaitInv, InsertInv, NEW p \in Procs, Plain(p), UNCHANGED insertingAt, rec'[p] = rec[p],
         at[p] # "release", HasSpace(p) => logInsertResult' <= Copied(p)
  PROVE  Insertion(p)' /\ NotBack(p)
<1>1. /\ at[p] \notin Before /\ at'[p] \notin Before /\ CurrBytePos' = CurrBytePos /\ todo'[p] = todo[p]
      /\ Free(p)' <=> Free(p)
      /\ Held(p)' = Held(p)
  BY DEF Plain, Held
<1>2. at'[p] # "reserve" /\ at[p] # "lockAll" /\ at[p] # "reserve"
  BY <1>1 DEF Before
<1>3. HasSpace(p)' => HasSpace(p)
  BY <1>1, <1>2 DEF HasSpace, Inserts
<1>4. HasSpace(p) => Copied(p) \in Nat
  BY SpaceTyped
<1> QED BY <1>1, <1>2, <1>3, <1>4, KeepsInsertion

\* A backend that inserts nothing.
LEMMA FreeInsertion ==
  ASSUME NEW p \in Procs, Insertion(p), ~HasSpace(p)', at'[p] # "reserve", UNCHANGED CurrBytePos,
         at'[p] \notin Before => at[p] \notin Before /\ rec'[p].end = rec[p].end
  PROVE  Insertion(p)' /\ NotBack(p)
<1>1. End' = End
  BY DEF End
<1> QED BY <1>1 DEF Insertion, NotBack

\* A process that waits for no insertion and writes nothing.
LEMMA QuietWaiter ==
  ASSUME Bounds, NEW p, Waiter(p), logInsertResult \in Nat, logInsertResult' = logInsertResult,
         at'[p] \notin {"wait", "waitVar", "acquireOrWait", "flushLocked"}, at'[p] \notin Requesting,
         LogwrtResult'[p] \in {LogwrtResult[p], Refreshed}
  PROVE  Waiter(p)'
<1>1. /\ DOMAIN LogwrtResult'[p] = {"write", "flush"} /\ LogwrtResult'[p].write \in Nat
      /\ LogwrtResult'[p].flush \in Nat /\ LogwrtResult'[p].write <= logInsertResult
  BY DEF Bounds, Waiter, Refreshed
<1> QED BY <1>1 DEF Waiter

\* What nobody but p sees change, and who never calls XLogFlush.
LEMMA AsideSteps ==
  ASSUME Typed, Bounds, NEW p \in Everyone,
         \/ p \in Procs /\ (LookAgain(p) \/ AcquireOrWait(p) \/ WALInsertLockBusy(p) \/ Inserted(p)
                            \/ XLogFlush(p) \/ FlushLocked(p))
         \/ MapLock(p) \/ TakeWriteLock(p) \/ WritePage(p) \/ SyncFile(p) \/ PublishWrite(p) \/ WaitEnd(p)
         \/ PublishFlush(p) \/ WaitForVar(p) \/ WaitStart(p) \/ Advance(p)
         \/ p = WalWriter /\ XLogBackgroundFlush
  PROVE  /\ Aside(p) /\ DOMAIN LogwrtResult' = Everyone /\ DOMAIN rqst' = Everyone
         /\ caller'[WalWriter] # "flush"
<1>1. Procs \subseteq Everyone /\ WalWriter \in Everyone /\ WalWriter \notin Procs /\ None # "flush"
  BY XLogConstants DEF Everyone
<1>2. CASE p \in Procs /\ LookAgain(p) BY <1>1, <1>2 DEF Typed, Bounds, Aside, LookAgain
<1>3. CASE MapLock(p) BY <1>1, <1>3 DEF Typed, Bounds, Aside, MapLock
<1>4. CASE TakeWriteLock(p) BY <1>1, <1>4 DEF Typed, Bounds, Aside, TakeWriteLock
<1>5. CASE WritePage(p) BY <1>1, <1>5 DEF Typed, Bounds, Aside, WritePage
<1>6. CASE SyncFile(p) BY <1>1, <1>6 DEF Typed, Bounds, Aside, SyncFile
<1>7. CASE PublishWrite(p) BY <1>1, <1>7 DEF Typed, Bounds, Aside, PublishWrite
<1>8. CASE p \in Procs /\ AcquireOrWait(p) BY <1>1, <1>8 DEF Typed, Bounds, Aside, AcquireOrWait
<1>9. CASE WaitEnd(p) BY <1>1, <1>9 DEF Typed, Bounds, Aside, WaitEnd, AfterWait
<1>10. CASE p \in Procs /\ WALInsertLockBusy(p) BY <1>1, <1>10 DEF Typed, Bounds, Aside, WALInsertLockBusy, Idle
<1>11. CASE p \in Procs /\ Inserted(p) BY <1>1, <1>11 DEF Typed, Bounds, Aside, Inserted
<1>12. CASE p \in Procs /\ XLogFlush(p)
  BY <1>1, <1>12 DEF Typed, Bounds, Aside, XLogFlush, FlushReturns, CallWait
<1>13. CASE p \in Procs /\ FlushLocked(p) BY <1>1, <1>13 DEF Typed, Bounds, Aside, FlushLocked, FlushReturns
<1>14. CASE PublishFlush(p) BY <1>1, <1>14 DEF Typed, Bounds, Aside, PublishFlush, FlushReturns
<1>15. CASE WaitForVar(p) BY <1>1, <1>15 DEF Typed, Bounds, Aside, WaitForVar
<1>16. CASE WaitStart(p) BY <1>1, <1>16 DEF Typed, Bounds, Aside, WaitStart, AfterWait
<1>17. CASE p = WalWriter /\ XLogBackgroundFlush
  BY <1>1, <1>17 DEF Typed, Bounds, Aside, XLogBackgroundFlush, CallWait
<1>18. CASE Advance(p) BY <1>1, <1>18 DEF Typed, Bounds, Aside, Advance, InitializePage, CallWait, Opportunistic
<1> QED BY <1>2, <1>3, <1>4, <1>5, <1>6, <1>7, <1>8, <1>9, <1>10, <1>11, <1>12, <1>13, <1>14, <1>15, <1>16,
   <1>17, <1>18

\* The reserved space and what counts as finished, as they were.
LEMMA EndKept ==
  ASSUME RedoInv, PositionsOK, UNCHANGED <<CurrBytePos, logInsertResult>>
  PROVE  End \in Nat /\ End' = End /\ End <= End' /\ logInsertResult <= logInsertResult'
<1>1. End' = End /\ End \in Nat
  BY EndTyped DEF End
<1> QED BY <1>1 DEF PositionsOK

\* The steps that move no insertion.
SideStep(p) ==
  \/ p \in Procs /\ (LookAgain(p) \/ AcquireOrWait(p) \/ WALInsertLockBusy(p) \/ Inserted(p) \/ XLogFlush(p) \/ FlushLocked(p))
  \/ MapLock(p) \/ TakeWriteLock(p) \/ WritePage(p) \/ SyncFile(p) \/ PublishWrite(p) \/ PublishFlush(p)
  \/ p = WalWriter /\ XLogBackgroundFlush

\* They reserve nothing, finish nothing and leave insertion locks alone.
LEMMA SideFrame ==
  ASSUME NEW p, SideStep(p)
  PROVE  UNCHANGED <<CurrBytePos, logInsertResult, insertLock, insertingAt>>
BY DEF SideStep, LookAgain, AcquireOrWait, WALInsertLockBusy, Idle, Inserted, XLogFlush, FlushLocked, FlushReturns, CallWait,
       MapLock, TakeWriteLock, WritePage, SyncFile, PublishWrite, PublishFlush, XLogBackgroundFlush

\* They ask for no more than is reserved and publish no more than is finished.
LEMMA SideBounds ==
  ASSUME RedoInv, WaitInv, InsertInv, NEW p \in Everyone, SideStep(p)
  PROVE  Bounds'
<1>1. Typed /\ Bounds /\ PositionsOK /\ Waiter(p) /\ (p \in Procs => Insertion(p))
  BY DEF RedoInv, WaitInv, InsertInv
<1>2. UNCHANGED <<CurrBytePos, logInsertResult, insertLock, insertingAt>>
  BY SideFrame
<1>3. DOMAIN LogwrtResult' = Everyone /\ DOMAIN rqst' = Everyone /\ caller'[WalWriter] # "flush"
  BY <1>1, AsideSteps DEF SideStep
<1>4. End' = End /\ End \in Nat
  BY <1>2, EndTyped DEF End
<1>5. CASE UNCHANGED <<LogwrtRqstWrite, asyncXactLSN, logWriteResult, logFlushResult>>
  BY <1>1, <1>2, <1>3, <1>4, <1>5 DEF Bounds
<1>6. CASE PublishWrite(p)
  <2>1. UNCHANGED <<asyncXactLSN, logFlushResult>> /\ logWriteResult' = LogwrtResult[p].write
        /\ LogwrtRqstWrite' = Larger(LogwrtRqstWrite, LogwrtResult[p].write)
    BY <1>6 DEF PublishWrite
  <2>2. LogwrtResult[p].write \in Nat /\ LogwrtResult[p].write <= logInsertResult /\ logInsertResult \in Nat
    BY <1>1 DEF Waiter, PositionsOK
  <2>3. LogwrtRqstWrite' \in Nat /\ LogwrtRqstWrite' <= End
    BY <1>1, <1>4, <2>1, <2>2 DEF Bounds, Larger
  <2> QED BY <1>1, <1>2, <1>3, <1>4, <2>1, <2>2, <2>3 DEF Bounds
<1>7. CASE PublishFlush(p)
  <2>1. UNCHANGED <<LogwrtRqstWrite, asyncXactLSN, logWriteResult>> /\ logFlushResult' = LogwrtResult[p].flush
    BY <1>7 DEF PublishFlush, FlushReturns
  <2>2. LogwrtResult[p].flush \in Nat
    BY <1>1 DEF Waiter
  <2> QED BY <1>1, <1>2, <1>3, <1>4, <2>1, <2>2 DEF Bounds
<1>8. CASE p \in Procs /\ Inserted(p)
  <2>1. UNCHANGED <<logWriteResult, logFlushResult>> /\ rec[p].end \in Nat /\ rec[p].end <= End
    BY <1>1, <1>8 DEF Insertion, Inserted, Before
  <2>2. /\ LogwrtRqstWrite' \in {LogwrtRqstWrite, Larger(LogwrtRqstWrite, rec[p].end)}
        /\ asyncXactLSN' \in {asyncXactLSN, Larger(asyncXactLSN, rec[p].end)}
    BY <1>8 DEF Inserted
  <2>3. LogwrtRqstWrite' \in Nat /\ LogwrtRqstWrite' <= End /\ asyncXactLSN' \in Nat /\ asyncXactLSN' <= End
    BY <1>1, <1>4, <2>1, <2>2 DEF Bounds, Larger
  <2> QED BY <1>1, <1>2, <1>3, <1>4, <2>1, <2>3 DEF Bounds
<1> QED BY <1>5, <1>6, <1>7, <1>8 DEF SideStep, LookAgain, AcquireOrWait, WALInsertLockBusy, Idle, XLogFlush, FlushLocked,
   FlushReturns, CallWait, MapLock, TakeWriteLock, WritePage, SyncFile, XLogBackgroundFlush

\* A process that goes on with a request it had.
LEMMA RequestWaiter ==
  ASSUME NEW p, Waiter(p), at[p] \in Requesting, logInsertResult' = logInsertResult, caller'[p] = caller[p], UNCHANGED rec,
         at'[p] \notin {"wait", "waitVar", "acquireOrWait", "flushLocked"},
         at'[p] \in Requesting => rqst'[p] = rqst[p],
         DOMAIN LogwrtResult'[p] = {"write", "flush"}, LogwrtResult'[p].write \in Nat,
         LogwrtResult'[p].flush \in Nat, LogwrtResult'[p].write <= logInsertResult
  PROVE  Waiter(p)'
BY DEF Waiter

\* XLogWrite and what precedes it work on a request that is finished.
LEMMA RequestSteps ==
  ASSUME Typed, PositionsOK, Bounds, NEW p \in Everyone, Waiter(p), logInsertResult' = logInsertResult,
         TakeWriteLock(p) \/ WritePage(p) \/ SyncFile(p) \/ PublishWrite(p)
  PROVE  Waiter(p)'
<1>1. at[p] \in Requesting /\ UNCHANGED <<caller, rec>>
      /\ at'[p] \notin {"wait", "waitVar", "acquireOrWait", "flushLocked"}
      /\ (at'[p] \in Requesting => rqst'[p] = rqst[p])
  BY DEF Typed, Requesting, TakeWriteLock, WritePage, SyncFile, PublishWrite
<1>2. /\ LogwrtResult[p].write \in Nat /\ LogwrtResult[p].flush \in Nat /\ rqst[p].write \in Nat
      /\ rqst[p].write <= logInsertResult /\ logInsertResult \in Nat
      /\ DOMAIN LogwrtResult[p] = {"write", "flush"} /\ LogwrtResult[p].write <= logInsertResult
  BY <1>1 DEF Waiter, PositionsOK
<1>3. PICK end \in Nat : end = xlblocks[BufIdx(LogwrtResult[p].write)]
  BY <1>2, BufferNumber DEF PositionsOK
<1>4. PICK w \in Nat : w = Smaller(end, rqst[p].write) /\ w <= rqst[p].write
  BY <1>2 DEF Smaller
<1>5. \/ LogwrtResult'[p] \in {LogwrtResult[p], Refreshed, [write |-> w, flush |-> end],
                              [write |-> w, flush |-> LogwrtResult[p].flush]}
      \/ LogwrtResult'[p] = [LogwrtResult[p] EXCEPT !.flush = LogwrtResult[p].write]
  BY <1>3, <1>4 DEF Bounds, TakeWriteLock, WritePage, SyncFile, PublishWrite
<1>6. /\ DOMAIN LogwrtResult'[p] = {"write", "flush"} /\ LogwrtResult'[p].write \in Nat
      /\ LogwrtResult'[p].flush \in Nat /\ LogwrtResult'[p].write <= logInsertResult
  BY <1>2, <1>4, <1>5 DEF Bounds, Refreshed
<1> QED BY <1>1, <1>6, RequestWaiter

\* Others take a request, or have none.
LEMMA OtherRequests ==
  ASSUME RedoInv, WaitInv, InsertInv, NEW p \in Everyone, SideStep(p),
         ~(TakeWriteLock(p) \/ WritePage(p) \/ SyncFile(p) \/ PublishWrite(p))
  PROVE  Waiter(p)'
<1>1. WalWriter \in Everyone /\ Procs \subseteq Everyone /\ Distinct
  BY XLogConstants DEF Everyone
<1>2. Typed /\ PositionsOK /\ Bounds /\ Waiter(p) /\ DOMAIN wait = Everyone /\ (p \in Procs => Insertion(p))
  BY DEF RedoInv, WaitInv, InsertInv
<1>3. /\ UNCHANGED <<CurrBytePos, logInsertResult>> /\ logInsertResult \in Nat /\ End' = End
      /\ LogwrtResult'[p] \in {LogwrtResult[p], Refreshed}
  BY <1>1, <1>2, SideFrame DEF SideStep, PositionsOK, End, Bounds, LookAgain, AcquireOrWait, WALInsertLockBusy, Idle, Inserted,
     XLogFlush, FlushLocked, FlushReturns, CallWait, MapLock, PublishFlush, XLogBackgroundFlush
<1>4. /\ DOMAIN LogwrtResult'[p] = {"write", "flush"} /\ LogwrtResult'[p].write \in Nat
      /\ LogwrtResult'[p].flush \in Nat /\ LogwrtResult'[p].write <= logInsertResult'
  BY <1>2, <1>3 DEF Bounds, Waiter, Refreshed
<1>5. CASE at'[p] \in {"copy", "panic", "advance", "lockWait", "flush", "idle", "unsatisfied", "map", "waitFree"}
  BY <1>4, <1>5 DEF Waiter, Requesting
<1>6. CASE p \in Procs /\ AcquireOrWait(p) /\ at'[p] = "flushLocked"
  <2>1. UNCHANGED <<rec, caller>> /\ at[p] = "acquireOrWait" /\ wait'[p] = wait[p]
    BY <1>1, <1>2, <1>6 DEF Typed, AcquireOrWait
  <2> QED BY <1>2, <1>3, <1>4, <1>6, <2>1 DEF Waiter, Requesting
<1>7. CASE p \in Procs /\ XLogFlush(p) /\ at'[p] = "wait"
  <2>1. rec[p].end \in Nat /\ rec[p].end <= End
    BY <1>2, <1>7 DEF Insertion, XLogFlush, Before
  <2>2. PICK u \in Nat : u = Larger(rec[p].end, LogwrtRqstWrite) /\ rec[p].end <= u /\ u <= End
    BY <1>2, <2>1 DEF Bounds, Larger
  <2>3. caller'[p] = "flush" /\ wait'[p] = [upto |-> u] /\ rec'[p] = rec[p]
    BY <1>1, <1>2, <1>7, <2>2 DEF Typed, XLogFlush, FlushReturns, CallWait
  <2>4. Target(p)' = rec[p].end
    BY <2>3 DEF Target
  <2> QED BY <1>3, <1>4, <1>7, <2>2, <2>3, <2>4 DEF Waiter, Requesting
<1>8. CASE p \in Procs /\ FlushLocked(p) /\ at'[p] = "write"
  <2>1. /\ wait[p].insertpos \in Nat /\ rec[p].end <= wait[p].insertpos /\ wait[p].insertpos <= logInsertResult
        /\ rec[p].end \in Nat
    BY <1>2, <1>8 DEF Waiter, Insertion, FlushLocked, Before
  <2>2. PICK ptr \in {wait[p].insertpos, logInsertResult} :
          rqst'[p] = [write |-> ptr, flush |-> ptr, flexible |-> FALSE] /\ rec'[p] = rec[p]
    BY <1>1, <1>2, <1>8 DEF Typed, Bounds, FlushLocked, FlushReturns
  <2>3. ptr \in Nat /\ rec[p].end <= ptr /\ ptr <= logInsertResult
    BY <1>3, <2>1
  <2> QED BY <1>3, <1>4, <1>8, <2>2, <2>3 DEF Waiter, Requesting
<1>9. CASE p = WalWriter /\ XLogBackgroundFlush /\ at'[p] = "wait"
  <2>1. PageBegin(LogwrtRqstWrite) \in Nat /\ PageBegin(LogwrtRqstWrite) <= LogwrtRqstWrite
    BY <1>2, PageParts DEF Bounds
  <2>2. PICK ptr \in {asyncXactLSN, PageBegin(LogwrtRqstWrite)} :
          ptr = IF PageBegin(LogwrtRqstWrite) <= logFlushResult THEN asyncXactLSN ELSE PageBegin(LogwrtRqstWrite)
    OBVIOUS
  <2>3. ptr \in Nat /\ ptr <= End
    BY <1>2, <2>1, EndTyped DEF Bounds
  <2>4. wait'[p] = [upto |-> ptr] /\ caller'[p] = "background"
    BY <1>1, <1>2, <1>9, <2>2 DEF Typed, XLogBackgroundFlush, CallWait
  <2>5. \E flush \in {Invalid, ptr} :
          rqst' = [rqst EXCEPT ![WalWriter] = [write |-> ptr, flush |-> flush,
                                              flexible |-> PageBegin(LogwrtRqstWrite) > logFlushResult]]
    BY <1>1, <1>2, <1>9, <2>2 DEF Typed, XLogBackgroundFlush
  <2>6. rqst'[p].write = ptr /\ rqst'[p].flush \in Nat
    BY <1>1, <1>2, <1>9, <2>3, <2>5 DEF Bounds, Invalid
  <2>7. Target(p)' = ptr
    BY <2>4, <2>6 DEF Target
  <2> QED BY <1>3, <1>4, <1>9, <2>3, <2>4, <2>6, <2>7 DEF Waiter, Requesting
<1> QED BY <1>1, <1>2, <1>5, <1>6, <1>7, <1>8, <1>9, SMTT(30) DEF SideStep, Typed, LookAgain, AcquireOrWait, WALInsertLockBusy, Idle,
   Inserted, XLogFlush, FlushLocked, FlushReturns, CallWait, MapLock, PublishFlush, XLogBackgroundFlush

\* A backend among them inserts nothing, or goes on where it was.
LEMMA SideInsertion ==
  ASSUME RedoInv, RedoInv', WaitInv, InsertInv, NEW p \in Procs, SideStep(p)
  PROVE  Insertion(p)' /\ NotBack(p)
<1>1. p \in Everyone /\ p # WalWriter /\ Distinct
  BY XLogConstants DEF Everyone
<1>2. Typed /\ Proc(p) /\ Insertion(p)
  BY DEF RedoInv, InsertInv
<1>3. UNCHANGED <<CurrBytePos, logInsertResult, insertLock, insertingAt>>
  BY SideFrame
<1>4. CASE \/ LookAgain(p) \/ AcquireOrWait(p) \/ MapLock(p) \/ TakeWriteLock(p) \/ WritePage(p) \/ SyncFile(p) \/ PublishWrite(p)
           \/ PublishFlush(p) /\ caller[p] # "flush"
  <2>1. ASSUME PublishFlush(p), caller[p] # "flush" PROVE Plain(p)
    BY <1>1, <1>2, <2>1 DEF Plain, Typed, Proc, Before, Flushing, Free, PublishFlush, FlushReturns
  <2>2. Plain(p)
    BY <1>1, <1>4, <2>1, PlainSteps
  <2>3. rec'[p] = rec[p] /\ at[p] # "release"
    BY <1>4 DEF LookAgain, AcquireOrWait, MapLock, TakeWriteLock, WritePage, SyncFile, PublishWrite, PublishFlush, FlushReturns
  <2>4. HasSpace(p) => logInsertResult' <= Copied(p)
    BY <1>2, <1>3 DEF Insertion
  <2> QED BY <1>3, <2>2, <2>3, <2>4, PlainInsertion
<1>5. CASE WALInsertLockBusy(p) \/ Inserted(p) \/ XLogFlush(p) \/ FlushLocked(p) \/ (PublishFlush(p) /\ caller[p] = "flush")
  <2>1. Free(p)' /\ at'[p] # "reserve"
    BY <1>1, <1>2, <1>5 DEF Proc, Typed, Free, WALInsertLockBusy, Idle, Inserted, XLogFlush, FlushLocked, PublishFlush,
       FlushReturns, CallWait
  <2>2. ~HasSpace(p)'
    BY <2>1 DEF HasSpace, Inserts
  <2>3. at'[p] \notin Before => at[p] \notin Before /\ rec'[p] = rec[p]
    BY <1>1, <1>2, <1>5 DEF Typed, Before, WALInsertLockBusy, Idle, Inserted, XLogFlush, FlushLocked, PublishFlush,
       FlushReturns, CallWait
  <2> QED BY <1>2, <1>3, <2>1, <2>2, <2>3, FreeInsertion
<1> QED BY <1>1, <1>4, <1>5 DEF SideStep

\* None of them disturbs an insertion.
LEMMA InsertSide ==
  ASSUME RedoInv, RedoInv', WaitInv, WaitInv', InsertInv, NEW p \in Everyone, SideStep(p)
  PROVE  InsertInv'
<1>1. /\ Typed /\ PositionsOK /\ DOMAIN wait = Everyone /\ Bounds /\ Waiter(p)
      /\ \A q \in Procs : Insertion(q)
  BY DEF RedoInv, WaitInv, InsertInv
<1>2. UNCHANGED <<CurrBytePos, logInsertResult, insertLock, insertingAt>>
  BY SideFrame
<1>3. Still(p) /\ Aside(p)
  BY <1>1, StillSteps, AsideSteps DEF SideStep
<1>4. End <= End' /\ logInsertResult <= logInsertResult'
  BY <1>1, <1>2, EndKept
<1>5. Waiter(p)'
  BY <1>1, <1>2, RequestSteps, OtherRequests
<1>6. \A q \in Procs \ {p} : HasSpace(q) => logInsertResult' <= Copied(q)
  BY <1>1, <1>2 DEF Insertion
<1> QED BY <1>3, <1>4, <1>5, <1>6, SideBounds, SideInsertion, InsertStep

\* What everybody has copied while somebody waits for insertions.
LEMMA UnmovedSpace ==
  ASSUME RedoInv, WaitInv, NEW p \in Everyone, Still(p), p \in Procs => Plain(p) /\ at[p] # "release" /\ rec'[p] = rec[p],
         NEW q \in Procs, HasSpace(q)'
  PROVE  /\ HasSpace(q) /\ Copied(q)' = Copied(q) /\ Copied(q) \in Nat
         /\ Max(Held(q))' = Max(Held(q)) /\ Max(Held(q)) \in Held(q) /\ Max(Held(q)) \in Locks
<1>1. HasSpace(q) /\ Copied(q)' = Copied(q) /\ Max(Held(q))' = Max(Held(q))
  <2>1. CASE q # p
    BY <2>1, OtherSpace
  <2>2. CASE q = p
    <3>1. /\ at[p] \notin Before /\ at[p] # "release" /\ rec'[p] = rec[p] /\ (Free(p)' <=> Free(p))
          /\ Held(p)' = Held(p)
      BY <2>2 DEF Plain, Held
    <3>2. HasSpace(p)
      BY <2>2, <3>1 DEF HasSpace, Inserts, Before
    <3>3. Copied(p)' = Copied(p) /\ Max(Held(p))' = Max(Held(p))
      BY <3>1 DEF Copied, InitializedPart, HeaderSize, PageBegin, Max
    <3> QED BY <2>2, <3>2, <3>3
  <2> QED BY <2>1, <2>2
<1> QED BY <1>1, SpaceTyped

\* Who looks for the page that is to be replaced still has a part of its record before it.
LEMMA OldPageBefore ==
  ASSUME RedoInv, WaitInv, InsertInv, NEW p \in Procs, at[p] = "advance", rec[p].curr >= InitializedUpTo
  PROVE  OldPageRqstPtr \in Nat /\ OldPageRqstPtr <= End /\ HasSpace(p) /\ caller[p] # "flush"
<1>1. Proc(p) /\ Insertion(p) /\ PositionsOK
  BY DEF RedoInv, InsertInv, WaitInv
<1>2. caller[p] # "flush"
  BY <1>1 DEF Proc, Flushing
<1>3. HasSpace(p) /\ at[p] \notin Before
  BY <1>2 DEF HasSpace, Inserts, Free, Before
<1>4. rec[p].curr \in Nat /\ rec[p].left \in Nat
  BY <1>3, SpaceTyped
<1>5. InitializedUpTo <= Copied(p) /\ InitializedUpTo \in Nat
  BY <1>1, <1>4, PageBefore DEF PositionsOK, Copied
<1>6. Copied(p) \in Nat /\ Copied(p) < rec[p].end /\ rec[p].end \in Nat /\ rec[p].end <= End
  BY <1>1, <1>3, <1>4, AheadBounds DEF Insertion, Copied
<1>7. OldPageRqstPtr \in Nat /\ OldPageRqstPtr <= InitializedUpTo
  BY <1>1, BufferNumber DEF OldPageRqstPtr, PositionsOK
<1> QED BY <1>2, <1>3, <1>5, <1>6, <1>7, EndTyped

\* WaitXLogInsertionsToFinish begins.
LEMMA InsertWaitStart ==
  ASSUME RedoInv, RedoInv', WaitInv, WaitInv', InsertInv, NEW p \in Everyone, WaitStart(p)
  PROVE  InsertInv'
<1>1. p \in Everyone /\ Distinct
  BY XLogConstants DEF Everyone
<1>2. /\ Typed /\ PositionsOK /\ HoldersMove /\ WaitOK(p) /\ DOMAIN wait = Everyone /\ Bounds /\ Waiter(p)
      /\ \A q \in Procs : Insertion(q)
      /\ p \in Procs => Proc(p) /\ Insertion(p)
  BY <1>1 DEF RedoInv, WaitInv, InsertInv
<1>3. UNCHANGED <<CurrBytePos, logInsertResult, insertLock, insertingAt>>
  BY DEF WaitStart, AfterWait
<1>4. Still(p)
  BY <1>1, <1>2, StillSteps
<1>5. Aside(p)
  BY <1>1, <1>2, AsideSteps
<1>6. End <= End' /\ logInsertResult <= logInsertResult'
  BY <1>2, <1>3, EndKept
<1>7. Bounds'
  <2>1. End' = End
    BY <1>3 DEF End
  <2>2. UNCHANGED <<LogwrtRqstWrite, asyncXactLSN, logWriteResult, logFlushResult>>
    BY DEF WaitStart, AfterWait
  <2>3. DOMAIN LogwrtResult' = Everyone /\ DOMAIN rqst' = Everyone
    BY <1>1, <1>2, AsideSteps
  <2>4. caller'[WalWriter] # "flush"
    BY <1>1, <1>2, AsideSteps
  <2> QED BY <1>2, <1>3, <2>1, <2>2, <2>3, <2>4 DEF Bounds
<1>8. Waiter(p)'
  <2>1. UNCHANGED <<LogwrtResult, rec, caller, rqst>>
    BY DEF WaitStart, AfterWait
  <2>2. \A q \in Procs : HasSpace(q)' => /\ HasSpace(q) /\ Copied(q)' = Copied(q) /\ Copied(q) \in Nat
                                         /\ Max(Held(q))' = Max(Held(q)) /\ Max(Held(q)) \in Held(q)
                                         /\ Max(Held(q)) \in Locks
    <3>1. Plain(p)
      BY PlainSteps
    <3>2. at[p] # "release" /\ rec'[p] = rec[p]
      BY <2>1 DEF WaitStart, AfterWait
    <3> QED BY <1>1, <1>4, <3>1, <3>2, UnmovedSpace
  <2>3. All \in Nat \ {0} /\ Locks = 1..All /\ logInsertResult \in Nat /\ End \in Nat
    BY <1>2, LocksNumbered, EndTyped DEF PositionsOK
  <2>4. /\ wait[p].upto \in Nat /\ Target(p) <= wait[p].upto
        /\ Target(p) = (IF caller[p] = "flush" THEN rec[p].end ELSE rqst[p].write)
        /\ caller[p] # "flush" => rqst[p].write \in Nat /\ rqst[p].flush \in Nat
        /\ caller[p] = "flush" => p \in Procs /\ rec[p].end \in Nat
    <3>1. at[p] \in {"wait", "waitVar"} /\ at[p] \notin Before
      BY DEF WaitStart, AfterWait, Before
    <3>2. caller[p] = "flush" => p \in Procs
      BY <1>1, <1>2 DEF Bounds, Everyone
    <3> QED BY <1>2, <3>1, <3>2 DEF Waiter, Target, Insertion
  <2>5. Target(p)' = Target(p)
    BY <2>1 DEF Target
  <2>6. CASE wait[p].upto <= logInsertResult
    <3>1. \/ caller[p] = "flush" /\ wait'[p] = [insertpos |-> logInsertResult] /\ at'[p] = "acquireOrWait"
          \/ caller[p] # "flush" /\ at'[p] = "writeLock"
      BY <1>1, <1>2, <2>6 DEF Typed, WaitStart, AfterWait
    <3>2. caller[p] = "flush" => rec[p].end <= logInsertResult
      BY <2>3, <2>4, <2>6
    <3>3. caller[p] # "flush" => rqst[p].write <= logInsertResult
      BY <2>3, <2>4, <2>6
    <3> QED BY <1>2, <1>3, <2>1, <2>3, <2>4, <2>6, <3>1, <3>2, <3>3 DEF Waiter, Requesting
  <2>7. CASE ~(wait[p].upto <= logInsertResult)
    <3>1. PICK e \in Nat : e = End
      BY <2>3
    <3>2. at[p] = "wait" /\ at'[p] = "waitVar"
      BY <1>1, <1>2, <2>7 DEF Typed, WaitStart, AfterWait
    <3>3. wait'[p] = [upto |-> Smaller(wait[p].upto, e), finished |-> e, lock |-> 1, value |-> Invalid]
      BY <1>1, <1>2, <2>7, <3>1 DEF Typed, End, WaitStart, AfterWait
    <3>4. wait[p].upto <= e
      BY <1>2, <3>1, <3>2 DEF Waiter
    <3>5. wait'[p].upto = wait[p].upto /\ wait'[p].finished = e /\ wait'[p].lock = 1
      BY <2>4, <3>3, <3>4 DEF Smaller
    <3>6. \A q \in Procs : HasSpace(q)' => 1 <= Max(Held(q))'
      BY <2>2, <2>3
    <3>7. End' = e
      BY <1>3, <3>1 DEF End
    <3>8. 1 \in 1..(All + 1)
      BY <2>3
    <3> QED BY <1>2, <1>3, <2>1, <2>4, <2>5, <3>2, <3>4, <3>5, <3>6, <3>7, <3>8 DEF Waiter, Requesting
  <2> QED BY <2>6, <2>7
<1>9. ASSUME p \in Procs PROVE Insertion(p)' /\ NotBack(p)
  <2>1. Plain(p)
    BY <1>1, <1>9, PlainSteps
  <2>2. UNCHANGED insertingAt /\ rec'[p] = rec[p] /\ at[p] # "release"
    BY <1>3 DEF WaitStart, AfterWait
  <2>3. HasSpace(p) => logInsertResult' <= Copied(p)
    BY <1>2, <1>3, <1>9 DEF Insertion
  <2> QED BY <1>9, <2>1, <2>2, <2>3, PlainInsertion
<1>10. \A q \in Procs \ {p} : HasSpace(q) => logInsertResult' <= Copied(q)
  BY <1>2, <1>3 DEF Insertion
<1> QED BY <1>1, <1>4, <1>5, <1>6, <1>7, <1>8, <1>9, <1>10, InsertStep

\* WaitXLogInsertionsToFinish looks at a lock.
LEMMA InsertWaitForVar ==
  ASSUME RedoInv, RedoInv', WaitInv, WaitInv', InsertInv, NEW p \in Everyone, WaitForVar(p)
  PROVE  InsertInv'
<1>1. p \in Everyone /\ Distinct
  BY XLogConstants DEF Everyone
<1>2. /\ Typed /\ PositionsOK /\ HoldersMove /\ WaitOK(p) /\ DOMAIN wait = Everyone /\ Bounds /\ Waiter(p)
      /\ \A q \in Procs : Insertion(q)
      /\ p \in Procs => Proc(p) /\ Insertion(p)
  BY <1>1 DEF RedoInv, WaitInv, InsertInv
<1>3. UNCHANGED <<CurrBytePos, logInsertResult, insertLock, insertingAt>>
  BY DEF WaitForVar
<1>4. Still(p)
  BY <1>1, <1>2, StillSteps
<1>5. Aside(p)
  BY <1>1, <1>2, AsideSteps
<1>6. End <= End' /\ logInsertResult <= logInsertResult'
  BY <1>2, <1>3, EndKept
<1>7. Bounds'
  <2>1. End' = End
    BY <1>3 DEF End
  <2>2. UNCHANGED <<LogwrtRqstWrite, asyncXactLSN, logWriteResult, logFlushResult>>
    BY DEF WaitForVar
  <2>3. DOMAIN LogwrtResult' = Everyone /\ DOMAIN rqst' = Everyone
    BY <1>1, <1>2, AsideSteps
  <2>4. caller'[WalWriter] # "flush"
    BY <1>1, <1>2, AsideSteps
  <2> QED BY <1>2, <1>3, <2>1, <2>2, <2>3, <2>4 DEF Bounds
<1>8. Waiter(p)'
  <2>1. UNCHANGED <<LogwrtResult, rec, caller, rqst>>
    BY DEF WaitForVar
  <2>2. \A q \in Procs : HasSpace(q)' => /\ HasSpace(q) /\ Copied(q)' = Copied(q) /\ Copied(q) \in Nat
                                         /\ Max(Held(q))' = Max(Held(q)) /\ Max(Held(q)) \in Held(q)
                                         /\ Max(Held(q)) \in Locks
    <3>1. Plain(p)
      BY PlainSteps
    <3>2. at[p] # "release" /\ rec'[p] = rec[p]
      BY <2>1 DEF WaitForVar
    <3> QED BY <1>1, <1>4, <3>1, <3>2, UnmovedSpace
  <2>3. All \in Nat \ {0} /\ Locks = 1..All /\ logInsertResult \in Nat /\ End \in Nat
    BY <1>2, LocksNumbered, EndTyped DEF PositionsOK
  <2>4. /\ wait[p].upto \in Nat /\ Target(p) <= wait[p].upto
        /\ Target(p) = (IF caller[p] = "flush" THEN rec[p].end ELSE rqst[p].write)
        /\ caller[p] # "flush" => rqst[p].write \in Nat /\ rqst[p].flush \in Nat
        /\ caller[p] = "flush" => p \in Procs /\ rec[p].end \in Nat
    <3>1. at[p] \in {"wait", "waitVar"} /\ at[p] \notin Before
      BY DEF WaitForVar, Before
    <3>2. caller[p] = "flush" => p \in Procs
      BY <1>1, <1>2 DEF Bounds, Everyone
    <3> QED BY <1>2, <3>1, <3>2 DEF Waiter, Target, Insertion
  <2>5. Target(p)' = Target(p)
    BY <2>1 DEF Target
  <2>6. at[p] = "waitVar" /\ at'[p] = "waitVar" /\ wait[p].lock \in Locks
    BY DEF WaitForVar
  <2>7. /\ DOMAIN wait[p] = {"upto", "finished", "lock", "value"} /\ wait[p].finished \in Nat
        /\ wait[p].upto <= wait[p].finished /\ wait[p].finished <= End
        /\ \A q \in Procs : HasSpace(q) /\ Copied(q) < wait[p].finished => wait[p].lock <= Max(Held(q))
    BY <1>2, <2>6 DEF WaitOK, Waiter
  <2>8. PICK v \in Nat, l \in Nat, f \in Nat, u \in Nat :
          v = insertingAt[wait[p].lock] /\ l = wait[p].lock /\ f = wait[p].finished /\ u = wait[p].upto
    BY <1>2, <2>3, <2>4, <2>6, <2>7 DEF PositionsOK
  <2>9. \/ insertLock[l] = None /\ wait'[p] = [wait[p] EXCEPT !.lock = @ + 1, !.value = Invalid]
        \/ v >= u /\ wait'[p] = [wait[p] EXCEPT !.lock = @ + 1, !.value = Invalid, !.finished = Smaller(@, v)]
        \/ wait'[p] = [wait[p] EXCEPT !.value = v]
    BY <1>1, <1>2, <2>8 DEF WaitForVar
  <2>14. Smaller(f, v) \in Nat /\ l + 1 \in Nat
    BY DEF Smaller
  <2>15. /\ wait'[p].upto = u
         /\ \/ insertLock[l] = None /\ wait'[p].lock = l + 1 /\ wait'[p].finished = f
            \/ v >= u /\ wait'[p].lock = l + 1 /\ wait'[p].finished = Smaller(f, v)
            \/ wait'[p].lock = l /\ wait'[p].finished = f
    BY <2>7, <2>8, <2>9
  <2>10. PICK l2 \in Nat, f2 \in Nat :
           /\ wait'[p].upto = u /\ wait'[p].lock = l2 /\ wait'[p].finished = f2
           /\ \/ insertLock[l] = None /\ l2 = l + 1 /\ f2 = f
              \/ v >= u /\ l2 = l + 1 /\ f2 = Smaller(f, v)
              \/ l2 = l /\ f2 = f
    BY <2>14, <2>15
  <2>11. u <= f2 /\ f2 <= f /\ l2 \in 1..(All + 1)
    BY <2>3, <2>6, <2>7, <2>8, <2>10 DEF Smaller
  <2>12. ASSUME NEW q \in Procs, HasSpace(q)', Copied(q)' < f2 PROVE l2 <= Max(Held(q))'
    <3>1. /\ HasSpace(q) /\ Copied(q)' = Copied(q) /\ Copied(q) \in Nat
          /\ Max(Held(q))' = Max(Held(q)) /\ Max(Held(q)) \in Held(q) /\ Max(Held(q)) \in Locks
      BY <2>2, <2>12
    <3>2. Position(q) <= Copied(q) /\ Position(q) = insertingAt[Max(Held(q))]
      BY <1>2, <3>1 DEF Insertion, Position
    <3>3. l <= Max(Held(q)) /\ Max(Held(q)) \in Nat
      BY <2>3, <2>7, <2>8, <2>11, <2>12, <3>1
    <3>4. ASSUME l = Max(Held(q)) PROVE l2 = l
      <4>1. insertLock[l] = q /\ q # None
        BY <1>1, <3>1, <3>4 DEF Held
      <4>2. v <= Copied(q)
        BY <2>8, <3>2, <3>4
      <4>3. Copied(q) < f2
        BY <2>12, <3>1
      <4> QED BY <2>10, <3>1, <4>1, <4>2, <4>3 DEF Smaller
    <3> QED BY <2>10, <3>1, <3>3, <3>4
  <2>13. End' = End /\ f2 <= End
    <3>1. End' = End
      BY <1>3 DEF End
    <3> QED BY <2>3, <2>7, <2>8, <2>11, <3>1
  <2> QED BY <1>2, <1>3, <2>1, <2>4, <2>5, <2>6, <2>8, <2>10, <2>11, <2>12, <2>13 DEF Waiter, Requesting
<1>9. ASSUME p \in Procs PROVE Insertion(p)' /\ NotBack(p)
  <2>1. Plain(p)
    BY <1>1, <1>9, PlainSteps
  <2>2. UNCHANGED insertingAt /\ rec'[p] = rec[p] /\ at[p] # "release"
    BY <1>3 DEF WaitForVar
  <2>3. HasSpace(p) => logInsertResult' <= Copied(p)
    BY <1>2, <1>3, <1>9 DEF Insertion
  <2> QED BY <1>9, <2>1, <2>2, <2>3, PlainInsertion
<1>10. \A q \in Procs \ {p} : HasSpace(q) => logInsertResult' <= Copied(q)
  BY <1>2, <1>3 DEF Insertion
<1> QED BY <1>1, <1>4, <1>5, <1>6, <1>7, <1>8, <1>9, <1>10, InsertStep

\* The end of WaitXLogInsertionsToFinish: no insertion below what counts as finished is under way.
LEMMA InsertWaitEnd ==
  ASSUME RedoInv, RedoInv', WaitInv, WaitInv', InsertInv, NEW p \in Everyone, WaitEnd(p)
  PROVE  InsertInv'
<1>1. p \in Everyone /\ Distinct
  BY XLogConstants DEF Everyone
<1>2. /\ Typed /\ PositionsOK /\ HoldersMove /\ WaitOK(p) /\ DOMAIN wait = Everyone /\ Bounds /\ Waiter(p)
      /\ \A q \in Procs : Insertion(q)
      /\ p \in Procs => Proc(p) /\ Insertion(p)
  BY <1>1 DEF RedoInv, WaitInv, InsertInv
<1>3. UNCHANGED <<CurrBytePos, insertLock, insertingAt>>
  BY DEF WaitEnd, AfterWait
<1>4. Still(p)
  BY <1>1, <1>2, StillSteps
<1>5. Aside(p)
  BY <1>1, <1>2, AsideSteps
<1>6. /\ End' = End /\ End <= End' /\ logInsertResult <= logInsertResult' /\ logInsertResult' <= End
      /\ logInsertResult' \in Nat /\ wait[p].finished <= logInsertResult'
      /\ \A q \in Procs : HasSpace(q) => logInsertResult' <= Copied(q)
  <2>1. /\ wait[p].finished \in Nat /\ wait[p].upto <= wait[p].finished /\ wait[p].finished <= End
        /\ wait[p].lock \in 1..(All + 1) /\ wait[p].lock \notin Locks
        /\ \A q \in Procs : HasSpace(q) /\ Copied(q) < wait[p].finished => wait[p].lock <= Max(Held(q))
    BY <1>2 DEF WaitOK, Waiter, WaitEnd
  <2>2. logInsertResult \in Nat /\ logInsertResult' = Larger(logInsertResult, wait[p].finished)
    BY <1>2 DEF PositionsOK, WaitEnd
  <2>3. End' = End /\ End \in Nat
    BY <1>3, EndTyped DEF End
  <2>4. logInsertResult <= logInsertResult' /\ logInsertResult' <= End /\ logInsertResult' \in Nat
        /\ wait[p].finished <= logInsertResult'
    BY <1>2, <2>1, <2>2, <2>3 DEF Larger, Bounds
  <2>5. ASSUME NEW q \in Procs, HasSpace(q) PROVE logInsertResult' <= Copied(q)
    <3>1. All \in Nat \ {0} /\ Locks = 1..All
      BY LocksNumbered
    <3>2. Copied(q) \in Nat /\ Max(Held(q)) \in Locks
      BY <2>5, SpaceTyped
    <3>3. wait[p].finished <= Copied(q)
      BY <2>1, <2>5, <3>1, <3>2
    <3>4. logInsertResult <= Copied(q)
      BY <1>2, <2>5 DEF Insertion
    <3> QED BY <2>1, <2>2, <3>2, <3>3, <3>4 DEF Larger
  <2> QED BY <2>3, <2>4, <2>5
<1>7. Bounds'
  <2>1. UNCHANGED <<LogwrtRqstWrite, asyncXactLSN, logWriteResult, logFlushResult, LogwrtResult, rqst, caller>>
    BY DEF WaitEnd, AfterWait
  <2>2. logWriteResult <= logInsertResult' /\ logInsertResult \in Nat
    BY <1>2, <1>6 DEF Bounds, PositionsOK
  <2> QED BY <1>2, <1>3, <1>6, <2>1, <2>2 DEF Bounds
<1>8. Waiter(p)'
  <2>1. UNCHANGED <<LogwrtResult, rec, caller, rqst>>
    BY DEF WaitEnd, AfterWait
  <2>2. \A q \in Procs : HasSpace(q)' => /\ HasSpace(q) /\ Copied(q)' = Copied(q) /\ Copied(q) \in Nat
                                         /\ Max(Held(q))' = Max(Held(q)) /\ Max(Held(q)) \in Held(q)
                                         /\ Max(Held(q)) \in Locks
    <3>1. Plain(p)
      BY PlainSteps
    <3>2. at[p] # "release" /\ rec'[p] = rec[p]
      BY <2>1 DEF WaitEnd, AfterWait
    <3> QED BY <1>1, <1>4, <3>1, <3>2, UnmovedSpace
  <2>3. All \in Nat \ {0} /\ Locks = 1..All /\ logInsertResult \in Nat /\ End \in Nat
    BY <1>2, LocksNumbered, EndTyped DEF PositionsOK
  <2>4. /\ wait[p].upto \in Nat /\ Target(p) <= wait[p].upto
        /\ Target(p) = (IF caller[p] = "flush" THEN rec[p].end ELSE rqst[p].write)
        /\ caller[p] # "flush" => rqst[p].write \in Nat /\ rqst[p].flush \in Nat
        /\ caller[p] = "flush" => p \in Procs /\ rec[p].end \in Nat
    <3>1. at[p] \in {"wait", "waitVar"} /\ at[p] \notin Before
      BY DEF WaitEnd, AfterWait, Before
    <3>2. caller[p] = "flush" => p \in Procs
      BY <1>1, <1>2 DEF Bounds, Everyone
    <3> QED BY <1>2, <3>1, <3>2 DEF Waiter, Target, Insertion
  <2>5. Target(p)' = Target(p)
    BY <2>1 DEF Target
  <2>6. logInsertResult' \in Nat /\ Target(p) <= logInsertResult' /\ logInsertResult <= logInsertResult'
    <3>1. wait[p].upto <= wait[p].finished /\ wait[p].finished \in Nat /\ Target(p) \in Nat
      BY <1>2, <2>4 DEF Waiter, WaitOK, WaitEnd
    <3> QED BY <1>6, <2>4, <3>1
  <2>7. \/ caller[p] = "flush" /\ wait'[p] = [insertpos |-> logInsertResult'] /\ at'[p] = "acquireOrWait"
        \/ caller[p] # "flush" /\ at'[p] = "writeLock"
    BY <1>1, <1>2 DEF Typed, WaitEnd, AfterWait
  <2>8. caller[p] = "flush" => rec[p].end <= logInsertResult'
    BY <2>3, <2>4, <2>6
  <2>9. caller[p] # "flush" => rqst[p].write <= logInsertResult'
    BY <2>3, <2>4, <2>6
  <2> QED BY <1>2, <2>1, <2>3, <2>4, <2>6, <2>7, <2>8, <2>9 DEF Waiter, Requesting
<1>9. ASSUME p \in Procs PROVE Insertion(p)' /\ NotBack(p)
  <2>1. Plain(p)
    BY <1>1, <1>9, PlainSteps
  <2>2. UNCHANGED insertingAt /\ rec'[p] = rec[p] /\ at[p] # "release"
    BY <1>3 DEF WaitEnd, AfterWait
  <2>3. HasSpace(p) => logInsertResult' <= Copied(p)
    BY <1>6, <1>9
  <2> QED BY <1>9, <2>1, <2>2, <2>3, PlainInsertion
<1>10. \A q \in Procs \ {p} : HasSpace(q) => logInsertResult' <= Copied(q)
  BY <1>6
<1> QED BY <1>1, <1>4, <1>5, <1>6, <1>7, <1>8, <1>9, <1>10, InsertStep

\* AdvanceXLInsertBuffer: what it asks for is before its own page.
LEMMA InsertAdvance ==
  ASSUME RedoInv, RedoInv', WaitInv, WaitInv', InsertInv, NEW p \in Everyone, Advance(p)
  PROVE  InsertInv'
<1>1. p \in Everyone /\ Distinct
  BY XLogConstants DEF Everyone
<1>2. /\ Typed /\ PositionsOK /\ HoldersMove /\ WaitOK(p) /\ DOMAIN wait = Everyone /\ Bounds /\ Waiter(p)
      /\ \A q \in Procs : Insertion(q)
      /\ p \in Procs => Proc(p) /\ Insertion(p)
  BY <1>1 DEF RedoInv, WaitInv, InsertInv
<1>3. UNCHANGED <<CurrBytePos, logInsertResult, insertLock, insertingAt>>
  BY DEF Advance, InitializePage, CallWait, Opportunistic
<1>4. Still(p)
  BY <1>1, <1>2, StillSteps
<1>5. Aside(p)
  BY <1>1, <1>2, AsideSteps
<1>6. End <= End' /\ logInsertResult <= logInsertResult'
  BY <1>2, <1>3, EndKept
<1>7. Bounds'
  <2>1. End' = End /\ End \in Nat
    BY <1>3, EndTyped DEF End
  <2>2. UNCHANGED <<asyncXactLSN, logWriteResult, logFlushResult>>
    BY DEF Advance, InitializePage, CallWait, Opportunistic
  <2>3. DOMAIN LogwrtResult' = Everyone /\ DOMAIN rqst' = Everyone
    BY <1>1, <1>2, AsideSteps
  <2>4. caller'[WalWriter] # "flush"
    BY <1>1, <1>2, AsideSteps
  <2>5. LogwrtRqstWrite' \in Nat /\ LogwrtRqstWrite' <= End
    <3>1. \/ LogwrtRqstWrite' = LogwrtRqstWrite
          \/ /\ LogwrtRqstWrite' = Larger(LogwrtRqstWrite, OldPageRqstPtr)
             /\ at[p] = "advance" /\ p # WalWriter /\ rec[p].curr >= InitializedUpTo
      BY DEF Advance, InitializePage, CallWait, Opportunistic
    <3>2. p # WalWriter => p \in Procs
      BY <1>1 DEF Everyone
    <3> QED BY <1>2, <2>1, <3>1, <3>2, OldPageBefore DEF Bounds, Larger
  <2> QED BY <1>2, <1>3, <2>1, <2>2, <2>3, <2>4, <2>5 DEF Bounds
<1>8. Waiter(p)'
  <2>1. LogwrtResult'[p] \in {LogwrtResult[p], Refreshed}
    BY <1>1, <1>2 DEF Bounds, Advance, InitializePage, CallWait, Opportunistic
  <2>2. CASE at'[p] \in {"advance", "idle", "mapped"}
    <3>1. at'[p] \notin {"wait", "waitVar", "acquireOrWait", "flushLocked"} /\ at'[p] \notin Requesting
      BY <2>2 DEF Requesting
    <3> QED BY <1>2, <1>3, <2>1, <3>1, QuietWaiter DEF PositionsOK
  <2>3. CASE at'[p] = "wait"
    <3>1. p # WalWriter /\ at[p] = "advance" /\ rec[p].curr >= InitializedUpTo /\ UNCHANGED caller
      BY <1>1, <1>2, <2>3 DEF Typed, Advance, InitializePage, CallWait, Opportunistic
    <3>2. PICK old \in Nat : old = OldPageRqstPtr /\ old <= End /\ caller[p] # "flush"
      BY <1>1, <3>1, OldPageBefore DEF Everyone
    <3>3. /\ rqst' = [rqst EXCEPT ![p] = [write |-> old, flush |-> Invalid, flexible |-> FALSE]]
          /\ wait' = [wait EXCEPT ![p] = [upto |-> old]]
      BY <1>1, <1>2, <2>3, <3>2 DEF Typed, Bounds, Advance, InitializePage, CallWait, Opportunistic
    <3>6. rqst'[p].write = old /\ rqst'[p].flush = Invalid /\ wait'[p].upto = old
      BY <1>1, <1>2, <3>3 DEF Bounds
    <3>4. Target(p)' = old /\ End' = End /\ Invalid \in Nat /\ caller'[p] # "flush"
      BY <1>3, <3>1, <3>2, <3>6 DEF Target, End, Invalid
    <3>5. /\ DOMAIN LogwrtResult'[p] = {"write", "flush"} /\ LogwrtResult'[p].write \in Nat
          /\ LogwrtResult'[p].flush \in Nat /\ LogwrtResult'[p].write <= logInsertResult'
      BY <1>2, <1>3, <2>1 DEF Bounds, Waiter, Refreshed
    <3> QED BY <2>3, <3>2, <3>4, <3>5, <3>6 DEF Waiter, Requesting
  <2> QED BY <1>1, <1>2, <2>2, <2>3 DEF Typed, Advance, InitializePage, CallWait, Opportunistic
<1>9. ASSUME p \in Procs PROVE Insertion(p)' /\ NotBack(p)
  <2>1. Plain(p)
    BY <1>1, <1>9, PlainSteps
  <2>2. UNCHANGED insertingAt /\ rec'[p] = rec[p] /\ at[p] # "release"
    BY <1>3 DEF Advance, InitializePage, CallWait, Opportunistic
  <2>3. HasSpace(p) => logInsertResult' <= Copied(p)
    BY <1>2, <1>3, <1>9 DEF Insertion
  <2> QED BY <1>9, <2>1, <2>2, <2>3, PlainInsertion
<1>10. \A q \in Procs \ {p} : HasSpace(q) => logInsertResult' <= Copied(q)
  BY <1>2, <1>3 DEF Insertion
<1> QED BY <1>1, <1>4, <1>5, <1>6, <1>7, <1>8, <1>9, <1>10, InsertStep

\* A step of XLogInsertRecord, put together.
LEMMA InserterStep ==
  ASSUME RedoInv, RedoInv', WaitInv, WaitInv', InsertInv, NEW p \in Procs, Still(p),
         UNCHANGED <<logInsertResult, logWriteResult, logFlushResult, LogwrtRqstWrite, asyncXactLSN, LogwrtResult, rqst>>,
         \A q \in Everyone \ {p} : caller'[q] = caller[q], End <= End',
         at'[p] \in {"idle", "reserve", "lockAll", "copy", "map", "buffer", "release", "inserted"},
         \A l \in Locks : insertLock'[l] = None => insertingAt'[l] = 0,
         Insertion(p)', NotBack(p)
  PROVE  InsertInv'
<1>1. p \in Everyone /\ Procs \subseteq Everyone /\ WalWriter \in Everyone /\ WalWriter # p
  BY XLogConstants DEF Everyone
<1>2. /\ Bounds /\ Waiter(p) /\ PositionsOK /\ End \in Nat /\ End' \in Nat
      /\ \A q \in Procs : Insertion(q)
  <2>1. CurrBytePos' \in Nat
    BY DEF RedoInv, Typed
  <2>2. XLogBytePosToEndRecPtr(CurrBytePos') \in Nat
    BY <2>1, PointersMonotone
  <2>3. End' \in Nat
    BY <2>2 DEF End
  <2> QED BY <1>1, <2>3, EndTyped DEF InsertInv, WaitInv
<1>3. Bounds'
  <2>1. logInsertResult <= End' /\ LogwrtRqstWrite <= End' /\ asyncXactLSN <= End'
    BY <1>2 DEF Bounds, PositionsOK
  <2> QED BY <1>1, <1>2, <2>1 DEF Bounds
<1>4. Waiter(p)'
  <2>1. at'[p] \notin {"wait", "waitVar", "acquireOrWait", "flushLocked"} /\ at'[p] \notin Requesting
    BY DEF Requesting
  <2> QED BY <1>2, <2>1, QuietWaiter DEF PositionsOK
<1>5. Aside(p)
  BY DEF Aside
<1>6. \A q \in Procs \ {p} : HasSpace(q) => logInsertResult' <= Copied(q)
  BY <1>2 DEF Insertion
<1>7. logInsertResult <= logInsertResult'
  BY <1>2 DEF PositionsOK
<1> QED BY <1>1, <1>3, <1>4, <1>5, <1>6, <1>7, InsertStep

\* GetXLogBuffer says how far it has got, and no more.
LEMMA InsertGetBuffer ==
  ASSUME RedoInv, RedoInv', WaitInv, WaitInv', InsertInv, NEW p \in Procs, GetXLogBuffer(p)
  PROVE  InsertInv'
<1>1. p \in Everyone /\ Distinct
  BY XLogConstants DEF Everyone
<1>2. /\ Typed /\ PositionsOK /\ DOMAIN wait = Everyone /\ Proc(p) /\ Bounds /\ Insertion(p) /\ End \in Nat
  BY EndTyped DEF RedoInv, WaitInv, InsertInv
<1>3. /\ UNCHANGED <<CurrBytePos, insertLock, todo, rec, wait>>
      /\ UNCHANGED <<logInsertResult, logWriteResult, logFlushResult, LogwrtRqstWrite, asyncXactLSN, LogwrtResult, rqst>>
  BY DEF GetXLogBuffer
<1>4. at[p] = "buffer" /\ at'[p] \in {"copy", "map"}
  BY <1>1, <1>2 DEF GetXLogBuffer, Typed
<1>5. HasSpace(p)
  BY <1>2, <1>4 DEF Proc, HasSpace, Inserts, Free, Flushing
<1>6. /\ Max(Held(p)) \in Held(p) /\ Held(p) \subseteq Locks /\ Copied(p) \in Nat /\ Position(p) \in Nat
  BY <1>5, SpaceTyped
<1>7. PICK top \in Held(p) : top = Max(Held(p)) /\ top \in Locks /\ insertLock[top] = p /\ p # None
  BY <1>1, <1>6 DEF Held
<1>8. \/ UNCHANGED insertingAt
      \/ insertingAt' = [insertingAt EXCEPT ![top] = Copied(p)]
  BY <1>7 DEF GetXLogBuffer, UpdateInsertingAt, Copied
<1>9. /\ \A l \in Locks \ {top} : insertingAt'[l] = insertingAt[l]
      /\ insertingAt'[top] \in {insertingAt[top], Copied(p)}
  BY <1>2, <1>7, <1>8 DEF PositionsOK
<1>10. Still(p)
  <2>1. \A q \in Everyone \ {p} : at'[q] = at[q] /\ wait'[q] = wait[q]
    BY <1>1, <1>2, <1>3 DEF Typed, GetXLogBuffer
  <2>2. \A q \in Procs \ {p} : Same(q)
    BY <1>1, <1>2, <1>3, <2>1 DEF Typed, Same, GetXLogBuffer
  <2>3. \A q \in Procs \ {p} : Held(q)' = Held(q) /\ \A l \in Held(q) : insertingAt'[l] = insertingAt[l]
    BY <1>3, <1>7, <1>9 DEF Held
  <2> QED BY <1>2, <1>3, <2>1, <2>2, <2>3 DEF Still
<1>11. Insertion(p)' /\ NotBack(p)
  <2>1. Held(p)' = Held(p) /\ Max(Held(p))' = top /\ Job(p)' = Job(p)
    BY <1>3, <1>7 DEF Held, Max, Job
  <2>2. Copied(p)' = Copied(p) /\ End' = End
    BY <1>3 DEF Copied, InitializedPart, HeaderSize, PageBegin, End
  <2>3. Position(p)' = insertingAt'[top] /\ Position(p) = insertingAt[top]
    BY <1>7, <2>1 DEF Position
  <2>4. Position(p)' <= Copied(p)
    BY <1>2, <1>5, <1>6, <1>9, <2>3 DEF Insertion
  <2>5. NotBack(p)
    BY <1>5, <1>6, <2>1, <2>2 DEF NotBack
  <2>6. logInsertResult <= Copied(p) /\ Ahead(rec[p].curr, rec[p].left, rec[p].end, Job(p).kind)
        /\ rec[p].end \in Nat /\ rec[p].end <= End
    BY <1>2, <1>4, <1>5 DEF Insertion, Before
  <2> QED BY <1>3, <1>4, <2>1, <2>2, <2>4, <2>5, <2>6 DEF Insertion
<1>12. \A l \in Locks : insertLock'[l] = None => insertingAt'[l] = 0
  BY <1>2, <1>3, <1>7, <1>9 DEF Bounds
<1>13. (\A q \in Everyone \ {p} : caller'[q] = caller[q]) /\ End <= End'
  <2>1. End' = End
    BY <1>3 DEF End
  <2> QED BY <1>1, <1>2, <2>1 DEF Typed, GetXLogBuffer
<1> QED BY <1>3, <1>4, <1>10, <1>11, <1>12, <1>13, InserterStep

\* CopyXLogRecordToWAL gets on.
LEMMA InsertCopy ==
  ASSUME RedoInv, RedoInv', WaitInv, WaitInv', InsertInv, NEW p \in Procs, Copy(p)
  PROVE  InsertInv'
<1>1. p \in Everyone /\ Distinct
  BY XLogConstants DEF Everyone
<1>2. /\ Typed /\ PositionsOK /\ DOMAIN wait = Everyone /\ Proc(p) /\ Bounds /\ Insertion(p) /\ End \in Nat
  BY EndTyped DEF RedoInv, WaitInv, InsertInv
<1>3. /\ UNCHANGED <<CurrBytePos, insertLock, insertingAt, todo, caller, wait>>
      /\ UNCHANGED <<logInsertResult, logWriteResult, logFlushResult, LogwrtRqstWrite, asyncXactLSN, LogwrtResult, rqst>>
  BY DEF Copy
<1>4. at[p] = "copy" /\ at'[p] \in {"buffer", "release"}
  BY <1>1, <1>2 DEF Copy, Typed
<1>5. HasSpace(p)
  BY <1>2, <1>4 DEF Proc, HasSpace, Inserts, Free, Flushing
<1>6. /\ Copied(p) \in Nat /\ Position(p) \in Nat /\ DOMAIN rec[p] = {"start", "end", "curr", "left"}
      /\ Ahead(rec[p].curr, rec[p].left, rec[p].end, Job(p).kind) /\ logInsertResult <= Copied(p) /\ Position(p) <= Copied(p)
      /\ rec[p].end \in Nat /\ rec[p].end <= End /\ logInsertResult \in Nat
  BY <1>2, <1>4, <1>5, SpaceTyped DEF Insertion, Before, PositionsOK
<1>7. PICK c \in Nat, left \in Nat : c = rec[p].curr /\ left = rec[p].left
  BY <1>5, SpaceTyped
<1>8. Still(p)
  <2>1. \A q \in Everyone \ {p} : at'[q] = at[q] /\ wait'[q] = wait[q]
    BY <1>1, <1>2, <1>3 DEF Typed, Copy
  <2>2. \A q \in Procs \ {p} : Same(q)
    BY <1>1, <1>2, <1>3, <2>1 DEF Typed, Same, Copy
  <2> QED BY <1>2, <1>3, <2>1, <2>2 DEF Still, Held
<1>9. PICK from, n, rest, to :
        /\ from = From(c) /\ n = Smaller(left, PageEnd(c) - from) /\ rest = left - n
        /\ to = IF rest = 0 /\ Job(p).kind = "switch" THEN PageEnd(c) ELSE from + n
  OBVIOUS
<1>10. /\ rec' = [rec EXCEPT ![p].curr = to, ![p].left = rest]
       /\ at'[p] = IF rest > 0 \/ to < rec[p].end THEN "buffer" ELSE "release"
  BY <1>1, <1>2, <1>7, <1>9 DEF Copy, From, Typed
<1>11. /\ to \in Nat /\ rest \in Nat /\ InitializedPart(c) <= to /\ InitializedPart(to) = to
       /\ rest > 0 \/ to < rec[p].end => Ahead(to, rest, rec[p].end, Job(p).kind)
  <2>1. PICK end \in Nat, kind \in {Job(p).kind} : end = rec[p].end /\ kind = Job(p).kind
    BY <1>6
  <2> QED BY <1>6, <1>7, <1>9, <2>1, CopyMoves
<1>12. rec'[p].curr = to /\ rec'[p].left = rest /\ rec'[p].end = rec[p].end
  BY <1>2, <1>6, <1>10 DEF Typed
<1>13. Insertion(p)' /\ NotBack(p)
  <2>1. Held(p)' = Held(p) /\ Job(p)' = Job(p) /\ Position(p)' = Position(p) /\ End' = End
    BY <1>3 DEF Held, Position, Max, Job, End
  <2>2. Copied(p)' = to
    <3>1. Copied(p)' = InitializedPart(to)
      BY <1>12 DEF Copied, InitializedPart, HeaderSize, PageBegin
    <3> QED BY <1>11, <3>1
  <2>3. Copied(p) <= to
    BY <1>7, <1>11 DEF Copied
  <2>4. Position(p) <= to /\ logInsertResult <= to
    BY <1>6, <1>11, <2>3
  <2>5. HasSpace(p)' => Ahead(to, rest, rec[p].end, Job(p).kind)
    BY <1>10, <1>11 DEF HasSpace, Inserts
  <2>6. NotBack(p)
    BY <1>5, <2>1, <2>2, <2>3 DEF NotBack
  <2> QED BY <1>3, <1>4, <1>6, <1>12, <2>1, <2>2, <2>4, <2>5, <2>6 DEF Insertion
<1>14. (\A l \in Locks : insertLock'[l] = None => insertingAt'[l] = 0) /\ End <= End'
  <2>1. End' = End
    BY <1>3 DEF End
  <2> QED BY <1>2, <1>3, <2>1 DEF Bounds
<1> QED BY <1>3, <1>4, <1>8, <1>13, <1>14, InserterStep

\* Who changes only insertion locks that are free or its own leaves the others alone.
LEMMA LocksMoveStill ==
  ASSUME RedoInv, WaitInv, NEW p \in Procs, LocksMove(p)
  PROVE  Still(p)
<1>1. p \in Everyone /\ Procs \subseteq Everyone /\ WalWriter \notin Procs /\ None \notin Everyone
  BY XLogConstants DEF Everyone
<1>2. Typed /\ PositionsOK /\ DOMAIN wait = Everyone
  BY <1>1 DEF RedoInv, WaitInv
<1>3. PICK l \in Locks :
        /\ insertLock[l] \in {None, p} /\ insertLock'[l] \in {None, p} /\ insertingAt'[l] \in Nat
        /\ \A m \in Locks \ {l} : insertLock'[m] = insertLock[m] /\ insertingAt'[m] = insertingAt[m]
  BY DEF LocksMove
<1>4. \A q \in Procs \ {p} : Held(q)' = Held(q) /\ l \notin Held(q)
  BY <1>1, <1>2, <1>3 DEF Typed, Held
<1>5. \A q \in Procs \ {p} : \A m \in Held(q) : insertingAt'[m] = insertingAt[m]
  BY <1>2, <1>3, <1>4 DEF PositionsOK, Held
<1> QED BY <1>2, <1>4, <1>5 DEF Still, LocksMove

\* Such a step of XLogInsertRecord, put together.
LEMMA LocksMoveInsert ==
  ASSUME RedoInv, RedoInv', WaitInv, WaitInv', InsertInv, NEW p \in Procs, LocksMove(p),
         UNCHANGED <<CurrBytePos, logWriteResult, logFlushResult, LogwrtRqstWrite, asyncXactLSN, LogwrtResult, rqst, caller>>,
         at'[p] \in {"idle", "reserve", "lockAll", "release", "inserted"},
         at'[p] \in {"release", "inserted"} => at[p] = "release" /\ rec'[p] = rec[p],
         at'[p] = "reserve" => Position(p)' = 0,
         \A l \in Locks : insertLock'[l] = None => insertingAt'[l] = 0
  PROVE  InsertInv'
<1>1. End' = End /\ End \in Nat /\ Insertion(p) /\ Still(p)
  BY EndTyped, LocksMoveStill DEF End, InsertInv
<1>2. ~HasSpace(p)'
  BY DEF HasSpace, Inserts, Free
<1>3. Insertion(p)' /\ NotBack(p)
  BY <1>1, <1>2 DEF Insertion, NotBack, Before
<1>4. UNCHANGED logInsertResult
  BY DEF LocksMove
<1> QED BY <1>1, <1>3, <1>4, InserterStep

\* WALInsertLockRelease.
LEMMA InsertLockRelease ==
  ASSUME RedoInv, RedoInv', WaitInv, WaitInv', InsertInv, NEW p \in Procs, WALInsertLockRelease(p)
  PROVE  InsertInv'
<1>1. p \in Everyone /\ Procs \subseteq Everyone
  BY XLogConstants DEF Everyone
<1>2. Typed /\ Proc(p) /\ PositionsOK /\ Bounds
  BY DEF RedoInv, WaitInv, InsertInv
<1>3. at[p] = "release" /\ at'[p] \in {"release", "inserted"}
  BY <1>1, <1>2 DEF Typed, WALInsertLockRelease
<1>4. Held(p) # {}
  BY <1>2, <1>3 DEF Proc, Free, Flushing
<1>5. PICK l \in Locks : l = Min(Held(p)) /\ insertLock[l] = p
  BY <1>4, LeastHeld DEF Held
<1>6. insertLock' = [insertLock EXCEPT ![l] = None] /\ insertingAt' = [insertingAt EXCEPT ![l] = 0]
  BY <1>5 DEF WALInsertLockRelease, Invalid
<1>7. /\ insertLock'[l] = None /\ insertingAt'[l] = 0 /\ DOMAIN insertingAt' = Locks
       /\ \A m \in Locks \ {l} : insertLock'[m] = insertLock[m] /\ insertingAt'[m] = insertingAt[m]
  BY <1>2, <1>6 DEF Typed, PositionsOK
<1>8. \A q \in Everyone \ {p} : at'[q] = at[q]
  BY <1>1, <1>2 DEF Typed, WALInsertLockRelease
<1>9. \A q \in Procs \ {p} : Same(q)
  BY <1>1, <1>8 DEF Same, WALInsertLockRelease
<1>10. /\ UNCHANGED <<CurrBytePos, InitializedUpTo, xlblocks, logInsertResult, WALBufMappingLock, WALWriteLock, wait>>
       /\ UNCHANGED <<logWriteResult, logFlushResult, LogwrtRqstWrite, asyncXactLSN, LogwrtResult, rqst, caller, rec>>
       /\ DOMAIN at' = Everyone
  BY <1>2 DEF WALInsertLockRelease, Typed
<1>11. LocksMove(p)
  BY <1>3, <1>5, <1>7, <1>8, <1>9, <1>10 DEF LocksMove, Writing
<1>12. \A m \in Locks : insertLock'[m] = None => insertingAt'[m] = 0
  BY <1>2, <1>7 DEF Bounds
<1> QED BY <1>3, <1>10, <1>11, <1>12, LocksMoveInsert

\* WALInsertLockAcquire: nobody is told of a position before the reservation.
LEMMA InsertLockAcquire ==
  ASSUME RedoInv, RedoInv', WaitInv, WaitInv', InsertInv, NEW p \in Procs, WALInsertLockAcquire(p)
  PROVE  InsertInv'
<1>1. p \in Everyone /\ Procs \subseteq Everyone /\ None \notin Everyone
  BY XLogConstants DEF Everyone
<1>2. Typed /\ Proc(p) /\ PositionsOK /\ Bounds
  BY DEF RedoInv, WaitInv, InsertInv
<1>3. /\ at[p] \in {"idle", "lockWait"} /\ insertLock[lockNo[p]] = None
      /\ at'[p] \in {"idle", "reserve"}
  BY <1>1, <1>2 DEF WALInsertLockAcquire, Idle, Proc, Typed
<1>4. PICK l \in Locks : l = lockNo[p] /\ insertingAt[l] = 0
  BY <1>2, <1>3 DEF Proc, Bounds
<1>5. \A q \in Everyone \ {p} : at'[q] = at[q]
  BY <1>1, <1>2 DEF Typed, WALInsertLockAcquire
<1>6. \A q \in Procs \ {p} : Same(q)
  BY <1>1, <1>2, <1>5 DEF Same, Typed, WALInsertLockAcquire
<1>7. /\ UNCHANGED <<CurrBytePos, InitializedUpTo, xlblocks, logInsertResult, WALBufMappingLock, WALWriteLock, wait>>
      /\ UNCHANGED <<logWriteResult, logFlushResult, LogwrtRqstWrite, asyncXactLSN, LogwrtResult, rqst, caller, insertingAt>>
      /\ DOMAIN at' = Everyone
  BY <1>2 DEF WALInsertLockAcquire, Typed
<1>8. insertingAt'[l] \in Nat /\ DOMAIN insertingAt' = Locks
  BY <1>2, <1>7 DEF PositionsOK
<1>9. insertLock'[l] \in {None, p} /\ \A m \in Locks \ {l} : insertLock'[m] = insertLock[m]
  BY <1>2, <1>3, <1>4 DEF Typed, WALInsertLockAcquire
<1>10. LocksMove(p)
  BY <1>3, <1>4, <1>5, <1>6, <1>7, <1>8, <1>9 DEF LocksMove, Writing
<1>11. at'[p] = "reserve" => Position(p)' = 0
  <2> SUFFICES ASSUME at'[p] = "reserve" PROVE Position(p)' = 0
    OBVIOUS
  <2>1. insertLock' = [insertLock EXCEPT ![l] = p]
    BY <1>1, <1>2, <1>4 DEF WALInsertLockAcquire, Typed
  <2>2. Held(p) = {}
    BY <1>2, <1>3 DEF Proc, Free
  <2>3. Held(p)' = {l}
    BY <1>2, <2>1, <2>2 DEF Held, Typed
  <2>4. Max({l}) = l
    <3>1. l \in {l} /\ (\A m \in {l} : l >= m) /\ {l} \subseteq Nat
      BY LocksNumbered
    <3> QED BY <3>1, TopOf
  <2>5. Max(Held(p))' = l
    BY <2>3, <2>4 DEF Max
  <2> QED BY <1>4, <1>7, <2>5 DEF Position
<1>12. \A m \in Locks : insertLock'[m] = None => insertingAt'[m] = 0
  BY <1>2, <1>4, <1>7, <1>9 DEF Bounds
<1> QED BY <1>3, <1>7, <1>10, <1>11, <1>12, LocksMoveInsert

\* WALInsertLockAcquireExclusive: the last of the locks tells of no position yet.
LEMMA InsertLockAll ==
  ASSUME RedoInv, RedoInv', WaitInv, WaitInv', InsertInv, NEW p \in Procs, WALInsertLockAcquireExclusive(p)
  PROVE  InsertInv'
<1>1. p \in Everyone /\ Procs \subseteq Everyone /\ None \notin Everyone
  BY XLogConstants DEF Everyone
<1>2. Typed /\ Proc(p) /\ PositionsOK /\ Bounds
  BY DEF RedoInv, WaitInv, InsertInv
<1>3. All \in Nat \ {0} /\ Locks = 1..All
  BY LocksNumbered
<1>4. at[p] \in {"idle", "lockAll"}
  BY DEF WALInsertLockAcquireExclusive, Idle
<1>5. PICK k \in 0..(All - 1) : Held(p) = 1..k
  <2>1. CASE at[p] = "idle"
    <3>1. Held(p) = {} /\ 1..0 = {}
      BY <1>2, <2>1 DEF Proc, Free
    <3> QED BY <1>3, <3>1
  <2>2. CASE at[p] = "lockAll"
    BY <1>2, <1>3, <2>2 DEF Proc
  <2> QED BY <1>4, <2>1, <2>2
<1>6. PICK l \in Locks : l = k + 1 /\ l = Cardinality(Held(p)) + 1
  BY <1>3, <1>5, CardinalityOfNumbers
<1>7. /\ insertLock[l] = None /\ insertLock' = [insertLock EXCEPT ![l] = p]
      /\ insertingAt' = Passable(l)
      /\ at' = [at EXCEPT ![p] = IF l = All THEN "reserve" ELSE "lockAll"]
  BY <1>6 DEF WALInsertLockAcquireExclusive
<1>8. PICK n \in Nat : insertingAt' = [insertingAt EXCEPT ![l] = n] /\ (l = All => n = 0)
  <2>1. MaxPtr \in Nat
    BY SMT DEF MaxPtr
  <2>2. insertingAt[l] = 0
    BY <1>2, <1>7 DEF Bounds
  <2>3. PICK n \in Nat : n = IF l < All THEN MaxPtr ELSE insertingAt[l]
    BY <2>1, <2>2
  <2>4. l = All => n = 0
    BY <1>3, <2>2, <2>3
  <2> QED BY <1>7, <2>3, <2>4 DEF Passable
<1>9. \A q \in Everyone \ {p} : at'[q] = at[q]
  BY <1>1, <1>2, <1>7 DEF Typed
<1>10. \A q \in Procs \ {p} : Same(q)
  BY <1>1, <1>2, <1>9 DEF Same, Typed, WALInsertLockAcquireExclusive
<1>11. /\ UNCHANGED <<CurrBytePos, InitializedUpTo, xlblocks, logInsertResult, WALBufMappingLock, WALWriteLock, wait>>
       /\ UNCHANGED <<logWriteResult, logFlushResult, LogwrtRqstWrite, asyncXactLSN, LogwrtResult, rqst, caller>>
       /\ DOMAIN at' = Everyone /\ at'[p] = IF l = All THEN "reserve" ELSE "lockAll"
  BY <1>1, <1>2, <1>7 DEF WALInsertLockAcquireExclusive, Typed
<1>12. /\ insertLock'[l] = p /\ insertingAt'[l] = n /\ DOMAIN insertingAt' = Locks
       /\ \A m \in Locks \ {l} : insertLock'[m] = insertLock[m] /\ insertingAt'[m] = insertingAt[m]
  BY <1>2, <1>7, <1>8 DEF Typed, PositionsOK
<1>13. at'[p] \in {"reserve", "lockAll"} /\ (at'[p] = "reserve" => l = All)
  BY <1>11
<1>14. LocksMove(p)
  BY <1>4, <1>7, <1>9, <1>10, <1>11, <1>12, <1>13 DEF LocksMove, Writing
<1>15. at'[p] = "reserve" => Position(p)' = 0
  <2> SUFFICES ASSUME at'[p] = "reserve" PROVE Position(p)' = 0
    OBVIOUS
  <2>1. l = All
    BY <1>13
  <2>2. Held(p)' = Held(p) \union {l}
    BY <1>2, <1>6, <1>7 DEF Typed, Held
  <2>3. Held(p)' = Locks
    BY <1>3, <1>5, <1>6, <2>1, <2>2
  <2>4. Max(Locks) = All
    <3>1. All \in Locks /\ (\A m \in Locks : All >= m) /\ Locks \subseteq Nat
      BY <1>3
    <3> QED BY <3>1, TopOf
  <2>5. Max(Held(p))' = l
    BY <2>1, <2>3, <2>4 DEF Max
  <2> QED BY <1>8, <1>12, <2>1, <2>5 DEF Position
<1>16. \A m \in Locks : insertLock'[m] = None => insertingAt'[m] = 0
  BY <1>1, <1>2, <1>12 DEF Bounds
<1> QED BY <1>11, <1>13, <1>14, <1>15, <1>16, LocksMoveInsert

\* A reservation begins where the reserved space ended.
LEMMA ReservedInsert ==
  ASSUME RedoInv, RedoInv', WaitInv, WaitInv', InsertInv, NEW p \in Procs, NEW next, NEW end, Reserved(p, next, end),
         XLogBytePosToEndRecPtr(next) = end, XLogBytePosToEndRecPtr(CurrBytePos + Job(p).len) <= end,
         Job(p).kind = "switch" => end % XLOG_BLCKSZ = 0,
         Job(p).kind = "switch" \/ XLogBytePosToEndRecPtr(CurrBytePos + Job(p).len) = end,
         UNCHANGED <<logInsertResult, logWriteResult, logFlushResult, LogwrtRqstWrite, asyncXactLSN, LogwrtResult, rqst>>,
         UNCHANGED <<wait, insertingAt>>
  PROVE  InsertInv'
<1>1. p \in Everyone /\ Procs \subseteq Everyone /\ WalWriter \notin Procs /\ None \notin Everyone
  BY XLogConstants DEF Everyone
<1>2. /\ Typed /\ PositionsOK /\ DOMAIN wait = Everyone /\ Proc(p) /\ Bounds /\ Insertion(p) /\ Inserter(p)
      /\ End \in Nat
  BY <1>1, EndTyped DEF RedoInv, WaitInv, InsertInv
<1>3. /\ at[p] = "reserve" /\ CurrBytePos' = next /\ at' = [at EXCEPT ![p] = "buffer"]
      /\ UNCHANGED <<insertLock, caller, todo, lockNo, doPageWrites, pageLSN>>
  BY DEF Reserved
<1>4. at'[p] = "buffer" /\ \A q \in Everyone \ {p} : at'[q] = at[q]
  BY <1>1, <1>2, <1>3 DEF Typed
<1>5. todo[p] # <<>> /\ Job(p) \in Jobs
  BY <1>2, <1>3, JobsLeft DEF Proc
<1>6. PICK len \in Nat \ {0} : len = Job(p).len
  BY <1>5 DEF Jobs
<1>7. next \in Nat /\ CurrBytePos < next /\ CurrBytePos \in Nat /\ end \in Nat
  BY <1>2, <1>6, ReservesLater DEF Typed, Reserved
<1>8. Still(p)
  <2>1. \A q \in Procs \ {p} : rec'[q] = rec[q] /\ redo'[q] = redo[q]
    BY <1>2 DEF Typed, Reserved
  <2>2. \A q \in Procs \ {p} : Same(q)
    BY <1>1, <1>3, <1>4, <2>1 DEF Same
  <2> QED BY <1>2, <1>3, <1>4, <2>2 DEF Still, Held
<1>9. End' = end /\ End <= end
  <2>1. End' = end
    BY <1>3 DEF End
  <2>2. XLogBytePosToEndRecPtr(CurrBytePos) <= XLogBytePosToEndRecPtr(next)
    BY <1>7, PointersMonotone
  <2> QED BY <2>1, <2>2 DEF End
<1>10. Insertion(p)' /\ NotBack(p)
  <2>1. rec'[p] = [start |-> NextPtr, end |-> end, curr |-> NextPtr, left |-> len]
    BY <1>2, <1>6 DEF Typed, Reserved
  <2>2. rec'[p].curr = NextPtr /\ rec'[p].left = len /\ rec'[p].end = end
    BY <2>1
  <2>3. Copied(p)' = End
    <3>1. Copied(p)' = InitializedPart(NextPtr)
      BY <2>2 DEF Copied, InitializedPart, HeaderSize, PageBegin
    <3>2. InitializedPart(NextPtr) = End
      BY <1>7, PartOfStart DEF NextPtr, End
    <3> QED BY <3>1, <3>2
  <2>4. Held(p)' = Held(p) /\ Job(p)' = Job(p) /\ Position(p)' = Position(p)
    BY <1>3 DEF Held, Position, Max, Job
  <2>5. Position(p)' <= Copied(p)' /\ logInsertResult' <= Copied(p)'
    BY <1>2, <1>3, <2>3, <2>4 DEF Insertion, Bounds
  <2>6. Ahead(NextPtr, len, end, Job(p).kind)
    BY <1>6, <1>7 DEF Ahead, NextPtr
  <2>7. NotBack(p)
    BY <1>2, <2>3 DEF NotBack
  <2> QED BY <1>4, <1>7, <1>9, <2>2, <2>4, <2>5, <2>6, <2>7 DEF Insertion
<1>11. \A l \in Locks : insertLock'[l] = None => insertingAt'[l] = 0
  BY <1>2, <1>3 DEF Bounds
<1> QED BY <1>3, <1>4, <1>8, <1>9, <1>10, <1>11, InserterStep

\* ReserveXLogInsertLocation.
LEMMA InsertReserve ==
  ASSUME RedoInv, RedoInv', WaitInv, WaitInv', InsertInv, NEW p \in Procs, ReserveXLogInsertLocation(p)
  PROVE  InsertInv'
<1>1. PICK next, end : /\ next = CurrBytePos + Job(p).len /\ end = XLogBytePosToEndRecPtr(next)
                       /\ Reserve(p, next, end) /\ end <= Horizon
  BY DEF ReserveXLogInsertLocation
<1>2. Reserves(CurrBytePos, Job(p).len, next, end)
  BY <1>1 DEF Reserves
<1>3. \/ UNCHANGED <<RedoRecPtr, redo>>
      \/ Exclusive(p) /\ RedoRecPtr' = NextPtr /\ redo' = [redo EXCEPT ![p] = NextPtr]
  BY DEF ReserveXLogInsertLocation, Exclusive, NextPtr
<1>4. UNCHANGED <<insertLock, caller, todo, lockNo, doPageWrites, pageLSN>> /\ at[p] = "reserve" /\ Job(p).kind # "switch"
  BY DEF ReserveXLogInsertLocation
<1>5. Reserved(p, next, end)
  BY <1>1, <1>2, <1>3, <1>4 DEF Reserved, Reserve, NextPtr
<1>6. /\ UNCHANGED <<logInsertResult, logWriteResult, logFlushResult, LogwrtRqstWrite, asyncXactLSN, LogwrtResult, rqst>>
      /\ UNCHANGED <<wait, insertingAt>>
  BY DEF ReserveXLogInsertLocation
<1>7. XLogBytePosToEndRecPtr(CurrBytePos + Job(p).len) <= end
  <2>1. Typed /\ Proc(p)
    BY DEF RedoInv
  <2>2. Job(p) \in Jobs
    BY <1>4, <2>1, JobsLeft DEF Proc
  <2>3. CurrBytePos + Job(p).len \in Nat
    BY <2>1, <2>2 DEF Typed, Jobs
  <2> QED BY <1>1, <2>3, PointersMonotone
<1> QED BY <1>1, <1>4, <1>5, <1>6, <1>7, ReservedInsert

\* ReserveXLogSwitch.
LEMMA InsertSwitch ==
  ASSUME RedoInv, RedoInv', WaitInv, WaitInv', InsertInv, NEW p \in Procs, ReserveXLogSwitch(p)
  PROVE  InsertInv'
<1>1. p \in Everyone /\ Procs \subseteq Everyone /\ WalWriter \notin Procs /\ None \notin Everyone
  BY XLogConstants DEF Everyone
<1>2. /\ Typed /\ Proc(p) /\ at[p] = "reserve" /\ Exclusive(p) /\ PositionsOK /\ DOMAIN wait = Everyone /\ Bounds
      /\ Job(p).kind = "switch" /\ End \in Nat /\ Insertion(p)
  BY EndTyped DEF RedoInv, WaitInv, InsertInv, ReserveXLogSwitch, Exclusive
<1>3. /\ UNCHANGED <<RedoRecPtr, insertLock, caller, todo, lockNo, redo, doPageWrites, pageLSN>>
      /\ UNCHANGED <<logInsertResult, logWriteResult, logFlushResult, LogwrtRqstWrite, asyncXactLSN, LogwrtResult, rqst>>
      /\ UNCHANGED <<wait, insertingAt>>
  BY DEF ReserveXLogSwitch
<1>4. CASE XLogBytePosToEndRecPtr(CurrBytePos) % SegSize = 0
  <2>1. rec' = [rec EXCEPT ![p] = [start |-> End, end |-> End, curr |-> End, left |-> 0]]
    BY <1>4 DEF ReserveXLogSwitch, End
  <2>2. at' = [at EXCEPT ![p] = "release"] /\ UNCHANGED CurrBytePos
    BY <1>4 DEF ReserveXLogSwitch
  <2>3. at'[p] = "release" /\ \A q \in Everyone \ {p} : at'[q] = at[q]
    BY <1>1, <1>2, <2>2 DEF Typed
  <2>4. Still(p)
    <3>1. \A q \in Procs \ {p} : Same(q)
      BY <1>1, <1>2, <1>3, <2>1, <2>3 DEF Typed, Same
    <3> QED BY <1>2, <1>3, <2>3, <3>1 DEF Still, Held
  <2>5. End' = End /\ rec'[p].end = End
    BY <1>2, <2>1, <2>2 DEF Typed, End
  <2>6. ~HasSpace(p)'
    BY <2>3 DEF HasSpace, Inserts
  <2>7. Insertion(p)' /\ NotBack(p)
    BY <1>2, <2>3, <2>5, <2>6 DEF Insertion, NotBack
  <2>8. \A l \in Locks : insertLock'[l] = None => insertingAt'[l] = 0
    BY <1>2, <1>3 DEF Bounds
  <2> QED BY <1>2, <1>3, <2>3, <2>4, <2>5, <2>7, <2>8, InserterStep
<1>5. CASE XLogBytePosToEndRecPtr(CurrBytePos) % SegSize # 0
  <2>1. PICK next, end, e :
          /\ e = XLogBytePosToEndRecPtr(CurrBytePos + Job(p).len)
          /\ end = IF e % SegSize = 0 THEN e ELSE e - (e % SegSize) + SegSize
          /\ next = XLogRecPtrToBytePos(end) /\ Reserve(p, next, end) /\ end <= Horizon
    BY <1>5 DEF ReserveXLogSwitch
  <2>2. Reserves(CurrBytePos, Job(p).len, next, end)
    BY <1>5, <2>1 DEF Reserves
  <2>3. Reserved(p, next, end)
    BY <1>2, <1>3, <2>1, <2>2 DEF Reserved, Reserve, NextPtr
  <2>4. e \in Nat
    <3>1. todo[p] # <<>> /\ Job(p) \in Jobs
      BY <1>2, JobsLeft DEF Proc
    <3>2. CurrBytePos + Job(p).len \in Nat
      BY <1>2, <3>1 DEF Typed, Jobs
    <3> QED BY <2>1, <3>2, PointersMonotone
  <2>5. PICK s \in Nat : end = s * SegSize
    BY <2>1, <2>4, SegmentMultiple
  <2>6. XLogBytePosToEndRecPtr(next) = end
    BY <2>1, <2>5, SegmentEnd
  <2>7. end % XLOG_BLCKSZ = 0
    <3>1. s * SegSize \in Nat /\ (s * SegSize) % SegSize = 0
      BY Sizes, MultipleOf
    <3> QED BY <2>5, <3>1, SegmentOfPages
  <2>8. e <= end
    <3>1. PICK S \in Nat \ {0} : S = SegSize
      BY Sizes
    <3>2. PICK r \in Nat : r = e % S /\ r < S /\ r <= e
      BY <2>4, Remainder
    <3> QED BY <2>1, <2>4, <3>1, <3>2
  <2> QED BY <1>2, <1>3, <2>1, <2>3, <2>6, <2>7, <2>8, ReservedInsert
<1> QED BY <1>4, <1>5

\* The state after StartupXLOG.
LEMMA InitInsertInv == Init => InsertInv
<1> SUFFICES ASSUME Init PROVE InsertInv
  OBVIOUS
<1>1. PICK end \in Starts :
        /\ CurrBytePos = XLogRecPtrToBytePos(end) /\ logInsertResult = end /\ logWriteResult = end /\ logFlushResult = end
        /\ LogwrtRqstWrite = end /\ asyncXactLSN = 0
        /\ insertLock = [l \in Locks |-> None] /\ insertingAt = [l \in Locks |-> 0]
        /\ at = [p \in Everyone |-> "idle"] /\ rqst = [p \in Everyone |-> None] /\ caller = [p \in Everyone |-> None]
        /\ LogwrtResult = [p \in Everyone |-> [write |-> 0, flush |-> 0]]
  BY DEF Init, Invalid
<1>2. end \in Nat /\ WalWriter \in Everyone /\ Procs \subseteq Everyone /\ None # "flush"
  BY XLogConstants DEF Everyone
<1>3. End = end
  BY <1>1, StartEnd DEF End
<1>4. Bounds
  BY <1>1, <1>2, <1>3 DEF Bounds
<1>5. \A p \in Procs : Insertion(p)
  BY <1>1, <1>2 DEF Insertion, HasSpace, Inserts, Free, Before
<1>6. \A p \in Everyone : Waiter(p)
  BY <1>1, <1>2 DEF Waiter, Requesting
<1> QED BY <1>4, <1>5, <1>6 DEF InsertInv

\* Nothing happens.
LEMMA StutterInsertInv ==
  ASSUME RedoInv, RedoInv', WaitInv, WaitInv', InsertInv, UNCHANGED vars
  PROVE  InsertInv'
<1>1. /\ UNCHANGED <<CurrBytePos, logInsertResult, logWriteResult, logFlushResult, LogwrtRqstWrite, asyncXactLSN>>
      /\ UNCHANGED <<insertLock, insertingAt, at, caller, todo, rec, lockNo, redo, doPageWrites, pageLSN, wait>>
      /\ UNCHANGED <<LogwrtResult, rqst>>
  BY DEF vars
<1>2. WalWriter \in Everyone /\ WalWriter \notin Procs
  BY XLogConstants DEF Everyone
<1>3. /\ Bounds /\ Waiter(WalWriter) /\ DOMAIN wait = Everyone /\ logInsertResult \in Nat /\ End \in Nat /\ End' = End
      /\ \A q \in Procs : Insertion(q)
  BY <1>1, <1>2, EndTyped DEF WaitInv, InsertInv, PositionsOK, End
<1>4. Still(WalWriter) /\ Aside(WalWriter)
  BY <1>1, <1>3 DEF Still, Same, Held, Aside
<1>5. Bounds'
  BY <1>1, <1>3 DEF Bounds
<1>6. Waiter(WalWriter)'
  <2>1. \A q \in Procs : HasSpace(q)' => HasSpace(q) /\ Copied(q)' = Copied(q) /\ Max(Held(q))' = Max(Held(q))
    BY <1>2, <1>4, OtherSpace
  <2>2. Target(WalWriter)' = Target(WalWriter)
    BY <1>1 DEF Target
  <2> QED BY <1>1, <1>3, <2>1, <2>2 DEF Waiter
<1>7. \A q \in Procs : HasSpace(q) => logInsertResult' <= Copied(q)
  BY <1>1, <1>3 DEF Insertion
<1> QED BY <1>1, <1>2, <1>3, <1>4, <1>5, <1>6, <1>7, InsertStep

\* Every step.
LEMMA NextInsertInv ==
  RedoInv /\ RedoInv' /\ WaitInv /\ WaitInv' /\ InsertInv /\ [Next]_vars => InsertInv'
<1> SUFFICES ASSUME RedoInv, RedoInv', WaitInv, WaitInv', InsertInv, [Next]_vars PROVE InsertInv'
  OBVIOUS
<1>1. Procs \subseteq Everyone /\ WalWriter \in Everyone
  BY DEF Everyone
<1>2. ASSUME NEW p \in Everyone, SideStep(p) PROVE InsertInv'
  BY <1>2, InsertSide
<1>3. ASSUME NEW p \in Procs, XLogInsertRecord(p) \/ XLogFlush(p) \/ AcquireOrWait(p) \/ FlushLocked(p) PROVE InsertInv'
  BY <1>1, <1>2, <1>3, InsertLockAcquire, InsertLockAll, InsertReserve, InsertSwitch, InsertGetBuffer, InsertCopy,
     InsertLockRelease DEF XLogInsertRecord, SideStep
<1>4. ASSUME NEW p \in Everyone, WaitXLogInsertionsToFinish(p) \/ AdvanceXLInsertBuffer(p) \/ XLogWrite(p) PROVE InsertInv'
  BY <1>2, <1>4, InsertWaitStart, InsertWaitForVar, InsertWaitEnd, InsertAdvance
     DEF WaitXLogInsertionsToFinish, AdvanceXLInsertBuffer, XLogWrite, SideStep
<1>5. CASE XLogBackgroundFlush \/ Done \/ UNCHANGED vars
  BY <1>1, <1>2, <1>5, StutterInsertInv DEF Done, SideStep
<1> QED BY <1>3, <1>4, <1>5 DEF Next

(***************************************************************************)
(* What is in the buffers and on disk.                                     *)
(***************************************************************************)

\* A position whose bytes the buffer of its page holds, one that is reserved and yet to be
\* copied, and one in a page header.
Good(ptr) == Mapped(ptr) /\ ptr \in buffer[BufIdx(ptr)]
Pending(ptr) == \E q \in Procs : HasSpace(q) /\ Copied(q) <= ptr /\ ptr < rec[q].end
InHeader(ptr) == ptr % XLOG_BLCKSZ < HeaderSize(ptr)

\* A page has its buffer until it is written, headers are there from the beginning, and what
\* is reserved and not written is copied or somebody's to copy.
Ring == \A ptr \in Nat : ptr < InitializedUpTo => PageEnd(ptr) <= logWriteResult \/ Mapped(ptr)
Headers == \A ptr \in Nat : ptr < InitializedUpTo /\ Mapped(ptr) /\ InHeader(ptr) => ptr \in buffer[BufIdx(ptr)]
Cover == \A ptr \in Nat : PageBegin(logWriteResult) <= ptr /\ ptr < End => Good(ptr) \/ Pending(ptr)

PagesOK ==
  /\ DOMAIN buffer = 0..(XLogBuffers - 1) /\ DOMAIN cachedPage = Procs
  /\ Ring /\ Headers /\ Cover

\* The page a backend copies to is initialised, and so is the one it remembers.
OnItsPage(p) ==
  /\ cachedPage[p] # None => cachedPage[p] \in Nat /\ (cachedPage[p] + 1) * XLOG_BLCKSZ <= InitializedUpTo
  /\ at[p] = "copy" => cachedPage[p] = PageOf(rec[p].curr)
  /\ at[p] = "mapped" => rec[p].curr < InitializedUpTo

\* Written up to w and flushed up to f; the segment that is being written to begins before f.
SegBegin(ptr) == ptr - (ptr % SegSize)
Safe(w, f) ==
  /\ \A ptr \in Nat : ptr < w => ptr \in file
  /\ \A ptr \in Nat : ptr < f => ptr \in synced
  /\ f <= w

DiskOK ==
  /\ Safe(logWriteResult, logFlushResult)
  /\ (\A p \in Everyone : at[p] # "publishFlush") => SegBegin(logWriteResult) <= logFlushResult

\* The writer is alone, knows more than the others, and what it knows is true.
Writes == {"write", "sync", "publishWrite", "publishFlush"}
Writer(p) ==
  /\ at[p] \in Writes \union {"flushLocked"} => WALWriteLock = p
  /\ at[p] \notin Writes => LogwrtResult[p].write <= logWriteResult /\ LogwrtResult[p].flush <= logFlushResult
  /\ at[p] \in Writes => /\ logWriteResult <= LogwrtResult[p].write /\ logFlushResult <= LogwrtResult[p].flush
                         /\ Safe(LogwrtResult[p].write, LogwrtResult[p].flush)
                         /\ SegBegin(LogwrtResult[p].write) <= LogwrtResult[p].flush
  /\ at[p] = "publishFlush" => logWriteResult = LogwrtResult[p].write
  /\ at[p] = "sync" => caller[p] # "flush"
  /\ at[p] \in {"publishWrite", "publishFlush"} /\ caller[p] = "flush" => rec[p].end <= LogwrtResult[p].flush

DiskInv == PagesOK /\ DiskOK /\ (\A p \in Procs : OnItsPage(p)) /\ (\A p \in Everyone : Writer(p)) /\ NoPanic

\* What the others keep while p moves, and what p may do to the disk.
Others(p) ==
  /\ \A q \in Everyone \ {p} : at'[q] = at[q] /\ caller'[q] = caller[q] /\ LogwrtResult'[q] = LogwrtResult[q]
  /\ \A q \in Procs \ {p} : rec'[q] = rec[q] /\ cachedPage'[q] = cachedPage[q]
  /\ WALWriteLock' = WALWriteLock \/ WALWriteLock \in {None, p}

\* Who holds no WALWriteLock notices at most that more is written.
LEMMA OtherWriter ==
  ASSUME InsertInv, InsertInv', NEW p \in Everyone, Others(p), NEW q \in Everyone, q # p, Writer(q), None \notin Everyone,
         UNCHANGED <<file, synced, logWriteResult, logFlushResult>> \/ WALWriteLock = p,
         logWriteResult <= logWriteResult', logFlushResult <= logFlushResult'
  PROVE  Writer(q)'
<1>1. /\ at'[q] = at[q] /\ caller'[q] = caller[q] /\ LogwrtResult'[q] = LogwrtResult[q]
      /\ caller[q] = "flush" => rec'[q] = rec[q]
  BY DEF Others, InsertInv, Bounds, Everyone
<1>2. /\ LogwrtResult[q].write \in Nat /\ LogwrtResult[q].flush \in Nat
      /\ logWriteResult \in Nat /\ logFlushResult \in Nat /\ logWriteResult' \in Nat /\ logFlushResult' \in Nat
  BY DEF InsertInv, Bounds, Waiter
<1>3. CASE at[q] \in Writes \union {"flushLocked"}
  <2>1. WALWriteLock = q /\ WALWriteLock' = q
    BY <1>3 DEF Writer, Others
  <2>2. UNCHANGED <<file, synced, logWriteResult, logFlushResult>>
    BY <2>1
  <2> QED BY <1>1, <2>1, <2>2 DEF Writer, Safe, SegBegin
<1>4. CASE at[q] \notin Writes \union {"flushLocked"}
  <2>1. LogwrtResult[q].write <= logWriteResult' /\ LogwrtResult[q].flush <= logFlushResult'
    BY <1>2, <1>4 DEF Writer
  <2> QED BY <1>1, <1>4, <2>1 DEF Writer, Writes
<1> QED BY <1>3, <1>4

\* A step of p, put together.
LEMMA DiskStep ==
  ASSUME RedoInv, WaitInv, WaitInv', InsertInv, InsertInv', DiskInv, NEW p \in Everyone, Others(p),
         UNCHANGED <<file, synced, logWriteResult, logFlushResult>> \/ WALWriteLock = p,
         logWriteResult <= logWriteResult', logFlushResult <= logFlushResult', InitializedUpTo <= InitializedUpTo',
         PagesOK', DiskOK', p \in Procs => OnItsPage(p)', Writer(p)', at'[p] \notin {"panic", "unsatisfied"}
  PROVE  DiskInv'
<1>1. Procs \subseteq Everyone /\ None \notin Everyone /\ InitializedUpTo \in Nat /\ InitializedUpTo' \in Nat
  BY XLogConstants DEF Everyone, WaitInv, PositionsOK
<1>2. ASSUME NEW q \in Everyone PROVE Writer(q)'
  BY <1>1, OtherWriter DEF DiskInv
<1>3. NoPanic'
  BY DEF NoPanic, DiskInv, Others
<1>4. ASSUME NEW q \in Procs, q # p PROVE OnItsPage(q)'
  <2>1. OnItsPage(q) /\ at'[q] = at[q] /\ rec'[q] = rec[q] /\ cachedPage'[q] = cachedPage[q]
    BY <1>1, <1>4 DEF Others, DiskInv
  <2>2. cachedPage[q] # None => cachedPage[q] \in Nat /\ (cachedPage[q] + 1) * XLOG_BLCKSZ <= InitializedUpTo'
    <3> SUFFICES ASSUME cachedPage[q] # None PROVE cachedPage[q] \in Nat /\ (cachedPage[q] + 1) * XLOG_BLCKSZ <= InitializedUpTo'
      OBVIOUS
    <3>1. cachedPage[q] \in Nat /\ (cachedPage[q] + 1) * XLOG_BLCKSZ <= InitializedUpTo
      BY <2>1 DEF OnItsPage
    <3>2. PICK x \in Nat : x = (cachedPage[q] + 1) * XLOG_BLCKSZ
      BY <3>1, Sizes
    <3> QED BY <1>1, <3>1, <3>2
  <2>3. at[q] = "mapped" => rec[q].curr < InitializedUpTo'
    <3> SUFFICES ASSUME at[q] = "mapped" PROVE rec[q].curr < InitializedUpTo'
      OBVIOUS
    <3>1. Proc(q) /\ None # "flush"
      BY XLogConstants DEF RedoInv
    <3>2. HasSpace(q)
      BY <3>1 DEF Proc, HasSpace, Inserts, Free, Flushing
    <3>3. rec[q].curr \in Nat /\ rec[q].curr < InitializedUpTo
      BY <2>1, <3>2, SpaceTyped DEF OnItsPage
    <3> QED BY <1>1, <3>3
  <2>4. PageOf(rec[q].curr)' = PageOf(rec[q].curr)
    BY <2>1 DEF PageOf
  <2> QED BY <2>1, <2>2, <2>3, <2>4 DEF OnItsPage
<1> QED BY <1>2, <1>3, <1>4 DEF DiskInv

\* No buffer changes, nothing is reserved, and nobody leaves a copy undone.
LEMMA KeepsPages ==
  ASSUME PagesOK, NEW p \in Everyone, Others(p), UNCHANGED <<InitializedUpTo, xlblocks, buffer, CurrBytePos>>,
         logWriteResult \in Nat, logWriteResult' \in Nat, logWriteResult <= logWriteResult', DOMAIN cachedPage' = Procs,
         p \in Procs /\ HasSpace(p) => HasSpace(p)' /\ rec'[p].curr = rec[p].curr /\ rec'[p].end = rec[p].end
  PROVE  PagesOK'
<1>1. End' = End
  BY DEF End
<1>2. ASSUME NEW ptr PROVE (Mapped(ptr)' <=> Mapped(ptr)) /\ (Good(ptr)' <=> Good(ptr)) /\ (InHeader(ptr)' <=> InHeader(ptr))
                            /\ BufIdx(ptr)' = BufIdx(ptr) /\ PageEnd(ptr)' = PageEnd(ptr)
  BY DEF Good, Mapped, InHeader, BufIdx, PageOf, PageEnd, PageBegin, HeaderSize
<1>3. Ring'
  <2> SUFFICES ASSUME NEW ptr \in Nat, ptr < InitializedUpTo PROVE PageEnd(ptr) <= logWriteResult' \/ Mapped(ptr)
    BY <1>2 DEF Ring
  <2>1. PageEnd(ptr) <= logWriteResult \/ Mapped(ptr)
    BY DEF PagesOK, Ring
  <2>2. PICK x \in Nat : x = PageEnd(ptr)
    BY PageParts
  <2> QED BY <2>1, <2>2
<1>4. Headers'
  BY <1>2 DEF PagesOK, Headers
<1>5. ASSUME NEW q \in Procs, HasSpace(q) PROVE HasSpace(q)' /\ rec'[q].curr = rec[q].curr /\ rec'[q].end = rec[q].end
  <2>1. CASE q # p
    <3>1. at'[q] = at[q] /\ caller'[q] = caller[q] /\ rec'[q] = rec[q]
      BY <2>1 DEF Others, Everyone
    <3> QED BY <1>5, <3>1 DEF HasSpace, Inserts, Free
  <2> QED BY <1>5, <2>1
<1>6. ASSUME NEW ptr, Pending(ptr) PROVE Pending(ptr)'
  <2>1. PICK q \in Procs : HasSpace(q) /\ Copied(q) <= ptr /\ ptr < rec[q].end
    BY <1>6 DEF Pending
  <2>2. HasSpace(q)' /\ rec'[q].curr = rec[q].curr /\ rec'[q].end = rec[q].end
    BY <1>5, <2>1
  <2>3. Copied(q)' = Copied(q)
    BY <2>2 DEF Copied, InitializedPart, HeaderSize, PageBegin
  <2> QED BY <2>1, <2>2, <2>3 DEF Pending
<1>7. Cover'
  <2>1. PageBegin(logWriteResult)' = PageBegin(logWriteResult')
    BY DEF PageBegin
  <2>2. PICK b \in Nat, c \in Nat : b = PageBegin(logWriteResult) /\ c = PageBegin(logWriteResult') /\ b <= c
    <3>1. /\ PageBegin(logWriteResult) \in Nat /\ PageBegin(logWriteResult') \in Nat /\ PageBegin(logWriteResult) % XLOG_BLCKSZ = 0
          /\ PageBegin(logWriteResult) <= logWriteResult
      BY PageParts
    <3>2. PageBegin(logWriteResult) <= logWriteResult'
      BY <3>1
    <3> QED BY <3>1, <3>2, PagesApart
  <2> SUFFICES ASSUME NEW ptr \in Nat, c <= ptr, ptr < End PROVE Good(ptr)' \/ Pending(ptr)'
    BY <1>1, <2>1, <2>2 DEF Cover
  <2>3. b <= ptr
    BY <2>2
  <2>4. Good(ptr) \/ Pending(ptr)
    BY <2>2, <2>3 DEF PagesOK, Cover
  <2> QED BY <1>2, <1>6, <2>4
<1> QED BY <1>3, <1>4, <1>7 DEF PagesOK

\* Buffers, files and results stay as they are.
LEMMA AsideDisk ==
  ASSUME RedoInv, WaitInv, WaitInv', InsertInv, InsertInv', DiskInv, NEW p \in Everyone, Others(p),
         UNCHANGED <<InitializedUpTo, xlblocks, buffer, CurrBytePos, logWriteResult, logFlushResult, file, synced>>,
         DOMAIN cachedPage' = Procs, at[p] # "publishFlush",
         p \in Procs /\ HasSpace(p) => HasSpace(p)' /\ rec'[p].curr = rec[p].curr /\ rec'[p].end = rec[p].end,
         p \in Procs => OnItsPage(p)', Writer(p)', at'[p] \notin {"panic", "unsatisfied"}
  PROVE  DiskInv'
<1>1. logWriteResult \in Nat /\ logFlushResult \in Nat /\ InitializedUpTo \in Nat
  BY DEF InsertInv, Bounds, WaitInv, PositionsOK
<1>2. /\ logWriteResult <= logWriteResult' /\ logFlushResult <= logFlushResult' /\ InitializedUpTo <= InitializedUpTo'
      /\ logWriteResult' \in Nat
  BY <1>1
<1>3. PagesOK'
  BY <1>1, <1>2, KeepsPages DEF DiskInv
<1>4. DiskOK'
  <2>1. Safe(logWriteResult, logFlushResult)'
    BY DEF DiskInv, DiskOK, Safe
  <2>2. (\A q \in Everyone : at'[q] # "publishFlush") => \A q \in Everyone : at[q] # "publishFlush"
    BY DEF Others
  <2>3. SegBegin(logWriteResult)' = SegBegin(logWriteResult)
    BY DEF SegBegin
  <2> QED BY <2>1, <2>2, <2>3 DEF DiskInv, DiskOK
<1> QED BY <1>2, <1>3, <1>4, DiskStep

\* A process that does not write has seen no more than is true.
LEMMA QuietWriter ==
  ASSUME InsertInv, NEW p \in Everyone, Writer(p), UNCHANGED <<logWriteResult, logFlushResult>>,
         at'[p] \notin Writes \union {"flushLocked"},
         LogwrtResult'[p] = Refreshed \/ (at[p] \notin Writes /\ LogwrtResult'[p] = LogwrtResult[p])
  PROVE  Writer(p)'
<1>1. logWriteResult \in Nat /\ logFlushResult \in Nat
  BY DEF InsertInv, Bounds
<1>2. LogwrtResult'[p].write <= logWriteResult /\ LogwrtResult'[p].flush <= logFlushResult
  BY <1>1 DEF Writer, Refreshed
<1> QED BY <1>2 DEF Writer, Writes

\* A step of one who neither copies nor writes.
LEMMA QuietDisk ==
  ASSUME RedoInv, WaitInv, WaitInv', InsertInv, InsertInv', DiskInv, NEW p \in Everyone, Others(p),
         UNCHANGED <<InitializedUpTo, xlblocks, buffer, CurrBytePos, logWriteResult, logFlushResult, file, synced, cachedPage>>,
         at[p] # "publishFlush",
         p \in Procs /\ HasSpace(p) => HasSpace(p)' /\ rec'[p] = rec[p],
         LogwrtResult'[p] = Refreshed \/ (at[p] \notin Writes /\ LogwrtResult'[p] = LogwrtResult[p]),
         at'[p] \notin Writes \union {"flushLocked", "copy", "mapped", "panic", "unsatisfied"}
  PROVE  DiskInv'
<1>1. Writer(p)'
  BY QuietWriter DEF DiskInv
<1>2. p \in Procs => OnItsPage(p)'
  <2>1. p \in Procs => OnItsPage(p)
    BY DEF DiskInv
  <2> QED BY <2>1 DEF OnItsPage
<1>3. DOMAIN cachedPage' = Procs
  BY DEF DiskInv, PagesOK
<1> QED BY <1>1, <1>2, <1>3, AsideDisk

\* Steps that leave pages and files alone.
LEMMA DiskSteps ==
  ASSUME RedoInv, RedoInv', WaitInv, WaitInv', InsertInv, InsertInv', DiskInv, NEW p \in Everyone,
         \/ p \in Procs /\ (WALInsertLockBusy(p) \/ WALInsertLockAcquire(p)
                            \/ WALInsertLockAcquireExclusive(p) \/ WALInsertLockRelease(p) \/ Inserted(p))
         \/ WaitStart(p) \/ WaitForVar(p) \/ WaitEnd(p) \/ MapLock(p)
         \/ p = WalWriter /\ XLogBackgroundFlush
  PROVE  DiskInv'
<1>1. p \in Everyone /\ Distinct
  BY XLogConstants DEF Everyone
<1>2. /\ Typed /\ Bounds /\ PagesOK /\ DiskOK /\ Writer(p) /\ Waiter(p) /\ PositionsOK
      /\ p \in Procs => Proc(p) /\ OnItsPage(p) /\ Insertion(p)
  BY <1>1 DEF RedoInv, WaitInv, InsertInv, DiskInv
<1>3. UNCHANGED <<InitializedUpTo, xlblocks, buffer, CurrBytePos, logWriteResult, logFlushResult, file, synced, cachedPage>>
  <2>1. CASE p \in Procs /\ WALInsertLockBusy(p) BY <2>1 DEF WALInsertLockBusy, Idle
  <2>2. CASE p \in Procs /\ WALInsertLockAcquire(p) BY <2>2 DEF WALInsertLockAcquire, Idle
  <2>3. CASE p \in Procs /\ WALInsertLockAcquireExclusive(p) BY <2>3 DEF WALInsertLockAcquireExclusive, Idle
  <2>4. CASE p \in Procs /\ WALInsertLockRelease(p) BY <2>4 DEF WALInsertLockRelease
  <2>5. CASE p \in Procs /\ Inserted(p) BY <2>5 DEF Inserted, Refreshed
  <2>6. CASE WaitStart(p) BY <2>6 DEF WaitStart, AfterWait
  <2>7. CASE WaitForVar(p) BY <2>7 DEF WaitForVar
  <2>8. CASE WaitEnd(p) BY <2>8 DEF WaitEnd, AfterWait
  <2>9. CASE MapLock(p) BY <2>9 DEF MapLock
  <2>10. CASE p = WalWriter /\ XLogBackgroundFlush BY <2>10 DEF XLogBackgroundFlush, CallWait
  <2> QED BY <2>1, <2>2, <2>3, <2>4, <2>5, <2>6, <2>7, <2>8, <2>9, <2>10
<1>4. Others(p)
  <2> USE <1>1, <1>2 DEF Others, Typed, Bounds
  <2>1. CASE p \in Procs /\ WALInsertLockBusy(p) BY <2>1 DEF WALInsertLockBusy, Idle
  <2>2. CASE p \in Procs /\ WALInsertLockAcquire(p) BY <2>2 DEF WALInsertLockAcquire, Idle
  <2>3. CASE p \in Procs /\ WALInsertLockAcquireExclusive(p) BY <2>3 DEF WALInsertLockAcquireExclusive, Idle
  <2>4. CASE p \in Procs /\ WALInsertLockRelease(p) BY <2>4 DEF WALInsertLockRelease
  <2>5. CASE p \in Procs /\ Inserted(p) BY <2>5 DEF Inserted, Refreshed
  <2>6. CASE WaitStart(p) BY <2>6 DEF WaitStart, AfterWait
  <2>7. CASE WaitForVar(p) BY <2>7 DEF WaitForVar
  <2>8. CASE WaitEnd(p) BY <2>8 DEF WaitEnd, AfterWait
  <2>9. CASE MapLock(p) BY <2>9 DEF MapLock
  <2>10. CASE p = WalWriter /\ XLogBackgroundFlush BY <2>10 DEF XLogBackgroundFlush, CallWait
  <2> QED BY <2>1, <2>2, <2>3, <2>4, <2>5, <2>6, <2>7, <2>8, <2>9, <2>10
<1>5. at[p] \in {"idle", "lockWait", "lockAll", "release", "inserted", "wait", "waitVar", "map"}
      /\ at'[p] \in {"lockWait", "idle", "reserve", "lockAll", "release", "inserted", "flush", "acquireOrWait", "writeLock", "waitVar", "advance", "wait"}
  <2> USE <1>1, <1>2 DEF Typed
  <2>1. CASE p \in Procs /\ WALInsertLockBusy(p) BY <2>1 DEF WALInsertLockBusy, Idle
  <2>2. CASE p \in Procs /\ WALInsertLockAcquire(p) BY <2>2 DEF WALInsertLockAcquire, Idle
  <2>3. CASE p \in Procs /\ WALInsertLockAcquireExclusive(p) BY <2>3 DEF WALInsertLockAcquireExclusive, Idle
  <2>4. CASE p \in Procs /\ WALInsertLockRelease(p) BY <2>4 DEF WALInsertLockRelease
  <2>5. CASE p \in Procs /\ Inserted(p) BY <2>5 DEF Inserted, Refreshed
  <2>6. CASE WaitStart(p) BY <2>6 DEF WaitStart, AfterWait
  <2>7. CASE WaitForVar(p) BY <2>7 DEF WaitForVar
  <2>8. CASE WaitEnd(p) BY <2>8 DEF WaitEnd, AfterWait
  <2>9. CASE MapLock(p) BY <2>9 DEF MapLock
  <2>10. CASE p = WalWriter /\ XLogBackgroundFlush BY <2>10 DEF XLogBackgroundFlush, CallWait
  <2> QED BY <2>1, <2>2, <2>3, <2>4, <2>5, <2>6, <2>7, <2>8, <2>9, <2>10
<1>6. p \in Procs /\ HasSpace(p) => HasSpace(p)' /\ rec'[p] = rec[p]
  <2> USE <1>1, <1>2 DEF Proc, HasSpace, Inserts, Free, Flushing, Typed
  <2>1. CASE p \in Procs /\ WALInsertLockBusy(p) BY <2>1 DEF WALInsertLockBusy, Idle
  <2>2. CASE p \in Procs /\ WALInsertLockAcquire(p) BY <2>2 DEF WALInsertLockAcquire, Idle
  <2>3. CASE p \in Procs /\ WALInsertLockAcquireExclusive(p) BY <2>3 DEF WALInsertLockAcquireExclusive, Idle
  <2>4. CASE p \in Procs /\ WALInsertLockRelease(p) BY <2>4 DEF WALInsertLockRelease
  <2>5. CASE p \in Procs /\ Inserted(p) BY <2>5 DEF Inserted, Refreshed
  <2>6. CASE WaitStart(p) BY <2>6 DEF WaitStart, AfterWait
  <2>7. CASE WaitForVar(p) BY <2>7 DEF WaitForVar
  <2>8. CASE WaitEnd(p) BY <2>8 DEF WaitEnd, AfterWait
  <2>9. CASE MapLock(p) BY <2>9 DEF MapLock
  <2>10. CASE p = WalWriter /\ XLogBackgroundFlush BY <2>10 DEF XLogBackgroundFlush, CallWait
  <2> QED BY <2>1, <2>2, <2>3, <2>4, <2>5, <2>6, <2>7, <2>8, <2>9, <2>10
<1>7. LogwrtResult'[p] = Refreshed \/ (at[p] \notin Writes /\ LogwrtResult'[p] = LogwrtResult[p])
  <2> USE <1>1, <1>2 DEF Writes, Bounds, Typed
  <2>1. CASE p \in Procs /\ WALInsertLockBusy(p) BY <2>1 DEF WALInsertLockBusy, Idle
  <2>2. CASE p \in Procs /\ WALInsertLockAcquire(p) BY <2>2 DEF WALInsertLockAcquire, Idle
  <2>3. CASE p \in Procs /\ WALInsertLockAcquireExclusive(p) BY <2>3 DEF WALInsertLockAcquireExclusive, Idle
  <2>4. CASE p \in Procs /\ WALInsertLockRelease(p) BY <2>4 DEF WALInsertLockRelease
  <2>5. CASE p \in Procs /\ Inserted(p) BY <2>5 DEF Inserted, Refreshed
  <2>6. CASE WaitStart(p) BY <2>6 DEF WaitStart, AfterWait
  <2>7. CASE WaitForVar(p) BY <2>7 DEF WaitForVar
  <2>8. CASE WaitEnd(p) BY <2>8 DEF WaitEnd, AfterWait
  <2>9. CASE MapLock(p) BY <2>9 DEF MapLock
  <2>10. CASE p = WalWriter /\ XLogBackgroundFlush BY <2>10 DEF XLogBackgroundFlush, CallWait
  <2> QED BY <2>1, <2>2, <2>3, <2>4, <2>5, <2>6, <2>7, <2>8, <2>9, <2>10
<1>8. at'[p] \notin Writes \union {"flushLocked", "copy", "mapped", "panic", "unsatisfied"}
  BY <1>5 DEF Writes
<1> QED BY <1>1, <1>3, <1>4, <1>5, <1>6, <1>7, <1>8, QuietDisk

\* XLogFlush returns, or waits for the insertions before its target.
LEMMA DiskXLogFlush ==
  ASSUME RedoInv, RedoInv', WaitInv, WaitInv', InsertInv, InsertInv', DiskInv, NEW p \in Procs, XLogFlush(p)
  PROVE  DiskInv'
<1>1. p \in Everyone /\ Distinct
  BY XLogConstants DEF Everyone
<1>2. Typed /\ Bounds /\ Writer(p) /\ Waiter(p) /\ Proc(p) /\ Insertion(p)
  BY <1>1 DEF RedoInv, InsertInv, DiskInv
<1>3. UNCHANGED <<InitializedUpTo, xlblocks, buffer, CurrBytePos, logWriteResult, logFlushResult, file, synced, cachedPage>>
  BY DEF XLogFlush, FlushReturns, CallWait
<1>4. Others(p)
  BY <1>1, <1>2 DEF Others, Typed, Bounds, XLogFlush, FlushReturns, CallWait
<1>5. at[p] = "flush" /\ at'[p] \in {"idle", "wait"}
  <2>1. at[p] = "flush" /\ rec[p].end \in Nat /\ LogwrtResult[p].flush \in Nat /\ logFlushResult \in Nat
    BY <1>2 DEF XLogFlush, Insertion, Before, Waiter, Bounds
  <2> QED BY <1>1, <1>2, <2>1 DEF Typed, XLogFlush, FlushReturns, CallWait
<1>6. p \in Procs /\ HasSpace(p) => HasSpace(p)' /\ rec'[p] = rec[p]
  BY <1>5 DEF HasSpace, Inserts, Free
<1>7. LogwrtResult'[p] = Refreshed \/ (at[p] \notin Writes /\ LogwrtResult'[p] = LogwrtResult[p])
  BY <1>1, <1>2, <1>5 DEF Writes, Bounds, XLogFlush
<1>8. at'[p] \notin Writes \union {"flushLocked", "copy", "mapped", "panic", "unsatisfied"}
  BY <1>5 DEF Writes
<1> QED BY <1>1, <1>3, <1>4, <1>5, <1>6, <1>7, <1>8, QuietDisk

\* LWLockAcquireOrWait on WALWriteLock.
LEMMA DiskAcquireOrWait ==
  ASSUME RedoInv, RedoInv', WaitInv, WaitInv', InsertInv, InsertInv', DiskInv, NEW p \in Procs, AcquireOrWait(p)
  PROVE  DiskInv'
<1>1. p \in Everyone /\ Distinct
  BY XLogConstants DEF Everyone
<1>2. Typed /\ Bounds /\ Writer(p) /\ Proc(p) /\ OnItsPage(p) /\ PagesOK
  BY <1>1 DEF RedoInv, InsertInv, DiskInv
<1>3. /\ UNCHANGED <<InitializedUpTo, xlblocks, buffer, CurrBytePos, logWriteResult, logFlushResult, file, synced, cachedPage>>
      /\ UNCHANGED <<LogwrtResult, rec, caller>>
  BY DEF AcquireOrWait
<1>4. Others(p)
  BY <1>1, <1>2, <1>3 DEF Others, Typed, AcquireOrWait
<1>5. at[p] \in {"acquireOrWait", "waitFree"} /\ at'[p] \in {"flushLocked", "waitFree", "flush"}
      /\ (at'[p] = "flushLocked" => WALWriteLock' = p)
  BY <1>1, <1>2 DEF Typed, AcquireOrWait
<1>6. ~HasSpace(p)
  BY <1>2, <1>5 DEF Proc, HasSpace, Inserts, Free
<1>7. Writer(p)'
  BY <1>2, <1>3, <1>5 DEF Writer, Writes
<1>8. OnItsPage(p)' /\ DOMAIN cachedPage' = Procs
  BY <1>2, <1>3, <1>5 DEF OnItsPage, PagesOK
<1>9. at[p] # "publishFlush" /\ at'[p] \notin {"panic", "unsatisfied"}
  BY <1>5
<1> QED BY <1>1, <1>3, <1>4, <1>6, <1>7, <1>8, <1>9, AsideDisk

\* XLogFlush under WALWriteLock: it begins to write where the others have got.
LEMMA DiskFlushLocked ==
  ASSUME RedoInv, RedoInv', WaitInv, WaitInv', InsertInv, InsertInv', DiskInv, NEW p \in Procs, FlushLocked(p)
  PROVE  DiskInv'
<1>1. p \in Everyone /\ Distinct
  BY XLogConstants DEF Everyone
<1>2. Typed /\ Bounds /\ Writer(p) /\ Proc(p) /\ OnItsPage(p) /\ PagesOK /\ DiskOK /\ Insertion(p)
  BY <1>1 DEF RedoInv, InsertInv, DiskInv
<1>3. UNCHANGED <<InitializedUpTo, xlblocks, buffer, CurrBytePos, logWriteResult, logFlushResult, file, synced, cachedPage>>
  BY DEF FlushLocked, FlushReturns
<1>4. at[p] = "flushLocked" /\ WALWriteLock = p /\ caller[p] = "flush"
  BY <1>2 DEF FlushLocked, Writer, Proc
<1>5. Others(p)
  BY <1>1, <1>2, <1>4 DEF Others, Typed, Bounds, FlushLocked, FlushReturns
<1>6. at'[p] = "idle" \/ (at'[p] = "write" /\ WALWriteLock' = p)
  <2>1. rec[p].end \in Nat /\ logFlushResult \in Nat
    BY <1>2, <1>4 DEF Insertion, Before, Bounds
  <2> QED BY <1>1, <1>2, <1>4, <2>1 DEF Typed, FlushLocked, FlushReturns
<1>7. ~HasSpace(p)
  BY <1>4 DEF HasSpace, Inserts, Free
<1>8. LogwrtResult'[p] = Refreshed /\ LogwrtResult'[p].write = logWriteResult /\ LogwrtResult'[p].flush = logFlushResult
  BY <1>1, <1>2 DEF FlushLocked, Bounds, Refreshed
<1>9. Writer(p)'
  <2>1. CASE at'[p] = "idle"
    BY <1>1, <1>2, <1>3, <1>8, <2>1, QuietWriter DEF Writes
  <2>2. CASE at'[p] = "write" /\ WALWriteLock' = p
    <3>1. SegBegin(logWriteResult) <= logFlushResult
      <4>1. ASSUME NEW q \in Everyone, at[q] = "publishFlush" PROVE FALSE
        <5>1. WALWriteLock = q
          BY <4>1 DEF DiskInv, Writer, Writes
        <5> QED BY <1>4, <4>1, <5>1
      <4> QED BY <1>2, <4>1 DEF DiskOK
    <3>2. SegBegin(LogwrtResult[p].write)' <= LogwrtResult'[p].flush
      BY <1>8, <3>1 DEF SegBegin
    <3>3. Safe(LogwrtResult[p].write, LogwrtResult[p].flush)'
      BY <1>2, <1>3, <1>8 DEF DiskOK, Safe
    <3>4. logWriteResult \in Nat /\ logFlushResult \in Nat
      BY <1>2 DEF Bounds
    <3> QED BY <1>3, <1>8, <2>2, <3>2, <3>3, <3>4 DEF Writer, Writes
  <2> QED BY <1>6, <2>1, <2>2
<1>10. OnItsPage(p)' /\ DOMAIN cachedPage' = Procs
  BY <1>2, <1>3, <1>6 DEF OnItsPage, PagesOK
<1>11. at[p] # "publishFlush" /\ at'[p] \notin {"panic", "unsatisfied"}
  BY <1>4, <1>6
<1> QED BY <1>1, <1>3, <1>5, <1>7, <1>9, <1>10, <1>11, AsideDisk

\* WALWriteLock, for AdvanceXLInsertBuffer and XLogBackgroundFlush.
LEMMA DiskTakeWriteLock ==
  ASSUME RedoInv, RedoInv', WaitInv, WaitInv', InsertInv, InsertInv', DiskInv, NEW p \in Everyone, TakeWriteLock(p)
  PROVE  DiskInv'
<1>1. p \in Everyone /\ Distinct
  BY XLogConstants DEF Everyone
<1>2. /\ Typed /\ Bounds /\ Writer(p) /\ PagesOK /\ DiskOK
      /\ p \in Procs => Proc(p) /\ OnItsPage(p)
  BY <1>1 DEF RedoInv, InsertInv, DiskInv
<1>3. /\ UNCHANGED <<InitializedUpTo, xlblocks, buffer, CurrBytePos, logWriteResult, logFlushResult, file, synced, cachedPage>>
      /\ UNCHANGED <<rec, caller>>
  BY DEF TakeWriteLock
<1>4. at[p] = "writeLock" /\ WALWriteLock = None
  BY DEF TakeWriteLock
<1>5. Others(p)
  BY <1>1, <1>2, <1>3, <1>4 DEF Others, Typed, Bounds, TakeWriteLock
<1>6. at'[p] = "map" \/ (at'[p] = "write" /\ WALWriteLock' = p)
  BY <1>1, <1>2, <1>4 DEF Typed, TakeWriteLock
<1>7. p \in Procs /\ HasSpace(p) => HasSpace(p)'
  BY <1>3, <1>4, <1>6 DEF HasSpace, Inserts, Free
<1>8. LogwrtResult'[p] = Refreshed /\ LogwrtResult'[p].write = logWriteResult /\ LogwrtResult'[p].flush = logFlushResult
  BY <1>1, <1>2 DEF TakeWriteLock, Bounds, Refreshed
<1>9. Writer(p)'
  <2>1. CASE at'[p] = "map"
    BY <1>1, <1>2, <1>3, <1>8, <2>1, QuietWriter DEF Writes
  <2>2. CASE at'[p] = "write" /\ WALWriteLock' = p
    <3>1. SegBegin(logWriteResult) <= logFlushResult
      <4>1. ASSUME NEW q \in Everyone, at[q] = "publishFlush" PROVE FALSE
        <5>1. WALWriteLock = q
          BY <4>1 DEF DiskInv, Writer, Writes
        <5> QED BY <1>1, <1>4, <4>1, <5>1
      <4> QED BY <1>2, <4>1 DEF DiskOK
    <3>2. SegBegin(LogwrtResult[p].write)' <= LogwrtResult'[p].flush
      BY <1>8, <3>1 DEF SegBegin
    <3>3. Safe(LogwrtResult[p].write, LogwrtResult[p].flush)'
      BY <1>2, <1>3, <1>8 DEF DiskOK, Safe
    <3>4. logWriteResult \in Nat /\ logFlushResult \in Nat
      BY <1>2 DEF Bounds
    <3> QED BY <1>3, <1>8, <2>2, <3>2, <3>3, <3>4 DEF Writer, Writes
  <2> QED BY <1>6, <2>1, <2>2
<1>10. (p \in Procs => OnItsPage(p)') /\ DOMAIN cachedPage' = Procs
  BY <1>2, <1>3, <1>6 DEF OnItsPage, PagesOK
<1>11. at[p] # "publishFlush" /\ at'[p] \notin {"panic", "unsatisfied"}
  BY <1>4, <1>6
<1> QED BY <1>1, <1>3, <1>5, <1>7, <1>9, <1>10, <1>11, AsideDisk

\* The page an inserter has yet to fill is not written, so its buffer is still there.
LEMMA PageThere ==
  ASSUME RedoInv, WaitInv, InsertInv, DiskInv, NEW p \in Procs, HasSpace(p), rec[p].curr < InitializedUpTo
  PROVE  Mapped(rec[p].curr)
<1>1. PICK c \in Nat : c = rec[p].curr /\ c < InitializedUpTo
  BY SpaceTyped
<1>2. PageEnd(c) <= logWriteResult \/ Mapped(c)
  BY <1>1 DEF DiskInv, PagesOK, Ring
<1>3. PICK e \in Nat : e = PageEnd(c) /\ c < e
  BY PageParts
<1>4. /\ Copied(p) \in Nat /\ Copied(p) <= c /\ logInsertResult <= Copied(p)
      /\ logWriteResult \in Nat /\ logWriteResult <= logInsertResult /\ logInsertResult \in Nat
  BY <1>1, PartBounds DEF Copied, InsertInv, Insertion, Bounds, WaitInv, PositionsOK
<1> QED BY <1>1, <1>2, <1>3, <1>4

\* A page with a buffer is initialised.
LEMMA MappedPage ==
  ASSUME PositionsOK, NEW ptr \in Nat, Mapped(ptr)
  PROVE  PageOf(ptr) \in Nat /\ (PageOf(ptr) + 1) * XLOG_BLCKSZ <= InitializedUpTo
<1>1. BufIdx(ptr) \in 0..(XLogBuffers - 1)
  BY BufferNumber
<1>2. PageEnd(ptr) <= InitializedUpTo
  BY <1>1 DEF PositionsOK, Mapped
<1> QED BY <1>2, PageParts

\* GetXLogBuffer.
LEMMA DiskGetBuffer ==
  ASSUME RedoInv, RedoInv', WaitInv, WaitInv', InsertInv, InsertInv', DiskInv, NEW p \in Procs, GetXLogBuffer(p)
  PROVE  DiskInv'
<1>1. p \in Everyone /\ Distinct /\ None \notin Nat
  BY XLogConstants DEF Everyone
<1>2. Typed /\ Bounds /\ Writer(p) /\ Proc(p) /\ OnItsPage(p) /\ PagesOK /\ PositionsOK
  BY <1>1 DEF RedoInv, WaitInv, InsertInv, DiskInv
<1>3. /\ UNCHANGED <<InitializedUpTo, xlblocks, buffer, CurrBytePos, logWriteResult, logFlushResult, file, synced>>
      /\ UNCHANGED <<LogwrtResult, rec, WALWriteLock>>
  BY DEF GetXLogBuffer
<1>4. at[p] = "buffer" /\ at'[p] \in {"copy", "map"} /\ caller[p] # "flush" /\ caller'[p] # "flush"
  BY <1>1, <1>2 DEF GetXLogBuffer, Typed, Proc, Flushing
<1>5. Others(p) /\ DOMAIN cachedPage' = Procs
  BY <1>1, <1>2, <1>3 DEF Others, Typed, PagesOK, GetXLogBuffer
<1>6. HasSpace(p) /\ HasSpace(p)'
  BY <1>4 DEF HasSpace, Inserts, Free
<1>7. Writer(p)'
  BY <1>2, <1>3, <1>4 DEF Writer, Writes
<1>8. OnItsPage(p)'
  <2>1. PICK c \in Nat : c = rec[p].curr
    BY <1>6, SpaceTyped
  <2>2. PageOf(c) \in Nat
    BY PageParts
  <2>3. CASE at'[p] = "copy"
    <3>1. cachedPage'[p] = PageOf(c) /\ (cachedPage[p] = PageOf(c) \/ Mapped(c))
      BY <1>1, <1>2, <2>1, <2>3 DEF GetXLogBuffer, Typed, PagesOK
    <3>2. (PageOf(c) + 1) * XLOG_BLCKSZ <= InitializedUpTo
      BY <1>1, <1>2, <2>2, <3>1, MappedPage DEF OnItsPage
    <3>3. PageOf(rec[p].curr)' = PageOf(c)
      BY <1>3, <2>1 DEF PageOf
    <3> QED BY <1>3, <2>2, <2>3, <3>1, <3>2, <3>3 DEF OnItsPage
  <2>4. CASE at'[p] = "map"
    <3>1. cachedPage'[p] = cachedPage[p]
      BY <1>1, <1>2, <2>4 DEF GetXLogBuffer, Typed
    <3> QED BY <1>2, <1>3, <2>4, <3>1 DEF OnItsPage
  <2> QED BY <1>4, <2>3, <2>4
<1>9. at[p] # "publishFlush" /\ at'[p] \notin {"panic", "unsatisfied"}
  BY <1>4
<1> QED BY <1>1, <1>3, <1>5, <1>6, <1>7, <1>8, <1>9, AsideDisk

\* GetXLogBuffer finds its page when it looks again.
LEMMA DiskLookAgain ==
  ASSUME RedoInv, RedoInv', WaitInv, WaitInv', InsertInv, InsertInv', DiskInv, NEW p \in Procs, LookAgain(p)
  PROVE  DiskInv'
<1>1. p \in Everyone /\ Distinct
  BY XLogConstants DEF Everyone
<1>2. Typed /\ Bounds /\ Writer(p) /\ Proc(p) /\ OnItsPage(p) /\ PagesOK /\ PositionsOK
  BY <1>1 DEF RedoInv, WaitInv, InsertInv, DiskInv
<1>3. /\ UNCHANGED <<InitializedUpTo, xlblocks, buffer, CurrBytePos, logWriteResult, logFlushResult, file, synced>>
      /\ UNCHANGED <<LogwrtResult, rec, caller, WALWriteLock>>
  BY DEF LookAgain
<1>4. at[p] = "mapped" /\ caller[p] # "flush"
  BY <1>2 DEF LookAgain, Proc, Flushing
<1>5. HasSpace(p) /\ rec[p].curr < InitializedUpTo
  BY <1>2, <1>4 DEF HasSpace, Inserts, Free, OnItsPage
<1>6. PICK c \in Nat : c = rec[p].curr /\ Mapped(c)
  BY <1>5, SpaceTyped, PageThere
<1>7. at'[p] = "copy" /\ cachedPage' = [cachedPage EXCEPT ![p] = PageOf(c)]
  BY <1>1, <1>2, <1>6 DEF LookAgain, Typed
<1>8. Others(p) /\ DOMAIN cachedPage' = Procs /\ cachedPage'[p] = PageOf(c)
  BY <1>1, <1>2, <1>3, <1>7 DEF Others, Typed, PagesOK, LookAgain
<1>9. HasSpace(p)'
  BY <1>3, <1>4, <1>7 DEF HasSpace, Inserts, Free
<1>10. Writer(p)'
  BY <1>2, <1>3, <1>4, <1>7 DEF Writer, Writes
<1>11. OnItsPage(p)'
  <2>1. PageOf(c) \in Nat /\ (PageOf(c) + 1) * XLOG_BLCKSZ <= InitializedUpTo
    BY <1>2, <1>6, MappedPage
  <2>2. PageOf(rec[p].curr)' = PageOf(c)
    BY <1>3, <1>6 DEF PageOf
  <2> QED BY <1>3, <1>7, <1>8, <2>1, <2>2 DEF OnItsPage
<1>12. at[p] # "publishFlush" /\ at'[p] \notin {"panic", "unsatisfied"}
  BY <1>4, <1>7
<1> QED BY <1>1, <1>3, <1>8, <1>9, <1>10, <1>11, <1>12, AsideDisk

\* A position and its segment.
LEMMA SegmentParts ==
  ASSUME NEW ptr \in Nat
  PROVE  /\ SegBegin(ptr) \in Nat /\ SegBegin(ptr) <= ptr /\ ptr < SegBegin(ptr) + SegSize /\ SegBegin(ptr) % SegSize = 0
         /\ Segment(ptr) = SegBegin(ptr)..(SegBegin(ptr) + SegSize - 1)
         /\ SegBegin(ptr) = ptr => ptr % SegSize = 0
<1>1. PICK S \in Nat \ {0} : S = SegSize
  BY Sizes
<1>2. PICK k \in Nat, o \in Nat : k = ptr \div S /\ o = ptr % S /\ o < S /\ ptr = k * S + o
  BY Quotient
<1>3. PICK x \in Nat : x = k * S
  OBVIOUS
<1>4. SegBegin(ptr) = x
  BY <1>1, <1>2, <1>3 DEF SegBegin
<1>5. x % S = 0
  BY <1>3, MultipleOf
<1>6. Segment(ptr) = SegBegin(ptr)..(SegBegin(ptr) + SegSize - 1)
  BY DEF Segment, SegBegin
<1> QED BY <1>1, <1>2, <1>3, <1>4, <1>5, <1>6

\* A segment that begins before the end of a page begins before everything on the page.
LEMMA SegmentsOfPage ==
  ASSUME NEW ptr \in Nat, NEW m \in Nat, m % SegSize = 0, m < PageEnd(ptr)
  PROVE  m <= SegBegin(ptr)
<1>1. m % XLOG_BLCKSZ = 0
  BY SegmentOfPages
<1>2. PICK e \in Nat : e = PageEnd(ptr)
  BY PageParts
<1>3. m <= ptr
  <2>1. ptr < m => e <= m
    BY <1>1, <1>2, PagesApart
  <2> QED BY <1>2, <2>1
<1>4. PICK S \in Nat \ {0} : S = SegSize
  BY Sizes
<1>5. PICK k \in Nat, o \in Nat : k = ptr \div S /\ o = ptr % S /\ o < S /\ ptr = k * S + o
  BY Quotient
<1>6. PICK j \in Nat : j = m \div S /\ m = j * S
  <2>1. PICK j \in Nat, r \in Nat : j = m \div S /\ r = m % S /\ m = j * S + r
    BY Quotient
  <2>2. r = 0 /\ j * S + 0 = j * S
    BY <1>4, <2>1
  <2> QED BY <2>1, <2>2
<1>7. j <= k
  BY <1>3, <1>5, <1>6, QuotientMonotone
<1>8. j * S <= k * S
  BY <1>7, TimesMonotone
<1>9. PICK x \in Nat : x = k * S
  OBVIOUS
<1>10. SegBegin(ptr) = x
  BY <1>4, <1>5, <1>9 DEF SegBegin
<1> QED BY <1>6, <1>8, <1>9, <1>10

\* The same for what lies between a position and the end of its page.
LEMMA SegmentsBehind ==
  ASSUME NEW ptr \in Nat, NEW w \in Nat, w < PageEnd(ptr) \/ (w = PageEnd(ptr) /\ w % SegSize # 0)
  PROVE  SegBegin(w) <= SegBegin(ptr)
<1>1. PICK m \in Nat, e \in Nat : m = SegBegin(w) /\ e = PageEnd(ptr)
  BY SegmentParts, PageParts
<1>2. m % SegSize = 0
  BY <1>1, SegmentParts
<1>3. m <= w /\ (m = w => w % SegSize = 0)
  BY <1>1, SegmentParts
<1>4. m < e
  <2>1. CASE w < e
    BY <1>3, <2>1
  <2>2. CASE w = e /\ m # w
    BY <1>3, <2>2
  <2> QED BY <1>1, <1>3, <2>1, <2>2
<1> QED BY <1>1, <1>2, <1>4, SegmentsOfPage

\* One fsync completes a segment whose earlier ones are synced.
LEMMA FsyncCovers ==
  ASSUME NEW w \in Nat, NEW f \in Nat, w # 0, SegBegin(w - 1) <= f, NEW content,
         \A ptr \in Nat : ptr < w => ptr \in content,
         \A ptr \in Nat : ptr < f => ptr \in synced
  PROVE  \A ptr \in Nat : ptr < w => ptr \in Fsynced(content, w - 1)
<1>1. w - 1 \in Nat
  OBVIOUS
<1>2. PICK s \in Nat, S \in Nat \ {0} : s = SegBegin(w - 1) /\ S = SegSize /\ w - 1 < s + S /\ Segment(w - 1) = s..(s + S - 1)
  BY <1>1, SegmentParts, Sizes
<1>3. ASSUME NEW ptr \in Nat, ptr < w PROVE ptr \in Fsynced(content, w - 1)
  <2>1. CASE s <= ptr
    <3>1. ptr \in s..(s + S - 1) /\ ptr \in content
      BY <1>2, <1>3, <2>1
    <3> QED BY <1>2, <3>1 DEF Fsynced
  <2>2. CASE ptr < s
    <3>1. ptr \notin s..(s + S - 1) /\ ptr \in synced
      BY <1>2, <2>2
    <3> QED BY <1>2, <3>1 DEF Fsynced
  <2> QED BY <1>2, <2>1, <2>2
<1> QED BY <1>3

\* What counts as finished and is not on a page written before is in its buffer.
LEMMA FinishedGood ==
  ASSUME RedoInv, WaitInv, InsertInv, DiskInv, NEW ptr \in Nat, PageBegin(logWriteResult) <= ptr, ptr < logInsertResult
  PROVE  Good(ptr)
<1>1. logInsertResult \in Nat /\ End \in Nat /\ logInsertResult <= End
  BY EndTyped DEF WaitInv, PositionsOK, InsertInv, Bounds
<1>2. Good(ptr) \/ Pending(ptr)
  <2>1. ptr < End
    BY <1>1
  <2> QED BY <2>1 DEF DiskInv, PagesOK, Cover
<1>3. ~Pending(ptr)
  <2> SUFFICES ASSUME NEW q \in Procs, HasSpace(q), Copied(q) <= ptr PROVE FALSE
    BY DEF Pending
  <2>1. Copied(q) \in Nat /\ logInsertResult <= Copied(q)
    BY SpaceTyped DEF InsertInv, Insertion
  <2> QED BY <1>1, <2>1
<1> QED BY <1>2, <1>3

\* XLogWrite, one page.
LEMMA DiskWritePage ==
  ASSUME RedoInv, RedoInv', WaitInv, WaitInv', InsertInv, InsertInv', DiskInv, NEW p \in Everyone, WritePage(p)
  PROVE  DiskInv'
<1>1. p \in Everyone /\ Distinct
  BY XLogConstants DEF Everyone
<1>2. /\ Typed /\ Bounds /\ Writer(p) /\ Waiter(p) /\ PagesOK /\ DiskOK /\ PositionsOK
      /\ p \in Procs => OnItsPage(p)
  BY <1>1 DEF RedoInv, WaitInv, InsertInv, DiskInv
<1>3. /\ UNCHANGED <<InitializedUpTo, xlblocks, buffer, CurrBytePos, logWriteResult, logFlushResult, cachedPage>>
      /\ UNCHANGED <<rec, caller, rqst, WALWriteLock>>
  BY DEF WritePage
<1>4. at[p] = "write" /\ WALWriteLock = p /\ LogwrtResult[p].write < rqst[p].write
  BY <1>2 DEF WritePage, Writer, Writes
<1>5. PICK w \in Nat, f \in Nat, r \in Nat :
        /\ w = LogwrtResult[p].write /\ f = LogwrtResult[p].flush /\ r = rqst[p].write
        /\ w < r /\ r <= logInsertResult
  BY <1>2, <1>4 DEF Waiter, Requesting
<1>6. /\ logWriteResult <= w /\ logFlushResult <= f /\ Safe(w, f) /\ SegBegin(w) <= f
      /\ logWriteResult \in Nat /\ logFlushResult \in Nat /\ logInsertResult \in Nat
  BY <1>2, <1>4, <1>5 DEF Writer, Writes, Bounds, PositionsOK
<1>7. PICK begin \in Nat, end \in Nat, B \in Nat \ {0} :
        begin = PageBegin(w) /\ end = PageEnd(w) /\ begin <= w /\ w < end /\ B = XLOG_BLCKSZ /\ end = begin + B
  <2>1. /\ PageBegin(w) \in Nat /\ PageEnd(w) \in Nat /\ PageEnd(w) = PageBegin(w) + XLOG_BLCKSZ
        /\ PageBegin(w) <= w /\ w < PageEnd(w) /\ XLOG_BLCKSZ \in Nat \ {0}
    BY PageParts, Sizes
  <2> QED BY <2>1
<1>8. ASSUME NEW ptr \in Nat, begin <= ptr, ptr < r PROVE Good(ptr)
  <2>1. PageBegin(logWriteResult) <= ptr
    <3>1. /\ PageBegin(logWriteResult) \in Nat /\ PageBegin(logWriteResult) <= logWriteResult
          /\ PageBegin(logWriteResult) % XLOG_BLCKSZ = 0
      BY <1>6, PageParts
    <3>2. PageBegin(logWriteResult) <= w
      BY <1>6, <3>1
    <3>3. PageBegin(logWriteResult) <= begin
      BY <1>7, <3>1, <3>2, PagesApart
    <3> QED BY <1>8, <3>1, <3>3
  <2>2. ptr < logInsertResult
    BY <1>5, <1>6, <1>8
  <2> QED BY <2>1, <2>2, FinishedGood
<1>9. xlblocks[BufIdx(w)] = end /\ ~(end <= w)
  <2>1. Good(w)
    BY <1>5, <1>7, <1>8
  <2>2. xlblocks[BufIdx(w)] = end
    BY <1>7, <2>1 DEF Good, Mapped
  <2>3. ~(end <= w)
    BY <1>7
  <2> QED BY <2>2, <2>3
<1>10. PICK segEnd \in BOOLEAN, v \in Nat : segEnd = (~(r < end) /\ end % SegSize = 0) /\ v = Smaller(end, r)
  BY <1>5, <1>7 DEF Smaller
<1>11. /\ file' = PageWritten(BufIdx(w), end)
       /\ synced' = IF segEnd THEN Fsynced(file', end - 1) ELSE synced
       /\ LogwrtResult' = [LogwrtResult EXCEPT ![p] = [write |-> v, flush |-> IF segEnd THEN end ELSE f]]
       /\ at'[p] \in {"write", "sync"}
  BY <1>1, <1>2, <1>5, <1>9, <1>10 DEF WritePage, Typed, Bounds
<1>12. at'[p] = "sync" => caller[p] # "flush"
  <2> SUFFICES ASSUME at'[p] = "sync", caller[p] = "flush" PROVE FALSE
    OBVIOUS
  <2>1. rqst[p].flexible = FALSE
    BY <1>2, <1>4 DEF Waiter, Requesting
  <2> QED BY <1>1, <1>2, <1>5, <1>9, <2>1 DEF WritePage, Typed
<1>13. v <= r /\ v <= end /\ w <= v /\ (v = end \/ v < end) /\ (segEnd => v = end) /\ (v = end => ~(r < end))
  <2>1. segEnd => ~(r < end)
    BY <1>10
  <2>2. v = IF end < r THEN end ELSE r
    BY <1>10 DEF Smaller
  <2>3. v <= r /\ v <= end /\ w <= v /\ (v = end \/ v < end) /\ (~(r < end) => v = end) /\ (v = end => ~(r < end))
    BY <1>5, <1>7, <2>2
  <2> QED BY <2>1, <2>3
<1>14. ASSUME NEW ptr \in Nat, ptr < v PROVE ptr \in file'
  <2>1. CASE begin <= ptr
    <3>1. Good(ptr) /\ ptr < end
      BY <1>5, <1>7, <1>8, <1>13, <1>14, <2>1
    <3>2. BufIdx(ptr) = BufIdx(w)
      BY <1>7, <2>1, <3>1, SamePage
    <3>3. ptr \in buffer[BufIdx(w)] /\ ptr \in (end - B)..(end - 1)
      BY <1>7, <2>1, <3>1, <3>2 DEF Good
    <3> QED BY <1>7, <1>11, <3>3 DEF PageWritten
  <2>2. CASE ptr < begin
    <3>1. ptr \in file /\ ptr \notin (end - B)..(end - 1)
      <4>1. ptr < w
        BY <1>7, <2>2
      <4>2. ptr \in file
        BY <1>6, <4>1 DEF Safe
      <4> QED BY <1>7, <2>2, <4>2
    <3> QED BY <1>7, <1>11, <3>1 DEF PageWritten
  <2> QED BY <1>7, <2>1, <2>2
<1>15. PICK g \in Nat : g = (IF segEnd THEN end ELSE f) /\ f <= g /\ g <= v
  <2>1. f <= w
    BY <1>6 DEF Safe
  <2> QED BY <1>7, <1>13, <2>1
<1>16. ASSUME NEW ptr \in Nat, ptr < g PROVE ptr \in synced'
  <2>1. CASE segEnd
    <3>1. v = end /\ g = end /\ end # 0 /\ end - 1 \in Nat /\ end - 1 < PageEnd(w)
      BY <1>7, <1>13, <1>15, <2>1
    <3>2. PICK s \in Nat, t \in Nat : s = SegBegin(end - 1) /\ t = SegBegin(w) /\ s <= t
      BY <3>1, SegmentsBehind, SegmentParts
    <3>3. SegBegin(end - 1) <= f
      BY <1>6, <3>2
    <3>4. \A x \in Nat : x < f => x \in synced
      BY <1>6 DEF Safe
    <3>5. \A x \in Nat : x < end => x \in file'
      BY <1>14, <3>1
    <3>6. \A x \in Nat : x < end => x \in Fsynced(file', end - 1)
      BY <3>1, <3>3, <3>4, <3>5, FsyncCovers
    <3> QED BY <1>11, <1>16, <2>1, <3>1, <3>6
  <2>2. CASE ~segEnd
    BY <1>6, <1>11, <1>15, <1>16, <2>2 DEF Safe
  <2> QED BY <2>1, <2>2
<1>17. SegBegin(v) <= g
  <2>1. CASE segEnd
    <3>1. SegBegin(v) <= v /\ v = g
      BY <1>13, <1>15, <2>1, SegmentParts
    <3> QED BY <3>1
  <2>2. CASE ~segEnd
    <3>1. v = end => end % SegSize # 0
      BY <1>10, <1>13, <2>2
    <3>2. v < PageEnd(w) \/ (v = PageEnd(w) /\ v % SegSize # 0)
      BY <1>7, <1>13, <3>1
    <3>3. PICK s \in Nat, t \in Nat : s = SegBegin(v) /\ t = SegBegin(w) /\ s <= t
      BY <3>2, SegmentsBehind, SegmentParts
    <3> QED BY <1>6, <1>15, <2>2, <3>3
  <2> QED BY <2>1, <2>2
<1>18. LogwrtResult'[p].write = v /\ LogwrtResult'[p].flush = g
  BY <1>1, <1>2, <1>11, <1>15 DEF Bounds
<1>19. Others(p)
  BY <1>1, <1>2, <1>3, <1>11 DEF Others, Typed, Bounds, WritePage
<1>20. logWriteResult <= v /\ logFlushResult <= g
  BY <1>6, <1>13, <1>15
<1>21. Writer(p)'
  <2>1. Safe(LogwrtResult[p].write, LogwrtResult[p].flush)'
    BY <1>14, <1>15, <1>16, <1>18 DEF Safe
  <2>2. SegBegin(LogwrtResult[p].write)' <= LogwrtResult'[p].flush
    BY <1>17, <1>18 DEF SegBegin
  <2> QED BY <1>3, <1>4, <1>11, <1>12, <1>18, <1>20, <2>1, <2>2 DEF Writer, Writes
<1>22. DiskOK'
  <2>1. logFlushResult <= logWriteResult
    BY <1>2 DEF DiskOK, Safe
  <2>2. Safe(logWriteResult, logFlushResult)'
    <3>1. \A ptr \in Nat : ptr < logWriteResult => ptr < v
      BY <1>6, <1>20
    <3>2. \A ptr \in Nat : ptr < logFlushResult => ptr < g
      BY <1>6, <1>20
    <3> QED BY <1>3, <1>14, <1>16, <2>1, <3>1, <3>2 DEF Safe
  <2>3. (\A q \in Everyone : at'[q] # "publishFlush") => \A q \in Everyone : at[q] # "publishFlush"
    BY <1>4, <1>19 DEF Others
  <2>4. SegBegin(logWriteResult)' = SegBegin(logWriteResult)
    BY <1>3 DEF SegBegin
  <2> QED BY <1>2, <1>3, <2>2, <2>3, <2>4 DEF DiskOK
<1>23. p \in Procs /\ HasSpace(p) => HasSpace(p)'
  BY <1>3, <1>4, <1>11 DEF HasSpace, Inserts, Free
<1>24. PagesOK'
  BY <1>1, <1>2, <1>3, <1>6, <1>19, <1>23, KeepsPages DEF PagesOK
<1>25. p \in Procs => OnItsPage(p)'
  BY <1>2, <1>3, <1>11 DEF OnItsPage
<1>26. /\ logWriteResult <= logWriteResult' /\ logFlushResult <= logFlushResult' /\ InitializedUpTo <= InitializedUpTo'
       /\ at'[p] \notin {"panic", "unsatisfied"}
  BY <1>2, <1>3, <1>6, <1>11 DEF PositionsOK
<1> QED BY <1>4, <1>19, <1>21, <1>22, <1>24, <1>25, <1>26, DiskStep

\* XLogWrite, the fsync at its end.
LEMMA DiskSyncFile ==
  ASSUME RedoInv, RedoInv', WaitInv, WaitInv', InsertInv, InsertInv', DiskInv, NEW p \in Everyone, SyncFile(p)
  PROVE  DiskInv'
<1>1. p \in Everyone /\ Distinct
  BY XLogConstants DEF Everyone
<1>2. /\ Typed /\ Bounds /\ Writer(p) /\ Waiter(p) /\ PagesOK /\ DiskOK /\ PositionsOK
      /\ p \in Procs => OnItsPage(p) /\ Insertion(p)
  BY <1>1 DEF RedoInv, WaitInv, InsertInv, DiskInv
<1>3. /\ UNCHANGED <<InitializedUpTo, xlblocks, buffer, CurrBytePos, logWriteResult, logFlushResult, cachedPage, file>>
      /\ UNCHANGED <<rec, caller, rqst, WALWriteLock>>
  BY DEF SyncFile
<1>4. at[p] \in {"write", "sync"} /\ at'[p] = "publishWrite" /\ WALWriteLock = p
      /\ (at[p] = "write" => LogwrtResult[p].write >= rqst[p].write)
  BY <1>1, <1>2 DEF SyncFile, Writer, Writes, Typed
<1>5. PICK w \in Nat, f \in Nat, r \in Nat :
        w = LogwrtResult[p].write /\ f = LogwrtResult[p].flush /\ r = rqst[p].flush
  BY <1>2, <1>4 DEF Waiter, Requesting
<1>6. /\ logWriteResult <= w /\ logFlushResult <= f /\ Safe(w, f) /\ SegBegin(w) <= f
      /\ logWriteResult \in Nat /\ logFlushResult \in Nat
  BY <1>2, <1>4, <1>5 DEF Writer, Writes, Bounds
<1>7. \/ /\ f < r /\ f < w /\ synced' = Fsynced(file, w - 1)
         /\ LogwrtResult' = [LogwrtResult EXCEPT ![p].flush = w]
      \/ ~(f < r /\ f < w) /\ UNCHANGED <<synced, LogwrtResult>>
  BY <1>5 DEF SyncFile
<1>8. PICK g \in Nat :
        /\ LogwrtResult'[p].write = w /\ LogwrtResult'[p].flush = g
        /\ \/ g = w /\ f < w /\ synced' = Fsynced(file, w - 1)
           \/ g = f /\ (r <= f \/ w <= f) /\ synced' = synced
  <2>1. CASE f < r /\ f < w
    <3>1. LogwrtResult' = [LogwrtResult EXCEPT ![p].flush = w] /\ DOMAIN LogwrtResult[p] = {"write", "flush"}
      BY <1>2, <1>7, <2>1 DEF Waiter
    <3>2. LogwrtResult'[p].write = w /\ LogwrtResult'[p].flush = w
      BY <1>1, <1>2, <1>5, <3>1 DEF Bounds
    <3> QED BY <1>7, <2>1, <3>2
  <2>2. CASE ~(f < r /\ f < w)
    BY <1>5, <1>7, <2>2
  <2> QED BY <2>1, <2>2
<1>9. f <= g /\ g <= w
  BY <1>6, <1>8 DEF Safe
<1>10. ASSUME NEW ptr \in Nat, ptr < g PROVE ptr \in synced'
  <2>1. CASE g = w /\ f < w /\ synced' = Fsynced(file, w - 1)
    <3>1. w # 0 /\ w - 1 \in Nat /\ w - 1 < PageEnd(w) /\ PageEnd(w) \in Nat
      <4>1. PICK e \in Nat : e = PageEnd(w) /\ w < e
        BY PageParts
      <4> QED BY <2>1, <4>1
    <3>2. PICK s \in Nat, t \in Nat : s = SegBegin(w - 1) /\ t = SegBegin(w) /\ s <= t
      BY <3>1, SegmentsBehind, SegmentParts
    <3>3. SegBegin(w - 1) <= f
      BY <1>6, <3>2
    <3>4. (\A x \in Nat : x < f => x \in synced) /\ (\A x \in Nat : x < w => x \in file)
      BY <1>6 DEF Safe
    <3>5. \A x \in Nat : x < w => x \in Fsynced(file, w - 1)
      BY <3>1, <3>3, <3>4, FsyncCovers
    <3> QED BY <1>10, <2>1, <3>5
  <2>2. CASE g = f /\ synced' = synced
    BY <1>6, <1>10, <2>2 DEF Safe
  <2> QED BY <1>8, <2>1, <2>2
<1>11. Others(p)
  <2>1. \A q \in Everyone \ {p} : LogwrtResult'[q] = LogwrtResult[q]
    BY <1>1, <1>2, <1>7 DEF Bounds
  <2> QED BY <1>1, <1>2, <1>3, <2>1 DEF Others, Typed, SyncFile
<1>12. Writer(p)'
  <2>1. Safe(LogwrtResult[p].write, LogwrtResult[p].flush)'
    BY <1>3, <1>6, <1>8, <1>9, <1>10 DEF Safe
  <2>2. SegBegin(LogwrtResult[p].write)' <= LogwrtResult'[p].flush
    <3>1. PICK s \in Nat : s = SegBegin(w)
      BY SegmentParts
    <3>2. SegBegin(w) <= g
      BY <1>6, <1>9, <3>1
    <3> QED BY <1>8, <3>2 DEF SegBegin
  <2>3. logWriteResult <= w /\ logFlushResult <= g
    BY <1>6, <1>9
  <2>4. ASSUME caller[p] = "flush" PROVE rec[p].end <= g
    <3>1. p \in Procs /\ at[p] = "write"
      BY <1>2, <1>4, <2>4 DEF Bounds, Everyone, Writer
    <3>2. /\ rec[p].end \in Nat /\ r = rqst[p].write /\ rec[p].end <= r /\ r <= w
      BY <1>2, <1>4, <1>5, <2>4, <3>1 DEF Insertion, Before, Waiter, Requesting
    <3> QED BY <1>8, <1>9, <3>2
  <2> QED BY <1>3, <1>4, <1>8, <2>1, <2>2, <2>3, <2>4 DEF Writer, Writes
<1>13. DiskOK'
  <2>1. logFlushResult <= logWriteResult /\ \A ptr \in Nat : ptr < logWriteResult => ptr \in file
    BY <1>2 DEF DiskOK, Safe
  <2>2. Safe(logWriteResult, logFlushResult)'
    <3>1. \A ptr \in Nat : ptr < logFlushResult => ptr < g
      BY <1>6, <1>9
    <3> QED BY <1>3, <1>10, <2>1, <3>1 DEF Safe
  <2>3. (\A q \in Everyone : at'[q] # "publishFlush") => \A q \in Everyone : at[q] # "publishFlush"
    BY <1>4, <1>11 DEF Others
  <2>4. SegBegin(logWriteResult)' = SegBegin(logWriteResult)
    BY <1>3 DEF SegBegin
  <2> QED BY <1>2, <1>3, <2>2, <2>3, <2>4 DEF DiskOK
<1>14. p \in Procs /\ HasSpace(p) => HasSpace(p)'
  BY <1>3, <1>4 DEF HasSpace, Inserts, Free
<1>15. PagesOK'
  BY <1>1, <1>2, <1>3, <1>6, <1>11, <1>14, KeepsPages DEF PagesOK
<1>16. p \in Procs => OnItsPage(p)'
  BY <1>2, <1>3, <1>4 DEF OnItsPage
<1>17. /\ logWriteResult <= logWriteResult' /\ logFlushResult <= logFlushResult' /\ InitializedUpTo <= InitializedUpTo'
       /\ at'[p] \notin {"panic", "unsatisfied"}
  BY <1>2, <1>3, <1>4, <1>6 DEF PositionsOK
<1> QED BY <1>4, <1>11, <1>12, <1>13, <1>15, <1>16, <1>17, DiskStep

\* XLogWrite, its results: first what is written.
LEMMA DiskPublishWrite ==
  ASSUME RedoInv, RedoInv', WaitInv, WaitInv', InsertInv, InsertInv', DiskInv, NEW p \in Everyone, PublishWrite(p)
  PROVE  DiskInv'
<1>1. p \in Everyone /\ Distinct
  BY XLogConstants DEF Everyone
<1>2. /\ Typed /\ Bounds /\ Writer(p) /\ Waiter(p) /\ PagesOK /\ DiskOK /\ PositionsOK
      /\ p \in Procs => OnItsPage(p)
  BY <1>1 DEF RedoInv, WaitInv, InsertInv, DiskInv
<1>3. /\ UNCHANGED <<InitializedUpTo, xlblocks, buffer, CurrBytePos, logFlushResult, cachedPage, file, synced>>
      /\ UNCHANGED <<rec, caller, WALWriteLock, LogwrtResult>>
  BY DEF PublishWrite
<1>4. at[p] = "publishWrite" /\ at'[p] = "publishFlush" /\ WALWriteLock = p
  BY <1>1, <1>2 DEF PublishWrite, Writer, Writes, Typed
<1>5. PICK w \in Nat, f \in Nat : w = LogwrtResult[p].write /\ f = LogwrtResult[p].flush /\ logWriteResult' = w
  BY <1>2, <1>4 DEF Waiter, PublishWrite
<1>6. /\ logWriteResult <= w /\ logFlushResult <= f /\ Safe(w, f) /\ SegBegin(w) <= f
      /\ logWriteResult \in Nat /\ logFlushResult \in Nat
  BY <1>2, <1>4, <1>5 DEF Writer, Writes, Bounds
<1>7. Others(p)
  BY <1>1, <1>2, <1>3 DEF Others, Typed, PublishWrite
<1>8. Writer(p)'
  <2>1. Safe(LogwrtResult[p].write, LogwrtResult[p].flush)'
    BY <1>3, <1>5, <1>6 DEF Safe
  <2>2. SegBegin(LogwrtResult[p].write)' <= LogwrtResult'[p].flush
    BY <1>3, <1>5, <1>6 DEF SegBegin
  <2>3. w <= w /\ logFlushResult <= f
    BY <1>6
  <2>4. caller[p] = "flush" => rec[p].end <= f
    BY <1>2, <1>4, <1>5 DEF Writer
  <2> QED BY <1>3, <1>4, <1>5, <2>1, <2>2, <2>3, <2>4 DEF Writer, Writes
<1>9. DiskOK'
  <2>1. logFlushResult <= w /\ \A ptr \in Nat : ptr < logFlushResult => ptr < f
    BY <1>6 DEF Safe
  <2>2. Safe(logWriteResult, logFlushResult)'
    BY <1>3, <1>5, <1>6, <2>1 DEF Safe
  <2> QED BY <1>1, <1>4, <2>2 DEF DiskOK
<1>10. p \in Procs /\ HasSpace(p) => HasSpace(p)'
  BY <1>3, <1>4 DEF HasSpace, Inserts, Free
<1>11. PagesOK'
  BY <1>1, <1>2, <1>3, <1>5, <1>6, <1>7, <1>10, KeepsPages DEF PagesOK
<1>12. p \in Procs => OnItsPage(p)'
  BY <1>2, <1>3, <1>4 DEF OnItsPage
<1>13. /\ logWriteResult <= logWriteResult' /\ logFlushResult <= logFlushResult' /\ InitializedUpTo <= InitializedUpTo'
       /\ at'[p] \notin {"panic", "unsatisfied"}
  BY <1>2, <1>3, <1>4, <1>5, <1>6 DEF PositionsOK
<1> QED BY <1>4, <1>7, <1>8, <1>9, <1>11, <1>12, <1>13, DiskStep

\* Then what is flushed; a flusher got as far as its record.
LEMMA DiskPublishFlush ==
  ASSUME RedoInv, RedoInv', WaitInv, WaitInv', InsertInv, InsertInv', DiskInv, NEW p \in Everyone, PublishFlush(p)
  PROVE  DiskInv'
<1>1. p \in Everyone /\ Distinct
  BY XLogConstants DEF Everyone
<1>2. /\ Typed /\ Bounds /\ Writer(p) /\ Waiter(p) /\ PagesOK /\ DiskOK /\ PositionsOK
      /\ p \in Procs => OnItsPage(p) /\ Insertion(p)
  BY <1>1 DEF RedoInv, WaitInv, InsertInv, DiskInv
<1>3. /\ UNCHANGED <<InitializedUpTo, xlblocks, buffer, CurrBytePos, logWriteResult, cachedPage, file, synced>>
      /\ UNCHANGED <<LogwrtResult>>
  BY DEF PublishFlush, FlushReturns
<1>4. at[p] = "publishFlush" /\ WALWriteLock = p
  BY <1>2 DEF PublishFlush, Writer, Writes
<1>5. PICK w \in Nat, f \in Nat :
        w = LogwrtResult[p].write /\ f = LogwrtResult[p].flush /\ logFlushResult' = f /\ logWriteResult = w
  BY <1>2, <1>4 DEF Waiter, PublishFlush, Writer
<1>6. logFlushResult <= f /\ Safe(w, f) /\ SegBegin(w) <= f /\ logFlushResult \in Nat
  BY <1>2, <1>4, <1>5 DEF Writer, Writes, Bounds
<1>7. /\ caller[p] = "flush" => at'[p] = "idle"
      /\ caller[p] # "flush" => at'[p] = "map" /\ UNCHANGED <<caller, rec>>
  <2>1. CASE caller[p] = "flush"
    <3>1. p \in Procs /\ rec[p].end <= f /\ rec[p].end \in Nat
      BY <1>2, <1>4, <1>5, <2>1 DEF Writer, Insertion, Before, Bounds, Everyone
    <3> QED BY <1>1, <1>2, <1>5, <2>1, <3>1 DEF PublishFlush, FlushReturns, Typed
  <2>2. CASE caller[p] # "flush"
    BY <1>1, <1>2, <2>2 DEF PublishFlush, Typed
  <2> QED BY <2>1, <2>2
<1>8. Others(p)
  BY <1>1, <1>2, <1>3, <1>4 DEF Others, Typed, PublishFlush, FlushReturns
<1>9. Writer(p)'
  <2>1. w <= w /\ f <= f
    OBVIOUS
  <2> QED BY <1>3, <1>5, <1>7, <2>1 DEF Writer, Writes
<1>10. DiskOK'
  <2>1. Safe(logWriteResult, logFlushResult)'
    BY <1>3, <1>5, <1>6 DEF Safe
  <2>2. SegBegin(logWriteResult)' <= logFlushResult'
    BY <1>3, <1>5, <1>6 DEF SegBegin
  <2> QED BY <2>1, <2>2 DEF DiskOK
<1>11. p \in Procs /\ HasSpace(p) => HasSpace(p)' /\ UNCHANGED rec
  BY <1>3, <1>7 DEF HasSpace, Inserts, Free
<1>12. PagesOK'
  <2>1. w <= w /\ logWriteResult' = w
    BY <1>3, <1>5
  <2> QED BY <1>1, <1>2, <1>3, <1>5, <1>8, <1>11, <2>1, KeepsPages DEF PagesOK
<1>13. p \in Procs => OnItsPage(p)'
  BY <1>2, <1>3, <1>7 DEF OnItsPage
<1>14. /\ logWriteResult <= logWriteResult' /\ logFlushResult <= logFlushResult' /\ InitializedUpTo <= InitializedUpTo'
       /\ at'[p] \notin {"panic", "unsatisfied"}
  BY <1>2, <1>3, <1>5, <1>6, <1>7 DEF PositionsOK
<1> QED BY <1>4, <1>8, <1>9, <1>10, <1>12, <1>13, <1>14, DiskStep

\* What is reserved is somebody's to copy.
LEMMA ReservedDisk ==
  ASSUME RedoInv, RedoInv', WaitInv, WaitInv', InsertInv, InsertInv', DiskInv,
         NEW p \in Procs, NEW next, NEW end, Reserved(p, next, end), XLogBytePosToEndRecPtr(next) = end,
         UNCHANGED <<InitializedUpTo, xlblocks, buffer, logWriteResult, logFlushResult, file, synced, cachedPage>>,
         UNCHANGED <<LogwrtResult, WALWriteLock>>
  PROVE  DiskInv'
<1>1. p \in Everyone /\ Distinct
  BY XLogConstants DEF Everyone
<1>2. /\ Typed /\ Bounds /\ Writer(p) /\ Proc(p) /\ OnItsPage(p) /\ PagesOK /\ DiskOK /\ PositionsOK /\ End \in Nat
  BY <1>1, EndTyped DEF RedoInv, WaitInv, InsertInv, DiskInv
<1>3. /\ at[p] = "reserve" /\ CurrBytePos' = next /\ at' = [at EXCEPT ![p] = "buffer"]
      /\ rec' = [rec EXCEPT ![p] = [start |-> NextPtr, end |-> end, curr |-> NextPtr, left |-> Job(p).len]]
      /\ UNCHANGED caller
  BY DEF Reserved
<1>4. at'[p] = "buffer" /\ \A q \in Everyone \ {p} : at'[q] = at[q]
  BY <1>1, <1>2, <1>3 DEF Typed
<1>5. rec'[p].curr = NextPtr /\ rec'[p].end = end /\ \A q \in Procs \ {p} : rec'[q] = rec[q]
  BY <1>1, <1>2, <1>3 DEF Typed
<1>6. Others(p)
  BY <1>3, <1>4, <1>5 DEF Others
<1>7. caller[p] # "flush"
  BY <1>2, <1>3 DEF Proc, Flushing
<1>8. ~HasSpace(p) /\ HasSpace(p)'
  BY <1>3, <1>4, <1>7 DEF HasSpace, Inserts, Free
<1>9. Copied(p)' = End
  <2>1. Copied(p)' = InitializedPart(NextPtr)
    BY <1>5 DEF Copied, InitializedPart, HeaderSize, PageBegin
  <2>2. InitializedPart(NextPtr) = End
    BY <1>2, PartOfStart DEF NextPtr, End, Typed
  <2> QED BY <2>1, <2>2
<1>10. End' = end
  BY <1>3 DEF End
<1>11. ASSUME NEW ptr PROVE (Mapped(ptr)' <=> Mapped(ptr)) /\ (Good(ptr)' <=> Good(ptr)) /\ (InHeader(ptr)' <=> InHeader(ptr))
                             /\ BufIdx(ptr)' = BufIdx(ptr) /\ PageEnd(ptr)' = PageEnd(ptr)
  BY DEF Good, Mapped, InHeader, BufIdx, PageOf, PageEnd, PageBegin, HeaderSize
<1>12. Ring' /\ Headers'
  BY <1>2, <1>11 DEF PagesOK, Ring, Headers
<1>13. ASSUME NEW ptr, Pending(ptr) PROVE Pending(ptr)'
  <2>1. PICK q \in Procs : HasSpace(q) /\ Copied(q) <= ptr /\ ptr < rec[q].end
    BY <1>13 DEF Pending
  <2>2. at'[q] = at[q] /\ rec'[q] = rec[q]
    BY <1>1, <1>4, <1>5, <1>8, <2>1
  <2>3. HasSpace(q)' /\ Copied(q)' = Copied(q)
    BY <1>3, <2>1, <2>2 DEF HasSpace, Inserts, Free, Copied, InitializedPart, HeaderSize, PageBegin
  <2> QED BY <2>1, <2>2, <2>3 DEF Pending
<1>14. Cover'
  <2>1. PageBegin(logWriteResult)' = PageBegin(logWriteResult)
    BY DEF PageBegin
  <2> SUFFICES ASSUME NEW ptr \in Nat, PageBegin(logWriteResult) <= ptr, ptr < end PROVE Good(ptr)' \/ Pending(ptr)'
    BY <1>10, <2>1 DEF Cover
  <2>2. CASE ptr < End
    <3>1. Good(ptr) \/ Pending(ptr)
      BY <1>2, <2>2 DEF PagesOK, Cover
    <3> QED BY <1>11, <1>13, <3>1
  <2>3. CASE End <= ptr
    BY <1>5, <1>8, <1>9, <2>3 DEF Pending
  <2> QED BY <1>2, <2>2, <2>3
<1>15. PagesOK'
  BY <1>2, <1>12, <1>14 DEF PagesOK
<1>16. OnItsPage(p)'
  BY <1>2, <1>4 DEF OnItsPage
<1>17. Writer(p)'
  BY <1>2, <1>3, <1>4 DEF Writer, Writes
<1>18. DiskOK'
  <2>1. Safe(logWriteResult, logFlushResult)' /\ SegBegin(logWriteResult)' = SegBegin(logWriteResult)
    BY <1>2 DEF DiskOK, Safe, SegBegin
  <2>2. (\A q \in Everyone : at'[q] # "publishFlush") => \A q \in Everyone : at[q] # "publishFlush"
    BY <1>3, <1>4
  <2> QED BY <1>2, <2>1, <2>2 DEF DiskOK
<1>19. /\ logWriteResult <= logWriteResult' /\ logFlushResult <= logFlushResult' /\ InitializedUpTo <= InitializedUpTo'
       /\ at'[p] \notin {"panic", "unsatisfied"}
  BY <1>2, <1>4 DEF Bounds, PositionsOK
<1> QED BY <1>1, <1>6, <1>15, <1>16, <1>17, <1>18, <1>19, DiskStep

\* ReserveXLogInsertLocation.
LEMMA DiskReserve ==
  ASSUME RedoInv, RedoInv', WaitInv, WaitInv', InsertInv, InsertInv', DiskInv, NEW p \in Procs, ReserveXLogInsertLocation(p)
  PROVE  DiskInv'
<1>1. PICK next, end : /\ next = CurrBytePos + Job(p).len /\ end = XLogBytePosToEndRecPtr(next)
                       /\ Reserve(p, next, end) /\ end <= Horizon
  BY DEF ReserveXLogInsertLocation
<1>2. Reserves(CurrBytePos, Job(p).len, next, end)
  BY <1>1 DEF Reserves
<1>3. \/ UNCHANGED <<RedoRecPtr, redo>>
      \/ Exclusive(p) /\ RedoRecPtr' = NextPtr /\ redo' = [redo EXCEPT ![p] = NextPtr]
  BY DEF ReserveXLogInsertLocation, Exclusive, NextPtr
<1>4. UNCHANGED <<insertLock, caller, todo, lockNo, doPageWrites, pageLSN>> /\ at[p] = "reserve"
  BY DEF ReserveXLogInsertLocation
<1>5. Reserved(p, next, end)
  BY <1>1, <1>2, <1>3, <1>4 DEF Reserved, Reserve, NextPtr
<1>6. /\ UNCHANGED <<InitializedUpTo, xlblocks, buffer, logWriteResult, logFlushResult, file, synced, cachedPage>>
      /\ UNCHANGED <<LogwrtResult, WALWriteLock>>
  BY DEF ReserveXLogInsertLocation
<1> QED BY <1>1, <1>5, <1>6, ReservedDisk

\* ReserveXLogSwitch.
LEMMA DiskSwitch ==
  ASSUME RedoInv, RedoInv', WaitInv, WaitInv', InsertInv, InsertInv', DiskInv, NEW p \in Procs, ReserveXLogSwitch(p)
  PROVE  DiskInv'
<1>1. p \in Everyone /\ Procs \subseteq Everyone /\ WalWriter \notin Procs /\ None \notin Everyone
  BY XLogConstants DEF Everyone
<1>2. Typed /\ Proc(p) /\ at[p] = "reserve" /\ Exclusive(p) /\ OnItsPage(p) /\ Bounds
  BY DEF RedoInv, InsertInv, DiskInv, ReserveXLogSwitch, Exclusive
<1>3. /\ UNCHANGED <<RedoRecPtr, insertLock, caller, todo, lockNo, redo, doPageWrites, pageLSN>>
      /\ UNCHANGED <<InitializedUpTo, xlblocks, buffer, logWriteResult, logFlushResult, file, synced, cachedPage>>
      /\ UNCHANGED <<LogwrtResult, WALWriteLock>>
  BY DEF ReserveXLogSwitch
<1>4. CASE XLogBytePosToEndRecPtr(CurrBytePos) % SegSize = 0
  <2>1. /\ rec' = [rec EXCEPT ![p] = [start |-> End, end |-> End, curr |-> End, left |-> 0]]
        /\ at' = [at EXCEPT ![p] = "release"] /\ UNCHANGED CurrBytePos
    BY <1>4 DEF ReserveXLogSwitch, End
  <2>2. Others(p) /\ at'[p] = "release"
    BY <1>1, <1>2, <1>3, <2>1 DEF Others, Typed
  <2>3. ~HasSpace(p)
    BY <1>2 DEF HasSpace
  <2>4. LogwrtResult'[p] = LogwrtResult[p] /\ at[p] \notin Writes
        /\ at'[p] \notin Writes \union {"flushLocked", "copy", "mapped", "panic", "unsatisfied"}
    BY <1>2, <1>3, <2>2 DEF Writes
  <2> QED BY <1>1, <1>2, <1>3, <2>1, <2>2, <2>3, <2>4, QuietDisk
<1>5. CASE XLogBytePosToEndRecPtr(CurrBytePos) % SegSize # 0
  <2>1. PICK next, end, e :
          /\ e = XLogBytePosToEndRecPtr(CurrBytePos + Job(p).len)
          /\ end = IF e % SegSize = 0 THEN e ELSE e - (e % SegSize) + SegSize
          /\ next = XLogRecPtrToBytePos(end) /\ Reserve(p, next, end) /\ end <= Horizon
    BY <1>5 DEF ReserveXLogSwitch
  <2>2. Reserves(CurrBytePos, Job(p).len, next, end)
    BY <1>5, <2>1 DEF Reserves
  <2>3. Reserved(p, next, end)
    BY <1>2, <1>3, <2>1, <2>2 DEF Reserved, Reserve, NextPtr
  <2>4. e \in Nat
    <3>1. todo[p] # <<>> /\ Job(p) \in Jobs
      BY <1>2, JobsLeft DEF Proc
    <3>2. CurrBytePos + Job(p).len \in Nat
      BY <1>2, <3>1 DEF Typed, Jobs
    <3> QED BY <2>1, <3>2, PointersMonotone
  <2>5. PICK s \in Nat : end = s * SegSize
    BY <2>1, <2>4, SegmentMultiple
  <2>6. XLogBytePosToEndRecPtr(next) = end
    BY <2>1, <2>5, SegmentEnd
  <2> QED BY <1>3, <2>3, <2>6, ReservedDisk
<1> QED BY <1>4, <1>5

\* CopyXLogRecordToWAL, one page: what p no longer owes is in the buffer.
LEMMA DiskCopy ==
  ASSUME RedoInv, RedoInv', WaitInv, WaitInv', InsertInv, InsertInv', DiskInv, NEW p \in Procs, Copy(p)
  PROVE  DiskInv'
<1>1. p \in Everyone /\ Distinct /\ None \notin Nat
  BY XLogConstants DEF Everyone
<1>2. /\ Typed /\ Bounds /\ Writer(p) /\ Proc(p) /\ Insertion(p) /\ OnItsPage(p) /\ PagesOK /\ DiskOK /\ PositionsOK
  BY <1>1 DEF RedoInv, WaitInv, InsertInv, DiskInv
<1>3. /\ UNCHANGED <<InitializedUpTo, xlblocks, CurrBytePos, logWriteResult, logFlushResult, file, synced, cachedPage>>
      /\ UNCHANGED <<LogwrtResult, WALWriteLock, caller>>
  BY DEF Copy
<1>4. at[p] = "copy" /\ at'[p] \in {"buffer", "release"} /\ caller[p] # "flush"
  BY <1>1, <1>2 DEF Copy, Typed, Proc, Flushing
<1>5. HasSpace(p)
  BY <1>4 DEF HasSpace, Inserts, Free
<1>6. PICK c \in Nat, left \in Nat, end \in Nat, kind \in {Job(p).kind} :
        /\ c = rec[p].curr /\ left = rec[p].left /\ end = rec[p].end /\ kind = Job(p).kind
        /\ Ahead(c, left, end, kind)
  BY <1>2, <1>4, <1>5, SpaceTyped DEF Insertion, Before
<1>7. PICK from, n, rest, to :
        /\ from = From(c) /\ n = Smaller(left, PageEnd(c) - from) /\ rest = left - n
        /\ to = IF rest = 0 /\ kind = "switch" THEN PageEnd(c) ELSE from + n
  OBVIOUS
<1>8. cachedPage[p] = PageOf(c) /\ cachedPage[p] % XLogBuffers = BufIdx(c) /\ BufIdx(c) \in 0..(XLogBuffers - 1)
  BY <1>2, <1>4, <1>6, BufferNumber DEF OnItsPage, BufIdx
<1>9. /\ rec' = [rec EXCEPT ![p].curr = to, ![p].left = rest]
      /\ buffer' = [buffer EXCEPT ![BufIdx(c)] = @ \union from..(to - 1)]
      /\ at' = [at EXCEPT ![p] = IF rest > 0 \/ to < end THEN "buffer" ELSE "release"]
  BY <1>6, <1>7, <1>8 DEF Copy, From
<1>10. /\ from \in Nat /\ to \in Nat /\ rest \in Nat /\ to <= PageEnd(c)
       /\ InitializedPart(c) <= to /\ InitializedPart(to) = to
       /\ InitializedPart(c) = PageBegin(c) \/ InitializedPart(c) = from
       /\ from <= PageBegin(c) + HeaderSize(c) \/ InitializedPart(c) = from
  BY <1>6, <1>7, CopyMoves
<1>11. /\ rec'[p].curr = to /\ rec'[p].end = end /\ \A q \in Procs \ {p} : rec'[q] = rec[q]
  <2>1. DOMAIN rec[p] = {"start", "end", "curr", "left"}
    BY <1>5, SpaceTyped
  <2> QED BY <1>2, <1>6, <1>9, <2>1 DEF Typed
<1>12. Others(p)
  BY <1>1, <1>2, <1>3, <1>9, <1>11 DEF Others, Typed
<1>13. PICK begin \in Nat, pend \in Nat, h \in Nat :
         begin = PageBegin(c) /\ pend = PageEnd(c) /\ h = HeaderSize(c) /\ begin <= c /\ c < pend
  BY PageParts, HeaderBounds
<1>14. InitializedUpTo \in Nat /\ pend <= InitializedUpTo
  <2>1. PageOf(c) \in Nat
    BY PageParts
  <2>2. (PageOf(c) + 1) * XLOG_BLCKSZ <= InitializedUpTo
    BY <1>1, <1>2, <1>8, <2>1 DEF OnItsPage
  <2>3. PageEnd(c) <= InitializedUpTo
    BY <2>2, PageParts
  <2> QED BY <1>2, <1>13, <2>3 DEF PositionsOK
<1>15. Mapped(c)
  <2>1. rec[p].curr < InitializedUpTo
    BY <1>6, <1>13, <1>14
  <2> QED BY <1>5, <1>6, <2>1, PageThere
<1>16. ASSUME NEW ptr \in Nat PROVE buffer[BufIdx(ptr)] \subseteq buffer'[BufIdx(ptr)]
  <2>1. BufIdx(ptr) \in 0..(XLogBuffers - 1)
    BY BufferNumber
  <2> QED BY <1>2, <1>8, <1>9, <2>1 DEF PagesOK
<1>17. ASSUME NEW ptr PROVE (Mapped(ptr)' <=> Mapped(ptr)) /\ (InHeader(ptr)' <=> InHeader(ptr))
                             /\ BufIdx(ptr)' = BufIdx(ptr) /\ PageEnd(ptr)' = PageEnd(ptr)
  BY <1>3 DEF Mapped, InHeader, BufIdx, PageOf, PageEnd, PageBegin, HeaderSize
<1>18. ASSUME NEW ptr \in Nat, InitializedPart(c) <= ptr, ptr < to PROVE Good(ptr)'
  <2>1. InitializedPart(c) \in Nat /\ begin <= InitializedPart(c)
    BY <1>13, PartBounds
  <2>2. begin <= ptr /\ ptr < pend
    BY <1>10, <1>13, <1>18, <2>1
  <2>3. BufIdx(ptr) = BufIdx(c) /\ Mapped(ptr) /\ PageBegin(ptr) = begin /\ HeaderSize(ptr) = h
    BY <1>13, <1>15, <2>2, SamePage DEF Mapped
  <2>4. CASE from <= ptr
    <3>1. ptr \in from..(to - 1)
      BY <1>10, <1>18, <2>4
    <3>2. ptr \in buffer'[BufIdx(c)]
      BY <1>2, <1>8, <1>9, <3>1 DEF PagesOK
    <3> QED BY <1>17, <2>3, <3>2 DEF Good
  <2>5. CASE ptr < from
    <3>1. InitializedPart(c) # from
      BY <1>10, <1>18, <2>1, <2>5
    <3>2. ptr < begin + h
      BY <1>10, <1>13, <2>5, <3>1
    <3>3. InHeader(ptr)
      <4>1. ptr = begin + (ptr % XLOG_BLCKSZ) /\ ptr % XLOG_BLCKSZ \in Nat
        BY <2>3, PageParts
      <4>2. PICK o \in Nat : o = ptr % XLOG_BLCKSZ /\ ptr = begin + o
        BY <4>1
      <4>3. o < h
        BY <3>2, <4>2
      <4> QED BY <2>3, <4>2, <4>3 DEF InHeader
    <3>4. ptr < InitializedUpTo
      BY <1>14, <2>2
    <3>5. ptr \in buffer[BufIdx(ptr)]
      BY <1>2, <2>3, <3>3, <3>4 DEF PagesOK, Headers
    <3> QED BY <1>16, <1>17, <2>3, <3>5 DEF Good
  <2> QED BY <1>10, <2>4, <2>5
<1>19. Ring' /\ Headers'
  <2>1. Ring'
    BY <1>2, <1>3, <1>17 DEF PagesOK, Ring
  <2>2. Headers'
    BY <1>2, <1>3, <1>16, <1>17 DEF PagesOK, Headers
  <2> QED BY <2>1, <2>2
<1>20. Cover'
  <2>1. PageBegin(logWriteResult)' = PageBegin(logWriteResult) /\ End' = End
    BY <1>3 DEF PageBegin, End
  <2> SUFFICES ASSUME NEW ptr \in Nat, PageBegin(logWriteResult) <= ptr, ptr < End PROVE Good(ptr)' \/ Pending(ptr)'
    BY <2>1 DEF Cover
  <2>2. Good(ptr) \/ Pending(ptr)
    BY <1>2 DEF PagesOK, Cover
  <2>3. CASE Good(ptr)
    BY <1>16, <1>17, <2>3 DEF Good
  <2>4. CASE Pending(ptr)
    <3>1. PICK q \in Procs : HasSpace(q) /\ Copied(q) <= ptr /\ ptr < rec[q].end
      BY <2>4 DEF Pending
    <3>2. CASE q # p
      <4>1. at'[q] = at[q] /\ rec'[q] = rec[q]
        BY <1>1, <1>11, <1>12, <3>2 DEF Others
      <4>2. HasSpace(q)' /\ Copied(q)' = Copied(q)
        BY <1>3, <3>1, <4>1 DEF HasSpace, Inserts, Free, Copied, InitializedPart, HeaderSize, PageBegin
      <4> QED BY <3>1, <4>1, <4>2 DEF Pending
    <3>3. CASE q = p /\ ptr < to
      <4>1. InitializedPart(c) <= ptr
        BY <1>6, <3>1, <3>3 DEF Copied
      <4> QED BY <1>18, <3>3, <4>1
    <3>4. CASE q = p /\ to <= ptr
      <4>1. ptr < end
        BY <1>6, <3>1, <3>4
      <4>2. to < end
        BY <1>10, <3>4, <4>1
      <4>3. at'[p] = "buffer"
        BY <1>1, <1>2, <1>9, <4>2 DEF Typed
      <4>4. HasSpace(p)'
        BY <1>3, <1>4, <4>3 DEF HasSpace, Inserts, Free
      <4>5. Copied(p)' = to
        <5>1. Copied(p)' = InitializedPart(to)
          BY <1>11 DEF Copied, InitializedPart, HeaderSize, PageBegin
        <5> QED BY <1>10, <5>1
      <4> QED BY <1>11, <3>4, <4>1, <4>4, <4>5 DEF Pending
    <3> QED BY <1>10, <3>2, <3>3, <3>4
  <2> QED BY <2>2, <2>3, <2>4
<1>21. PagesOK'
  <2>1. DOMAIN buffer' = 0..(XLogBuffers - 1) /\ DOMAIN cachedPage' = Procs
    BY <1>2, <1>3, <1>9 DEF PagesOK
  <2> QED BY <1>19, <1>20, <2>1 DEF PagesOK
<1>22. OnItsPage(p)'
  BY <1>2, <1>3, <1>4 DEF OnItsPage
<1>23. Writer(p)'
  BY <1>2, <1>3, <1>4 DEF Writer, Writes
<1>24. DiskOK'
  <2>1. Safe(logWriteResult, logFlushResult)' /\ SegBegin(logWriteResult)' = SegBegin(logWriteResult)
    BY <1>2, <1>3 DEF DiskOK, Safe, SegBegin
  <2>2. (\A q \in Everyone : at'[q] # "publishFlush") => \A q \in Everyone : at[q] # "publishFlush"
    BY <1>4, <1>12 DEF Others
  <2> QED BY <1>2, <1>3, <2>1, <2>2 DEF DiskOK
<1>25. /\ logWriteResult <= logWriteResult' /\ logFlushResult <= logFlushResult' /\ InitializedUpTo <= InitializedUpTo'
       /\ at'[p] \notin {"panic", "unsatisfied"}
  BY <1>2, <1>3, <1>4 DEF Bounds, PositionsOK
<1> QED BY <1>1, <1>3, <1>12, <1>21, <1>22, <1>23, <1>24, <1>25, DiskStep

\* A buffer is taken over once its page is written.
LEMMA InitializedPages ==
  ASSUME RedoInv, WaitInv, WaitInv', InsertInv, DiskInv, NEW p \in Everyone, Others(p), InitializePage,
         UNCHANGED <<at, caller, rec, CurrBytePos, logWriteResult, cachedPage>>, OldPageRqstPtr <= logWriteResult
  PROVE  PagesOK'
<1>1. PICK I \in Nat, B \in Nat \ {0} : I = InitializedUpTo /\ B = XLOG_BLCKSZ
  BY Sizes DEF WaitInv, PositionsOK
<1>2. I % XLOG_BLCKSZ = 0 /\ PositionsOK /\ PagesOK
  BY <1>1 DEF WaitInv, PositionsOK, DiskInv
<1>3. PICK idx \in 0..(XLogBuffers - 1) : idx = BufIdx(I)
  BY BufferNumber
<1>4. /\ buffer' = [buffer EXCEPT ![idx] = I..(I + HeaderSize(I) - 1)]
      /\ xlblocks' = [xlblocks EXCEPT ![idx] = I + B]
      /\ InitializedUpTo' = I + B /\ xlblocks[idx] <= logWriteResult
  BY <1>1, <1>3 DEF InitializePage, OldPageRqstPtr
<1>5. /\ buffer'[idx] = I..(I + HeaderSize(I) - 1) /\ xlblocks'[idx] = I + B
      /\ \A i \in 0..(XLogBuffers - 1) : i # idx => buffer'[i] = buffer[i] /\ xlblocks'[i] = xlblocks[i]
      /\ DOMAIN buffer' = 0..(XLogBuffers - 1)
  BY <1>2, <1>4 DEF PositionsOK, PagesOK
<1>6. logWriteResult \in Nat /\ xlblocks[idx] \in Nat
  BY <1>2 DEF InsertInv, Bounds, PositionsOK
<1>7. PageBegin(I) = I /\ PageEnd(I) = I + B
  <2>1. I = PageBegin(I) + (I % XLOG_BLCKSZ) /\ PageEnd(I) = PageBegin(I) + XLOG_BLCKSZ /\ PageBegin(I) \in Nat
    BY PageParts
  <2> QED BY <1>1, <1>2, <2>1
<1>8. ASSUME NEW ptr \in Nat
      PROVE  /\ BufIdx(ptr) \in 0..(XLogBuffers - 1) /\ BufIdx(ptr)' = BufIdx(ptr) /\ PageEnd(ptr)' = PageEnd(ptr)
             /\ PageEnd(ptr) \in Nat /\ PageBegin(ptr) \in Nat /\ PageEnd(ptr) = PageBegin(ptr) + B
             /\ PageBegin(ptr) <= ptr /\ ptr < PageEnd(ptr)
             /\ InHeader(ptr)' <=> InHeader(ptr)
             /\ Mapped(ptr)' <=> xlblocks'[BufIdx(ptr)] = PageEnd(ptr)
  <2>1. BufIdx(ptr) \in 0..(XLogBuffers - 1)
    BY BufferNumber
  <2>2. /\ PageEnd(ptr) \in Nat /\ PageBegin(ptr) \in Nat /\ PageEnd(ptr) = PageBegin(ptr) + B
        /\ PageBegin(ptr) <= ptr /\ ptr < PageEnd(ptr)
    BY <1>1, PageParts
  <2>3. BufIdx(ptr)' = BufIdx(ptr) /\ PageEnd(ptr)' = PageEnd(ptr) /\ (InHeader(ptr)' <=> InHeader(ptr))
    BY DEF BufIdx, PageOf, PageEnd, PageBegin, InHeader, HeaderSize
  <2>4. Mapped(ptr)' <=> xlblocks'[BufIdx(ptr)] = PageEnd(ptr)
    BY DEF Mapped, BufIdx, PageOf, PageEnd, PageBegin
  <2> QED BY <2>1, <2>2, <2>3, <2>4
<1>9. ASSUME NEW ptr \in Nat, I <= ptr, ptr < I + B PROVE BufIdx(ptr) = idx /\ PageEnd(ptr) = I + B
  BY <1>3, <1>7, <1>9, SamePage
<1>10. Ring'
  <2> SUFFICES ASSUME NEW ptr \in Nat, ptr < I + B PROVE PageEnd(ptr) <= logWriteResult \/ Mapped(ptr)'
    BY <1>4, <1>8 DEF Ring
  <2>1. CASE I <= ptr
    BY <1>5, <1>8, <1>9, <2>1
  <2>2. CASE ptr < I /\ BufIdx(ptr) = idx
    <3>1. PageEnd(ptr) <= logWriteResult \/ xlblocks[idx] = PageEnd(ptr)
      BY <1>1, <1>2, <2>2 DEF PagesOK, Ring, Mapped
    <3> QED BY <1>4, <3>1
  <2>3. CASE ptr < I /\ BufIdx(ptr) # idx
    <3>1. PageEnd(ptr) <= logWriteResult \/ xlblocks[BufIdx(ptr)] = PageEnd(ptr)
      BY <1>1, <1>2, <2>3 DEF PagesOK, Ring, Mapped
    <3>2. xlblocks'[BufIdx(ptr)] = xlblocks[BufIdx(ptr)]
      BY <1>5, <1>8, <2>3
    <3> QED BY <1>8, <3>1, <3>2
  <2> QED BY <1>1, <2>1, <2>2, <2>3
<1>11. Headers'
  <2> SUFFICES ASSUME NEW ptr \in Nat, ptr < I + B, Mapped(ptr)', InHeader(ptr) PROVE ptr \in buffer'[BufIdx(ptr)]
    BY <1>4, <1>8 DEF Headers
  <2>1. CASE BufIdx(ptr) = idx
    <3>1. PageBegin(ptr) = I
      <4>1. PageEnd(ptr) = I + B
        BY <1>5, <1>8, <2>1
      <4>2. PICK x \in Nat : x = PageBegin(ptr) /\ PageEnd(ptr) = x + B
        BY <1>8
      <4> QED BY ONLY <4>1, <4>2, I \in Nat, B \in Nat \ {0}
    <3>2. PICK o \in Nat : o = ptr % XLOG_BLCKSZ /\ ptr = I + o
      BY <3>1, PageParts
    <3>3. HeaderSize(ptr) = HeaderSize(I) /\ HeaderSize(I) \in Nat
      BY <1>7, <3>1, HeaderBounds DEF HeaderSize
    <3>4. o < HeaderSize(I)
      BY <3>2, <3>3 DEF InHeader
    <3>5. ptr \in I..(I + HeaderSize(I) - 1)
      BY <3>2, <3>3, <3>4
    <3> QED BY <1>5, <2>1, <3>5
  <2>2. CASE BufIdx(ptr) # idx
    <3>1. ptr < I
      BY <1>9, <2>2
    <3>2. xlblocks[BufIdx(ptr)] = PageEnd(ptr) /\ buffer'[BufIdx(ptr)] = buffer[BufIdx(ptr)]
      BY <1>5, <1>8, <2>2
    <3> QED BY <1>1, <1>2, <3>1, <3>2 DEF PagesOK, Headers, Mapped
  <2> QED BY <2>1, <2>2
<1>12. ASSUME NEW ptr, Pending(ptr) PROVE Pending(ptr)'
  BY <1>12 DEF Pending, HasSpace, Inserts, Free, Copied, InitializedPart, HeaderSize, PageBegin
<1>13. Cover'
  <2>1. PageBegin(logWriteResult)' = PageBegin(logWriteResult) /\ End' = End
    BY DEF PageBegin, End
  <2> SUFFICES ASSUME NEW ptr \in Nat, PageBegin(logWriteResult) <= ptr, ptr < End PROVE Good(ptr)' \/ Pending(ptr)'
    BY <2>1 DEF Cover
  <2>2. Good(ptr) \/ Pending(ptr)
    BY <1>2 DEF PagesOK, Cover
  <2>3. CASE Good(ptr)
    <3>1. logWriteResult < PageEnd(ptr)
      <4>1. /\ PageBegin(logWriteResult) \in Nat /\ PageBegin(logWriteResult) % XLOG_BLCKSZ = 0
            /\ logWriteResult < PageBegin(logWriteResult) + B
        BY <1>1, <1>6, PageParts
      <4>2. PageBegin(logWriteResult) <= PageBegin(ptr)
        BY <4>1, PagesApart
      <4>3. PICK x \in Nat, y \in Nat, e \in Nat :
              x = PageBegin(logWriteResult) /\ y = PageBegin(ptr) /\ e = PageEnd(ptr) /\ e = y + B /\ x <= y /\ logWriteResult < x + B
        BY <1>8, <4>1, <4>2
      <4> QED BY <1>1, <1>6, <4>3
    <3>2. BufIdx(ptr) # idx
      <4>1. PICK e \in Nat, x \in Nat : e = PageEnd(ptr) /\ x = xlblocks[idx] /\ x <= logWriteResult /\ logWriteResult < e
        BY <1>4, <1>6, <1>8, <3>1
      <4>2. x # e
        BY <1>6, <4>1
      <4> QED BY <2>3, <4>1, <4>2 DEF Good, Mapped
    <3> QED BY <1>5, <1>8, <2>3, <3>2 DEF Good, Mapped
  <2>4. CASE Pending(ptr)
    BY <1>12, <2>4
  <2> QED BY <2>2, <2>3, <2>4
<1> QED BY <1>2, <1>5, <1>10, <1>11, <1>13 DEF PagesOK

\* AdvanceXLInsertBuffer.
LEMMA DiskAdvance ==
  ASSUME RedoInv, RedoInv', WaitInv, WaitInv', InsertInv, InsertInv', DiskInv, NEW p \in Everyone, Advance(p)
  PROVE  DiskInv'
<1>1. p \in Everyone /\ Distinct
  BY XLogConstants DEF Everyone
<1>2. /\ Typed /\ Bounds /\ Writer(p) /\ Waiter(p) /\ PagesOK /\ DiskOK /\ PositionsOK
      /\ p \in Procs => OnItsPage(p) /\ Proc(p)
  BY <1>1 DEF RedoInv, WaitInv, InsertInv, DiskInv
<1>3. UNCHANGED <<CurrBytePos, logWriteResult, logFlushResult, file, synced, cachedPage, rec, WALWriteLock>>
  BY DEF Advance
<1>4. at[p] = "advance" /\ at'[p] \in {"advance", "wait", "idle", "mapped"}
  BY <1>1, <1>2 DEF Advance, CallWait, Typed
<1>5. Others(p)
  BY <1>1, <1>2, <1>3 DEF Others, Typed, Bounds, Advance, CallWait
<1>6. LogwrtResult'[p] = Refreshed \/ LogwrtResult'[p] = LogwrtResult[p]
  BY <1>1, <1>2 DEF Bounds, Advance
<1>7. Writer(p)'
  BY <1>1, <1>2, <1>3, <1>4, <1>6, QuietWriter DEF Writes
<1>8. caller'[p] \in {caller[p], None}
  BY <1>1, <1>2 DEF Typed, Advance, CallWait
<1>9. p \in Procs => HasSpace(p)'
  <2>1. p \in Procs => at'[p] # "idle" /\ caller[p] # "flush"
    BY <1>1, <1>2, <1>4 DEF Typed, Proc, Flushing, Advance, CallWait, Opportunistic
  <2> QED BY <1>1, <1>4, <1>8, <2>1 DEF HasSpace, Inserts, Free
<1>10. at[p] # "publishFlush" /\ at'[p] \notin {"panic", "unsatisfied"}
  BY <1>4
<1>11. CASE UNCHANGED <<InitializedUpTo, xlblocks, buffer>>
  <2>1. ASSUME p \in Procs, at'[p] = "mapped" PROVE rec[p].curr < InitializedUpTo
    <3>1. HasSpace(p)
      BY <1>2, <1>4, <2>1 DEF Proc, HasSpace, Inserts, Free, Flushing
    <3>2. rec[p].curr \in Nat /\ InitializedUpTo \in Nat
      BY <1>2, <2>1, <3>1, SpaceTyped DEF PositionsOK
    <3>3. ~(rec[p].curr >= InitializedUpTo)
      BY <1>1, <1>2, <1>4, <2>1 DEF Advance, CallWait, Opportunistic, Typed
    <3> QED BY <3>2, <3>3
  <2>2. p \in Procs => OnItsPage(p)'
    BY <1>2, <1>3, <1>4, <1>11, <2>1 DEF OnItsPage
  <2>3. DOMAIN cachedPage' = Procs
    BY <1>2, <1>3 DEF PagesOK
  <2> QED BY <1>1, <1>3, <1>5, <1>7, <1>9, <1>10, <1>11, <2>2, <2>3, AsideDisk
<1>12. CASE InitializePage /\ Written(p, OldPageRqstPtr) /\ UNCHANGED <<at, caller>>
  <2>1. OldPageRqstPtr <= logWriteResult
    <3>1. OldPageRqstPtr \in Nat
      BY <1>2, BufferNumber DEF PositionsOK, OldPageRqstPtr
    <3>2. LogwrtResult[p].write \in Nat /\ LogwrtResult[p].write <= logWriteResult /\ logWriteResult \in Nat
      BY <1>2, <1>4 DEF Waiter, Writer, Writes, Bounds
    <3>3. OldPageRqstPtr <= LogwrtResult[p].write
      BY <1>12 DEF Written
    <3> QED BY <3>1, <3>2, <3>3
  <2>2. PagesOK'
    BY <1>3, <1>5, <1>12, <2>1, InitializedPages
  <2>3. InitializedUpTo <= InitializedUpTo' /\ InitializedUpTo \in Nat /\ InitializedUpTo' \in Nat
    BY <1>2, <1>12, Sizes DEF InitializePage, PositionsOK
  <2>4. p \in Procs => OnItsPage(p)'
    <3> SUFFICES ASSUME p \in Procs PROVE OnItsPage(p)'
      OBVIOUS
    <3>1. cachedPage[p] # None => cachedPage[p] \in Nat /\ (cachedPage[p] + 1) * XLOG_BLCKSZ <= InitializedUpTo'
      <4> SUFFICES ASSUME cachedPage[p] # None PROVE cachedPage[p] \in Nat /\ (cachedPage[p] + 1) * XLOG_BLCKSZ <= InitializedUpTo'
        OBVIOUS
      <4>1. cachedPage[p] \in Nat /\ (cachedPage[p] + 1) * XLOG_BLCKSZ <= InitializedUpTo
        BY <1>2 DEF OnItsPage
      <4>2. PICK x \in Nat : x = (cachedPage[p] + 1) * XLOG_BLCKSZ
        BY <4>1, Sizes
      <4> QED BY <2>3, <4>1, <4>2
    <3> QED BY <1>3, <1>4, <1>12, <3>1 DEF OnItsPage
  <2>5. DiskOK'
    <3>1. Safe(logWriteResult, logFlushResult)' /\ SegBegin(logWriteResult)' = SegBegin(logWriteResult)
      BY <1>2, <1>3 DEF DiskOK, Safe, SegBegin
    <3> QED BY <1>2, <1>3, <1>12, <3>1 DEF DiskOK
  <2>6. logWriteResult <= logWriteResult' /\ logFlushResult <= logFlushResult'
    BY <1>2, <1>3 DEF Bounds
  <2> QED BY <1>1, <1>3, <1>5, <1>7, <1>10, <2>2, <2>3, <2>4, <2>5, <2>6, DiskStep
<1> QED
  <2>1. UNCHANGED <<InitializedUpTo, xlblocks, buffer>> \/ (InitializePage /\ Written(p, OldPageRqstPtr) /\ UNCHANGED <<at, caller>>)
    BY DEF Advance
  <2> QED BY <1>11, <1>12, <2>1

\* The state after StartupXLOG: the last page of the log is in its buffer.
LEMMA InitDiskInv == Init => DiskInv
<1> SUFFICES ASSUME Init PROVE DiskInv
  OBVIOUS
<1>1. PICK end \in Starts :
        /\ CurrBytePos = XLogRecPtrToBytePos(end) /\ logWriteResult = end /\ logFlushResult = end
        /\ InitializedUpTo = IF end % XLOG_BLCKSZ = 0 THEN end ELSE PageEnd(end)
        /\ xlblocks = [i \in 0..(XLogBuffers - 1) |->
                         IF end % XLOG_BLCKSZ # 0 /\ i = BufIdx(end) THEN PageEnd(end) ELSE 0]
        /\ buffer = [i \in 0..(XLogBuffers - 1) |-> IF xlblocks[i] = 0 THEN {} ELSE PageBegin(end)..(end - 1)]
        /\ file = 0..(end - 1) /\ synced = file
        /\ at = [p \in Everyone |-> "idle"] /\ caller = [p \in Everyone |-> None] /\ cachedPage = [p \in Procs |-> None]
        /\ LogwrtResult = [p \in Everyone |-> [write |-> 0, flush |-> 0]]
  BY DEF Init, Invalid
<1>2. end \in Nat /\ Procs \subseteq Everyone
  BY XLogConstants DEF Everyone
<1>3. End = end
  BY <1>1, StartEnd DEF End
<1>4. PICK begin \in Nat, pend \in Nat : begin = PageBegin(end) /\ pend = PageEnd(end) /\ begin <= end /\ end < pend
  BY <1>2, PageParts
<1>5. ASSUME NEW ptr \in Nat, begin <= ptr, ptr < pend
      PROVE  BufIdx(ptr) = BufIdx(end) /\ PageEnd(ptr) = pend /\ PageBegin(ptr) = begin /\ HeaderSize(ptr) = HeaderSize(end)
  BY <1>2, <1>4, <1>5, SamePage
<1>6. ASSUME end % XLOG_BLCKSZ # 0
      PROVE  /\ xlblocks[BufIdx(end)] = pend /\ buffer[BufIdx(end)] = begin..(end - 1)
             /\ BufIdx(end) \in 0..(XLogBuffers - 1)
  <2>1. BufIdx(end) \in 0..(XLogBuffers - 1)
    BY <1>2, BufferNumber
  <2>2. xlblocks[BufIdx(end)] = pend /\ pend # 0
    BY <1>1, <1>2, <1>4, <1>6, <2>1
  <2>3. buffer[BufIdx(end)] = begin..(end - 1)
    BY <1>1, <1>4, <2>1, <2>2
  <2> QED BY <2>1, <2>2, <2>3
<1>7. ASSUME end % XLOG_BLCKSZ = 0 PROVE begin = end
  <2>1. end = PageBegin(end) + (end % XLOG_BLCKSZ) /\ PageBegin(end) \in Nat
    BY <1>2, PageParts
  <2> QED BY <1>2, <1>4, <1>7, <2>1
<1>8. begin % XLOG_BLCKSZ = 0
  BY <1>2, <1>4, PageParts
<1>9. ASSUME NEW ptr \in Nat, ptr < begin PROVE PageEnd(ptr) <= end
  <2>1. PageEnd(ptr) <= begin /\ PageEnd(ptr) \in Nat
    BY <1>8, <1>9, PagesApart, PageParts
  <2> QED BY <1>2, <1>4, <2>1
<1>10. Ring
  <2> SUFFICES ASSUME NEW ptr \in Nat, ptr < InitializedUpTo PROVE PageEnd(ptr) <= end \/ Mapped(ptr)
    BY <1>1 DEF Ring
  <2>1. CASE ptr < begin
    BY <1>9, <2>1
  <2>2. CASE begin <= ptr
    <3>1. end % XLOG_BLCKSZ # 0 /\ ptr < pend
      <4>1. CASE end % XLOG_BLCKSZ = 0
        <5>1. InitializedUpTo = end /\ begin = end
          BY <1>1, <1>7, <4>1
        <5> QED BY <1>2, <2>2, <5>1
      <4>2. CASE end % XLOG_BLCKSZ # 0
        <5>1. InitializedUpTo = pend
          BY <1>1, <1>4, <4>2
        <5> QED BY <4>2, <5>1
      <4> QED BY <4>1, <4>2
    <3> QED BY <1>5, <1>6, <2>2, <3>1 DEF Mapped
  <2> QED BY <1>4, <2>1, <2>2
<1>11. Headers
  <2> SUFFICES ASSUME NEW ptr \in Nat, Mapped(ptr), InHeader(ptr) PROVE ptr \in buffer[BufIdx(ptr)]
    BY DEF Headers
  <2>1. BufIdx(ptr) \in 0..(XLogBuffers - 1) /\ PageEnd(ptr) \in Nat /\ ptr < PageEnd(ptr)
    BY BufferNumber, PageParts
  <2>2. end % XLOG_BLCKSZ # 0 /\ BufIdx(ptr) = BufIdx(end) /\ PageEnd(ptr) = pend
    <3>1. xlblocks[BufIdx(ptr)] # 0
      BY <2>1 DEF Mapped
    <3>2. end % XLOG_BLCKSZ # 0 /\ BufIdx(ptr) = BufIdx(end)
      BY <1>1, <2>1, <3>1
    <3> QED BY <1>6, <3>2 DEF Mapped
  <2>3. PICK B \in Nat \ {0} : B = XLOG_BLCKSZ /\ pend = begin + B /\ PageBegin(ptr) + B = pend /\ PageBegin(ptr) \in Nat
    BY <1>2, <1>4, <2>2, PageParts, Sizes
  <2>4. PageBegin(ptr) = begin
    BY ONLY <2>3, begin \in Nat, B \in Nat \ {0}
  <2>5. HeaderSize(ptr) = HeaderSize(end) /\ HeaderSize(end) \in Nat
    BY <1>4, <2>4, HeaderBounds DEF HeaderSize
  <2>6. PICK o \in Nat, u \in Nat :
          o = ptr % XLOG_BLCKSZ /\ ptr = begin + o /\ u = end % XLOG_BLCKSZ /\ end = begin + u
    <3>1. /\ ptr % XLOG_BLCKSZ \in Nat /\ ptr = PageBegin(ptr) + (ptr % XLOG_BLCKSZ)
          /\ end % XLOG_BLCKSZ \in Nat /\ end = PageBegin(end) + (end % XLOG_BLCKSZ)
      BY <1>2, PageParts
    <3> QED BY <1>4, <2>4, <3>1
  <2>7. o < HeaderSize(end)
    BY <2>5, <2>6 DEF InHeader
  <2>8. HeaderSize(end) < u
    BY <2>2, <2>6, PositionsAssumption
  <2>9. ptr \in begin..(end - 1)
    BY <2>5, <2>6, <2>7, <2>8
  <2> QED BY <1>6, <2>2, <2>9
<1>12. Cover
  <2> SUFFICES ASSUME NEW ptr \in Nat, begin <= ptr, ptr < end PROVE Good(ptr)
    BY <1>1, <1>3, <1>4 DEF Cover
  <2>1. end % XLOG_BLCKSZ # 0
    <3> SUFFICES ASSUME end % XLOG_BLCKSZ = 0 PROVE FALSE
      OBVIOUS
    <3>1. begin = end
      BY <1>7
    <3> QED BY <1>2, <3>1
  <2>2. ptr < pend /\ ptr \in begin..(end - 1)
    BY <1>2, <1>4
  <2> QED BY <1>5, <1>6, <2>1, <2>2 DEF Good, Mapped
<1>13. PagesOK
  BY <1>1, <1>10, <1>11, <1>12 DEF PagesOK
<1>14. DiskOK
  <2>1. \A ptr \in Nat : ptr < end => ptr \in 0..(end - 1)
    BY <1>2
  <2>2. PICK s \in Nat : s = SegBegin(end) /\ s <= end
    BY <1>2, SegmentParts
  <2> QED BY <1>1, <1>2, <2>1, <2>2 DEF DiskOK, Safe
<1>15. \A p \in Procs : OnItsPage(p)
  BY <1>1, <1>2 DEF OnItsPage
<1>16. \A p \in Everyone : Writer(p)
  BY <1>1, <1>2 DEF Writer, Writes
<1>17. NoPanic
  BY <1>1 DEF NoPanic
<1> QED BY <1>13, <1>14, <1>15, <1>16, <1>17 DEF DiskInv

\* Nothing happens.
LEMMA StutterDiskInv ==
  ASSUME RedoInv, RedoInv', WaitInv, WaitInv', InsertInv, InsertInv', DiskInv, UNCHANGED vars
  PROVE  DiskInv'
<1>1. /\ UNCHANGED <<InitializedUpTo, xlblocks, buffer, CurrBytePos, logWriteResult, logFlushResult, file, synced, cachedPage>>
      /\ UNCHANGED <<at, caller, rec, LogwrtResult, WALWriteLock>>
  BY DEF vars
<1>2. WalWriter \in Everyone /\ WalWriter \notin Procs /\ Writer(WalWriter) /\ at[WalWriter] \notin {"panic", "unsatisfied"}
  BY XLogConstants DEF Everyone, DiskInv, NoPanic
<1>3. Others(WalWriter)
  BY <1>1 DEF Others
<1>4. PagesOK' /\ DiskOK'
  <2>1. logWriteResult \in Nat /\ logWriteResult <= logWriteResult' /\ logWriteResult' \in Nat /\ DOMAIN cachedPage' = Procs
    BY <1>1 DEF InsertInv, Bounds, DiskInv, PagesOK
  <2>2. PagesOK'
    BY <1>1, <1>2, <1>3, <2>1, KeepsPages DEF DiskInv
  <2>3. DiskOK'
    BY <1>1 DEF DiskInv, DiskOK, Safe, SegBegin
  <2> QED BY <2>2, <2>3
<1>5. Writer(WalWriter)'
  BY <1>1, <1>2 DEF Writer, Safe, SegBegin
<1>6. logWriteResult <= logWriteResult' /\ logFlushResult <= logFlushResult' /\ InitializedUpTo <= InitializedUpTo'
  BY <1>1 DEF InsertInv, Bounds, WaitInv, PositionsOK
<1> QED BY <1>1, <1>2, <1>3, <1>4, <1>5, <1>6, DiskStep

\* Every step.
LEMMA NextDiskInv ==
  RedoInv /\ RedoInv' /\ WaitInv /\ WaitInv' /\ InsertInv /\ InsertInv' /\ DiskInv /\ [Next]_vars => DiskInv'
<1> SUFFICES ASSUME RedoInv, RedoInv', WaitInv, WaitInv', InsertInv, InsertInv', DiskInv, [Next]_vars PROVE DiskInv'
  OBVIOUS
<1>1. Procs \subseteq Everyone /\ WalWriter \in Everyone
  BY DEF Everyone
<1>2. ASSUME NEW p \in Procs, XLogInsertRecord(p) \/ XLogFlush(p) \/ AcquireOrWait(p) \/ FlushLocked(p) PROVE DiskInv'
  BY <1>1, <1>2, DiskSteps, DiskReserve, DiskSwitch, DiskGetBuffer, DiskCopy, DiskLookAgain, DiskXLogFlush, DiskAcquireOrWait,
     DiskFlushLocked DEF XLogInsertRecord
<1>3. ASSUME NEW p \in Everyone, WaitXLogInsertionsToFinish(p) \/ AdvanceXLInsertBuffer(p) \/ XLogWrite(p) PROVE DiskInv'
  BY <1>3, DiskSteps, DiskAdvance, DiskTakeWriteLock, DiskWritePage, DiskSyncFile, DiskPublishWrite, DiskPublishFlush
     DEF WaitXLogInsertionsToFinish, AdvanceXLInsertBuffer, XLogWrite
<1>4. CASE XLogBackgroundFlush \/ Done \/ UNCHANGED vars
  BY <1>1, <1>4, DiskSteps, StutterDiskInv DEF Done
<1> QED BY <1>2, <1>3, <1>4 DEF Next

\* What is finished and not written is in the buffers; the rest is on disk.
LEMMA DiskIntact ==
  ASSUME RedoInv, WaitInv, InsertInv, DiskInv
  PROVE  WalIntact
<1>1. logWriteResult \in Nat /\ logFlushResult \in Nat /\ logInsertResult \in Nat /\ Safe(logWriteResult, logFlushResult)
  BY DEF InsertInv, Bounds, WaitInv, PositionsOK, DiskInv, DiskOK
<1>2. 0..(logFlushResult - 1) \subseteq synced /\ 0..(logWriteResult - 1) \subseteq file
  <2>1. \A ptr \in 0..(logFlushResult - 1) : ptr \in Nat /\ ptr < logFlushResult
    BY <1>1
  <2>2. \A ptr \in 0..(logWriteResult - 1) : ptr \in Nat /\ ptr < logWriteResult
    BY <1>1
  <2> QED BY <1>1, <2>1, <2>2 DEF Safe
<1>3. ASSUME NEW ptr \in logWriteResult..(logInsertResult - 1) PROVE Good(ptr)
  <2>1. ptr \in Nat /\ logWriteResult <= ptr /\ ptr < logInsertResult
    BY <1>1
  <2>2. PICK x \in Nat : x = PageBegin(logWriteResult) /\ x <= logWriteResult
    BY <1>1, PageParts
  <2>3. x <= ptr
    BY <1>1, <2>1, <2>2
  <2> QED BY <2>1, <2>2, <2>3, FinishedGood
<1> QED BY <1>2, <1>3 DEF WalIntact, Good

\* The log holds what it says: up to logFlushResult on disk, up to logWriteResult in the files,
\* up to logInsertResult in the buffers or files, for any number of backends, buffers, pages and
\* records (WaitXLogInsertionsToFinish, AdvanceXLInsertBuffer, XLogWrite).
THEOREM WalIntactHolds == Spec => []WalIntact
<1>1. Init => RedoInv /\ WaitInv /\ InsertInv /\ DiskInv
  BY InitRedoInv, InitWaitInv, InitInsertInv, InitDiskInv
<1>2. RedoInv /\ WaitInv /\ InsertInv /\ DiskInv /\ [Next]_vars => (RedoInv /\ WaitInv /\ InsertInv /\ DiskInv)'
  BY NextRedoInv, NextWaitInv, NextInsertInv, NextDiskInv
<1>3. RedoInv /\ WaitInv /\ InsertInv /\ DiskInv => WalIntact
  BY DiskIntact
<1> QED BY <1>1, <1>2, <1>3, PTL DEF Spec

\* No check of GetXLogBuffer, XLogWrite or XLogFlush that ends in PANIC or ERROR ever fails.
THEOREM NoPanicHolds == Spec => []NoPanic
<1>1. Init => RedoInv /\ WaitInv /\ InsertInv /\ DiskInv
  BY InitRedoInv, InitWaitInv, InitInsertInv, InitDiskInv
<1>2. RedoInv /\ WaitInv /\ InsertInv /\ DiskInv /\ [Next]_vars => (RedoInv /\ WaitInv /\ InsertInv /\ DiskInv)'
  BY NextRedoInv, NextWaitInv, NextInsertInv, NextDiskInv
<1>3. RedoInv /\ WaitInv /\ InsertInv /\ DiskInv => NoPanic
  BY DEF DiskInv
<1> QED BY <1>1, <1>2, <1>3, PTL DEF Spec

(***************************************************************************)
(* The records.                                                            *)
(***************************************************************************)

\* Records lie behind one another in the reserved space, and a backend's own is not confused
\* with another's.
RecordsOK ==
  \A i \in DOMAIN records :
    /\ records[i].start < records[i].end /\ records[i].end <= End
    /\ \A j \in DOMAIN records : i < j => records[i].end <= records[j].start
OwnRecord(p) ==
  at[p] \notin Before =>
    /\ rec[p].start \in Nat /\ rec[p].start < NextPtr
    /\ \A i \in DOMAIN records : records[i].start = rec[p].start => records[i].end <= rec[p].end

\* Buffers and files hold reserved bytes and page headers; a byte in a file stays in its buffer
\* as long as that has the page, so it is not lost when the page is written again.
Bytes(S) == \A ptr \in S : ptr \in Nat /\ (ptr < End \/ InHeader(ptr))
Content ==
  /\ synced \subseteq file /\ Bytes(file)
  /\ \A ptr \in file : ptr < InitializedUpTo /\ (Mapped(ptr) => ptr \in buffer[BufIdx(ptr)])
  /\ \A i \in 0..(XLogBuffers - 1) : Bytes(buffer[i])

RecordInv == RecordsOK /\ Content /\ \A p \in Procs : OwnRecord(p)

\* What a step does to the log: bytes become durable, a flush that reached its record
\* returns, or a record is added whose bytes are not there yet.
Synced == UNCHANGED records /\ synced \subseteq synced'
Acks == /\ UNCHANGED synced
        /\ \E p \in Procs : /\ at[p] \notin Before /\ Acknowledged(rec[p].start) /\ rec[p].end \in Nat
                            /\ \A ptr \in Nat : ptr < rec[p].end => ptr \in synced
Adds == /\ UNCHANGED synced
        /\ \E entry \in Entries : /\ records' = Append(records, entry) /\ entry.acked = FALSE
                                  /\ entry.start < entry.end /\ entry.start \notin synced /\ entry.end <= Horizon
LogStep == Synced \/ Acks \/ Adds

\* A process keeps its record until it is idle again.
Owned(q) == \/ at'[q] \in Before
            \/ at[q] \notin Before /\ rec'[q].start = rec[q].start /\ rec'[q].end = rec[q].end

\* Neither records nor their owners change.
LEMMA RecordsKept ==
  ASSUME RecordInv, Kept, UNCHANGED CurrBytePos, \A q \in Procs : Owned(q), Content'
  PROVE  RecordInv'
<1>1. End' = End /\ NextPtr' = NextPtr
  BY DEF End, NextPtr
<1>2. RecordsOK'
  BY <1>1 DEF RecordInv, RecordsOK, Kept
<1>3. ASSUME NEW q \in Procs PROVE OwnRecord(q)'
  <2>1. OwnRecord(q) /\ Owned(q)
    BY DEF RecordInv
  <2> QED BY <1>1, <2>1 DEF OwnRecord, Owned, Kept
<1> QED BY <1>2, <1>3 DEF RecordInv

\* More space is reserved, or nothing happens to the bytes.
LEMMA ContentKept ==
  ASSUME Content, UNCHANGED <<InitializedUpTo, xlblocks, buffer, file, synced>>, End \in Nat, End' \in Nat, End <= End'
  PROVE  Content'
<1>1. ASSUME NEW ptr PROVE (Mapped(ptr)' <=> Mapped(ptr)) /\ (InHeader(ptr)' <=> InHeader(ptr)) /\ BufIdx(ptr)' = BufIdx(ptr)
  BY DEF Mapped, InHeader, BufIdx, PageOf, PageEnd, PageBegin, HeaderSize
<1>2. ASSUME NEW S, Bytes(S) PROVE Bytes(S)'
  BY <1>1, <1>2 DEF Bytes
<1>3. Bytes(file)' /\ \A i \in 0..(XLogBuffers - 1) : Bytes(buffer[i])'
  BY <1>2 DEF Content
<1> QED BY <1>1, <1>3 DEF Content

\* Steps that leave records, pages and files alone.
LEMMA RecordSteps ==
  ASSUME RedoInv, RecordInv, NEW p \in Everyone,
         \/ p \in Procs /\ (WALInsertLockBusy(p) \/ WALInsertLockAcquire(p) \/ WALInsertLockAcquireExclusive(p)
                            \/ GetXLogBuffer(p) \/ LookAgain(p) \/ WALInsertLockRelease(p) \/ Inserted(p) \/ AcquireOrWait(p))
         \/ WaitStart(p) \/ WaitForVar(p) \/ WaitEnd(p) \/ MapLock(p) \/ TakeWriteLock(p) \/ PublishWrite(p)
         \/ p = WalWriter /\ XLogBackgroundFlush
         \/ Advance(p) /\ UNCHANGED pages
         \/ UNCHANGED vars
  PROVE  RecordInv' /\ LogStep
<1>1. Distinct /\ Typed /\ End \in Nat
  BY XLogConstants, EndTyped DEF Everyone, RedoInv
<1>2. UNCHANGED <<CurrBytePos, InitializedUpTo, xlblocks, buffer, file, synced, records>> /\ \A q \in Procs : Owned(q)
  <2> USE <1>1 DEF Typed, Owned, Before
  <2>1. CASE p \in Procs /\ WALInsertLockBusy(p) BY <2>1 DEF WALInsertLockBusy
  <2>2. CASE p \in Procs /\ WALInsertLockAcquire(p) BY <2>2 DEF WALInsertLockAcquire
  <2>3. CASE p \in Procs /\ WALInsertLockAcquireExclusive(p) BY <2>3 DEF WALInsertLockAcquireExclusive
  <2>4. CASE p \in Procs /\ GetXLogBuffer(p) BY <2>4 DEF GetXLogBuffer
  <2>5. CASE p \in Procs /\ LookAgain(p) BY <2>5 DEF LookAgain
  <2>6. CASE p \in Procs /\ WALInsertLockRelease(p) BY <2>6 DEF WALInsertLockRelease
  <2>7. CASE p \in Procs /\ Inserted(p) BY <2>7 DEF Inserted
  <2>8. CASE p \in Procs /\ AcquireOrWait(p) BY <2>8 DEF AcquireOrWait
  <2>9. CASE WaitStart(p) BY <2>9 DEF WaitStart, AfterWait
  <2>10. CASE WaitForVar(p) BY <2>10 DEF WaitForVar
  <2>11. CASE WaitEnd(p) BY <2>11 DEF WaitEnd, AfterWait
  <2>12. CASE MapLock(p) BY <2>12 DEF MapLock
  <2>13. CASE TakeWriteLock(p) BY <2>13 DEF TakeWriteLock
  <2>14. CASE PublishWrite(p) BY <2>14 DEF PublishWrite
  <2>15. CASE p = WalWriter /\ XLogBackgroundFlush BY <2>15 DEF XLogBackgroundFlush, CallWait
  <2>16. CASE Advance(p) /\ UNCHANGED pages BY <2>16 DEF Advance, CallWait, Opportunistic
  <2>17. CASE UNCHANGED vars BY <2>17 DEF vars
  <2> QED BY <2>1, <2>2, <2>3, <2>4, <2>5, <2>6, <2>7, <2>8, <2>9, <2>10, <2>11, <2>12, <2>13, <2>14, <2>15, <2>16, <2>17
<1>3. End' = End
  BY <1>2 DEF End
<1>4. Content'
  BY <1>1, <1>2, <1>3, ContentKept DEF RecordInv
<1> QED BY <1>1, <1>2, <1>4, SameRecords, RecordsKept DEF LogStep, Synced

\* The return of XLogFlush acknowledges a record that is on disk.
LEMMA RecordReturns ==
  ASSUME RedoInv, InsertInv, DiskInv, DiskInv', RecordInv, NEW p \in Everyone,
         (p \in Procs /\ (XLogFlush(p) \/ FlushLocked(p))) \/ PublishFlush(p)
  PROVE  RecordInv' /\ LogStep
<1>1. Distinct /\ Typed /\ End \in Nat /\ p \in Everyone
  BY XLogConstants, EndTyped DEF Everyone, RedoInv
<1>2. /\ Writer(p) /\ Waiter(p) /\ DiskOK /\ Bounds /\ at'[p] \notin {"panic", "unsatisfied"} /\ (p \in Procs => Insertion(p) /\ Proc(p))
  BY <1>1 DEF DiskInv, InsertInv, NoPanic, RedoInv
<1>3. UNCHANGED <<CurrBytePos, InitializedUpTo, xlblocks, buffer, file, synced>>
  <2>1. CASE p \in Procs /\ XLogFlush(p) BY <2>1 DEF XLogFlush
  <2>2. CASE p \in Procs /\ FlushLocked(p) BY <2>2 DEF FlushLocked
  <2>3. CASE PublishFlush(p) BY <2>3 DEF PublishFlush
  <2> QED BY <2>1, <2>2, <2>3
<1>4. at[p] \in {"flush", "flushLocked", "publishFlush"} /\ (caller[p] = "flush" => p \in Procs) /\ (at[p] = "flush" => p \in Procs)
  BY <1>2 DEF XLogFlush, FlushLocked, PublishFlush, Bounds, Everyone
<1>5. Kept /\ \A q \in Procs : Owned(q)
  <2>1. records' = records \/ Acknowledged(rec[p].start)
    BY DEF XLogFlush, FlushLocked, PublishFlush, FlushReturns, Acknowledged
  <2>2. Kept
    BY <1>1, <2>1, SameRecords, AcknowledgedKept
  <2>3. ASSUME NEW q \in Procs PROVE Owned(q)
    <3> USE <1>1, <1>4 DEF Typed, Owned, Before
    <3>1. CASE p \in Procs /\ XLogFlush(p) BY <3>1 DEF XLogFlush, FlushReturns, CallWait
    <3>2. CASE p \in Procs /\ FlushLocked(p) BY <3>2 DEF FlushLocked, FlushReturns
    <3>3. CASE PublishFlush(p) BY <3>3 DEF PublishFlush, FlushReturns
    <3> QED BY <3>1, <3>2, <3>3
  <2> QED BY <2>2, <2>3
<1>6. ASSUME records' # records PROVE Acks
  <2>1. p \in Procs /\ at[p] \notin Before /\ rec[p].end \in Nat
    <3>1. p \in Procs
      BY <1>4, <1>6 DEF PublishFlush
    <3> QED BY <1>2, <1>4, <3>1 DEF Insertion, Before
  <2>2. Acknowledged(rec[p].start)
    BY <1>6 DEF XLogFlush, FlushLocked, PublishFlush, FlushReturns, Acknowledged
  <2>3. logFlushResult \in Nat /\ LogwrtResult[p].flush \in Nat
    BY <1>2 DEF Bounds, Waiter
  <2>4. PICK f \in Nat : rec[p].end <= f /\ \A ptr \in Nat : ptr < f => ptr \in synced
    <3>1. \A ptr \in Nat : ptr < logFlushResult => ptr \in synced
      BY <1>2 DEF DiskOK, Safe
    <3>2. CASE XLogFlush(p)
      <4>1. LogwrtResult[p].flush <= logFlushResult
        BY <1>2, <3>2 DEF Writer, Writes, XLogFlush
      <4>2. rec[p].end <= LogwrtResult[p].flush \/ rec[p].end <= logFlushResult
        BY <1>6, <3>2 DEF XLogFlush
      <4>3. rec[p].end <= logFlushResult
        BY <2>1, <2>3, <4>1, <4>2
      <4> QED BY <2>3, <3>1, <4>3
    <3>3. CASE FlushLocked(p)
      <4>1. rec[p].end <= logFlushResult
        BY <1>6, <3>3 DEF FlushLocked
      <4> QED BY <2>3, <3>1, <4>1
    <3>4. CASE PublishFlush(p)
      <4>1. at[p] = "publishFlush" /\ caller[p] = "flush"
        BY <1>6, <3>4 DEF PublishFlush
      <4>2. rec[p].end <= LogwrtResult[p].flush /\ \A ptr \in Nat : ptr < LogwrtResult[p].flush => ptr \in synced
        BY <1>2, <4>1 DEF Writer, Writes, Safe
      <4> QED BY <2>3, <4>2
    <3> QED BY <3>2, <3>3, <3>4
  <2>5. \A ptr \in Nat : ptr < rec[p].end => ptr \in synced
    BY <2>1, <2>4
  <2> QED BY <1>3, <2>1, <2>2, <2>5 DEF Acks
<1>7. LogStep
  BY <1>3, <1>6 DEF LogStep, Synced
<1>8. End' = End
  BY <1>3 DEF End
<1>9. Content'
  BY <1>1, <1>3, <1>8, ContentKept DEF RecordInv
<1> QED BY <1>3, <1>5, <1>7, <1>9, RecordsKept

\* CopyXLogRecordToWAL puts reserved bytes into its buffer.
LEMMA RecordCopy ==
  ASSUME RedoInv, WaitInv, InsertInv, DiskInv, RecordInv, NEW p \in Procs, Copy(p)
  PROVE  RecordInv' /\ LogStep
<1>1. /\ Distinct /\ Typed /\ End \in Nat /\ p \in Everyone /\ Proc(p) /\ Insertion(p) /\ OnItsPage(p) /\ PagesOK /\ Content
  BY XLogConstants, EndTyped DEF Everyone, RedoInv, InsertInv, DiskInv, RecordInv
<1>2. UNCHANGED <<CurrBytePos, InitializedUpTo, xlblocks, file, synced, records>> /\ at[p] = "copy"
  BY DEF Copy
<1>3. HasSpace(p) /\ "copy" \notin Before
  BY <1>1, <1>2 DEF Proc, HasSpace, Inserts, Free, Flushing, Before
<1>4. PICK c \in Nat, left \in Nat, end \in Nat, kind \in {Job(p).kind} :
        /\ c = rec[p].curr /\ left = rec[p].left /\ end = rec[p].end /\ kind = Job(p).kind
        /\ Ahead(c, left, end, kind) /\ end <= End
  BY <1>1, <1>2, <1>3, SpaceTyped DEF Insertion
<1>5. PICK from, n, rest, to :
        /\ from = From(c) /\ n = Smaller(left, PageEnd(c) - from) /\ rest = left - n
        /\ to = IF rest = 0 /\ kind = "switch" THEN PageEnd(c) ELSE from + n
  OBVIOUS
<1>6. cachedPage[p] % XLogBuffers = BufIdx(c) /\ BufIdx(c) \in 0..(XLogBuffers - 1)
  BY <1>1, <1>2, <1>4, BufferNumber DEF OnItsPage, BufIdx
<1>7. /\ rec' = [rec EXCEPT ![p].curr = to, ![p].left = rest]
      /\ buffer' = [buffer EXCEPT ![BufIdx(c)] = @ \union from..(to - 1)]
      /\ \A q \in Procs \ {p} : at'[q] = at[q]
  BY <1>1, <1>4, <1>5, <1>6 DEF Copy, From, Typed
<1>8. from \in Nat /\ to \in Nat /\ to <= end
  BY <1>4, <1>5, CopyMoves
<1>9. \A q \in Procs : Owned(q)
  <2>1. DOMAIN rec[p] = {"start", "end", "curr", "left"}
    BY <1>3, SpaceTyped
  <2>2. rec'[p].start = rec[p].start /\ rec'[p].end = rec[p].end /\ \A q \in Procs \ {p} : rec'[q] = rec[q]
    BY <1>1, <1>7, <2>1 DEF Typed
  <2> QED BY <1>2, <1>3, <1>7, <2>2 DEF Owned
<1>10. \A i \in 0..(XLogBuffers - 1) : buffer'[i] = IF i = BufIdx(c) THEN buffer[i] \union from..(to - 1) ELSE buffer[i]
  BY <1>1, <1>7 DEF PagesOK
<1>11. ASSUME NEW ptr PROVE (Mapped(ptr)' <=> Mapped(ptr)) /\ (InHeader(ptr)' <=> InHeader(ptr)) /\ BufIdx(ptr)' = BufIdx(ptr)
  BY <1>2 DEF Mapped, InHeader, BufIdx, PageOf, PageEnd, PageBegin, HeaderSize
<1>12. ASSUME NEW S, Bytes(S) PROVE Bytes(S)' /\ Bytes(S \union from..(to - 1))'
  <2>1. End' = End /\ \A ptr \in from..(to - 1) : ptr \in Nat /\ ptr < End
    BY <1>1, <1>2, <1>4, <1>8 DEF End
  <2> QED BY <1>11, <1>12, <2>1 DEF Bytes
<1>13. Content'
  <2>1. Bytes(file)' /\ \A i \in 0..(XLogBuffers - 1) : Bytes(buffer[i])'
    BY <1>1, <1>2, <1>10, <1>12 DEF Content
  <2>2. ASSUME NEW ptr \in file, Mapped(ptr) PROVE ptr \in buffer'[BufIdx(ptr)]
    <3>1. ptr \in buffer[BufIdx(ptr)] /\ BufIdx(ptr) \in 0..(XLogBuffers - 1)
      BY <1>1, <2>2, BufferNumber DEF Content, Bytes
    <3> QED BY <1>10, <3>1
  <2> QED BY <1>1, <1>2, <1>11, <2>1, <2>2 DEF Content
<1> QED BY <1>1, <1>2, <1>9, <1>13, SameRecords, RecordsKept DEF LogStep, Synced

\* AdvanceXLInsertBuffer gives a buffer to a page that no file has anything of.
LEMMA RecordInitialize ==
  ASSUME RedoInv, WaitInv, DiskInv, RecordInv, InitializePage, UNCHANGED <<CurrBytePos, file, synced>>
  PROVE  Content'
<1>1. PICK I \in Nat, B \in Nat \ {0}, H \in Nat : I = InitializedUpTo /\ B = XLOG_BLCKSZ /\ H = HeaderSize(I) /\ H < B
  BY Sizes, HeaderBounds DEF WaitInv, PositionsOK
<1>2. I % XLOG_BLCKSZ = 0 /\ PositionsOK /\ PagesOK /\ Content
  BY <1>1 DEF WaitInv, PositionsOK, DiskInv, RecordInv
<1>3. PICK idx \in 0..(XLogBuffers - 1) : idx = BufIdx(I)
  BY BufferNumber
<1>4. /\ buffer'[idx] = I..(I + H - 1) /\ xlblocks'[idx] = I + B /\ InitializedUpTo' = I + B
      /\ \A i \in 0..(XLogBuffers - 1) : i # idx => buffer'[i] = buffer[i] /\ xlblocks'[i] = xlblocks[i]
  BY <1>1, <1>2, <1>3 DEF InitializePage, PositionsOK, PagesOK
<1>5. End' = End
  BY DEF End
<1>6. ASSUME NEW ptr PROVE /\ InHeader(ptr)' <=> InHeader(ptr)
                           /\ BufIdx(ptr)' = BufIdx(ptr) /\ Mapped(ptr)' <=> xlblocks'[BufIdx(ptr)] = PageEnd(ptr)
  BY DEF Mapped, InHeader, BufIdx, PageOf, PageEnd, PageBegin, HeaderSize
<1>7. ASSUME NEW S, Bytes(S) PROVE Bytes(S)'
  BY <1>5, <1>6, <1>7 DEF Bytes
<1>8. ASSUME NEW ptr \in I..(I + H - 1) PROVE ptr \in Nat /\ InHeader(ptr)
  <2>1. PICK x \in Nat : ptr = I + x /\ x < H
    <3>1. ptr - I \in Nat /\ ptr = I + (ptr - I) /\ ptr - I < H
      BY <1>1
    <3> QED BY <3>1
  <2>2. ptr % XLOG_BLCKSZ = x /\ HeaderSize(ptr) = H
    BY <1>1, <1>2, <2>1, BehindBegin
  <2> QED BY <2>1, <2>2 DEF InHeader
<1>9. ASSUME NEW i \in 0..(XLogBuffers - 1) PROVE Bytes(buffer[i])'
  <2>1. CASE i = idx
    BY <1>4, <1>6, <1>8, <2>1 DEF Bytes
  <2>2. CASE i # idx
    BY <1>2, <1>4, <1>7, <2>2 DEF Content
  <2> QED BY <2>1, <2>2
<1>10. ASSUME NEW ptr \in file PROVE ptr < InitializedUpTo' /\ (Mapped(ptr)' => ptr \in buffer'[BufIdx(ptr)])
  <2>1. ptr \in Nat /\ ptr < I /\ BufIdx(ptr) \in 0..(XLogBuffers - 1) /\ (Mapped(ptr) => ptr \in buffer[BufIdx(ptr)])
    BY <1>1, <1>2, BufferNumber DEF Content, Bytes
  <2>2. PageEnd(ptr) \in Nat /\ PageEnd(ptr) <= I
    BY <1>2, <2>1, PagesApart, PageParts
  <2>3. PageEnd(ptr) # I + B
    BY <2>2
  <2>4. Mapped(ptr)' => BufIdx(ptr) # idx /\ Mapped(ptr)
    BY <1>4, <1>6, <2>1, <2>3 DEF Mapped
  <2> QED BY <1>1, <1>4, <2>1, <2>4
<1>11. Bytes(file)' /\ synced' \subseteq file'
  BY <1>2, <1>7 DEF Content
<1> QED BY <1>6, <1>9, <1>10, <1>11 DEF Content

\* An fsync makes more of what is in the files durable.
LEMMA FsyncedGrows ==
  ASSUME NEW content, NEW ptr, synced \subseteq content
  PROVE  synced \subseteq Fsynced(content, ptr) /\ Fsynced(content, ptr) \subseteq content
BY DEF Fsynced

\* XLogWrite: a page that is written again has all that the file had.
LEMMA RecordWritePage ==
  ASSUME RedoInv, WaitInv, InsertInv, DiskInv, RecordInv, NEW p \in Everyone, WritePage(p)
  PROVE  Content' /\ synced \subseteq synced'
<1>1. /\ Bounds /\ Writer(p) /\ Waiter(p) /\ PositionsOK /\ Content
  BY DEF WaitInv, InsertInv, DiskInv, RecordInv
<1>2. at[p] = "write" /\ UNCHANGED <<InitializedUpTo, xlblocks, buffer, CurrBytePos>>
  BY DEF WritePage
<1>3. PICK w \in Nat : w = LogwrtResult[p].write /\ logWriteResult <= w /\ w < logInsertResult
  <2>1. LogwrtResult[p].write \in Nat /\ logWriteResult <= LogwrtResult[p].write /\ rqst[p].write \in Nat
        /\ rqst[p].write <= logInsertResult /\ LogwrtResult[p].write < rqst[p].write
    BY <1>1, <1>2 DEF Writer, Writes, Waiter, Requesting, WritePage
  <2> QED BY <1>1, <2>1 DEF PositionsOK
<1>4. PICK begin \in Nat, end \in Nat, B \in Nat \ {0} : begin = PageBegin(w) /\ end = PageEnd(w) /\ B = XLOG_BLCKSZ /\ end = begin + B
  <2>1. PageBegin(w) \in Nat /\ PageEnd(w) \in Nat /\ PageEnd(w) = PageBegin(w) + XLOG_BLCKSZ /\ XLOG_BLCKSZ \in Nat \ {0}
    BY PageParts, Sizes
  <2> QED BY <2>1
<1>5. BufIdx(w) \in 0..(XLogBuffers - 1) /\ xlblocks[BufIdx(w)] = end /\ end <= InitializedUpTo /\ InitializedUpTo \in Nat
  <2>1. PICK x \in Nat : x = PageBegin(logWriteResult) /\ x <= logWriteResult /\ logWriteResult \in Nat
    BY <1>1, PageParts DEF Bounds
  <2>2. x <= w
    BY <1>3, <2>1
  <2>3. Good(w)
    BY <1>3, <2>1, <2>2, FinishedGood
  <2> QED BY <1>1, <1>4, <2>3, BufferNumber DEF Good, Mapped, PositionsOK
<1>6. ASSUME NEW ptr \in begin..(end - 1)
      PROVE  ptr \in Nat /\ ptr < InitializedUpTo /\ Mapped(ptr) /\ BufIdx(ptr) = BufIdx(w)
  <2>1. ptr \in Nat /\ begin <= ptr /\ ptr < end /\ ptr < InitializedUpTo
    BY <1>4, <1>5
  <2>2. BufIdx(ptr) = BufIdx(w) /\ PageEnd(ptr) = end
    BY <1>4, <2>1, SamePage
  <2> QED BY <1>5, <2>1, <2>2 DEF Mapped
<1>7. file' = file \/ file' = (file \ begin..(end - 1)) \union (buffer[BufIdx(w)] \intersect begin..(end - 1))
  <2>1. end - B = begin
    BY <1>4
  <2> QED BY <1>3, <1>4, <1>5, <2>1 DEF WritePage, PageWritten
<1>8. ASSUME NEW ptr \in file PROVE ptr \in file'
  <2>1. ptr \in begin..(end - 1) => ptr \in buffer[BufIdx(w)]
    BY <1>1, <1>6 DEF Content
  <2> QED BY <1>7, <2>1
<1>9. synced \subseteq synced' /\ synced' \subseteq file'
  <2>1. synced \subseteq file'
    BY <1>1, <1>8 DEF Content
  <2>2. synced' = synced \/ \E x : synced' = Fsynced(file', x)
    BY DEF WritePage
  <2> QED BY <2>1, <2>2, FsyncedGrows
<1>10. End' = End /\ \A ptr : (InHeader(ptr)' <=> InHeader(ptr)) /\ (Mapped(ptr)' <=> Mapped(ptr)) /\ BufIdx(ptr)' = BufIdx(ptr)
  BY <1>2 DEF End, Mapped, InHeader, BufIdx, PageOf, PageEnd, PageBegin, HeaderSize
<1>11. ASSUME NEW ptr \in file'
       PROVE  /\ ptr \in Nat /\ (ptr < End \/ InHeader(ptr))
              /\ ptr < InitializedUpTo /\ (Mapped(ptr) => ptr \in buffer[BufIdx(ptr)])
  <2>1. CASE ptr \in file
    BY <1>1, <2>1 DEF Content, Bytes
  <2>2. CASE ptr \in buffer[BufIdx(w)] /\ ptr \in begin..(end - 1)
    BY <1>1, <1>5, <1>6, <2>2 DEF Content, Bytes
  <2> QED BY <1>7, <2>1, <2>2
<1>12. Content'
  BY <1>1, <1>2, <1>9, <1>10, <1>11 DEF Content, Bytes
<1> QED BY <1>9, <1>12

\* AdvanceXLInsertBuffer and XLogWrite keep the records.
LEMMA RecordPages ==
  ASSUME RedoInv, WaitInv, InsertInv, DiskInv, RecordInv, NEW p \in Everyone, Advance(p) \/ WritePage(p) \/ SyncFile(p)
  PROVE  RecordInv' /\ LogStep
<1>1. Distinct /\ Typed /\ Content /\ End \in Nat
  BY XLogConstants, EndTyped DEF Everyone, RedoInv, RecordInv
<1>2. CASE Advance(p)
  <2>1. CASE UNCHANGED pages
    BY <1>2, <2>1, RecordSteps
  <2>2. CASE InitializePage /\ UNCHANGED at
    <3>1. UNCHANGED <<CurrBytePos, file, synced, records, rec>>
      BY <1>2 DEF Advance
    <3>2. Content' /\ \A q \in Procs : Owned(q)
      BY <2>2, <3>1, RecordInitialize DEF Owned
    <3> QED BY <1>1, <3>1, <3>2, SameRecords, RecordsKept DEF LogStep, Synced
  <2> QED BY <1>2, <2>1, <2>2 DEF Advance
<1>3. CASE WritePage(p) \/ SyncFile(p)
  <2>1. UNCHANGED <<CurrBytePos, records, rec>> /\ \A q \in Procs : Owned(q)
    <3> USE <1>1 DEF Typed, Owned, Before
    <3>1. CASE WritePage(p) BY <3>1 DEF WritePage
    <3>2. CASE SyncFile(p) BY <3>2 DEF SyncFile
    <3> QED BY <1>3, <3>1, <3>2
  <2>2. Content' /\ synced \subseteq synced'
    <3>1. CASE WritePage(p)
      BY <3>1, RecordWritePage
    <3>2. CASE SyncFile(p)
      <4>1. UNCHANGED <<CurrBytePos, InitializedUpTo, xlblocks, buffer, file>>
        BY <3>2 DEF SyncFile
      <4>2. synced' = synced \/ \E x : synced' = Fsynced(file, x)
        BY <3>2 DEF SyncFile
      <4>3. synced \subseteq synced' /\ synced' \subseteq file
        BY <1>1, <4>2, FsyncedGrows DEF Content
      <4>4. End' = End /\ \A ptr : (InHeader(ptr)' <=> InHeader(ptr)) /\ (Mapped(ptr)' <=> Mapped(ptr)) /\ BufIdx(ptr)' = BufIdx(ptr)
        BY <4>1 DEF End, Mapped, InHeader, BufIdx, PageOf, PageEnd, PageBegin, HeaderSize
      <4> QED BY <1>1, <4>1, <4>3, <4>4 DEF Content, Bytes
    <3> QED BY <1>3, <3>1, <3>2
  <2> QED BY <1>1, <2>1, <2>2, SameRecords, RecordsKept DEF LogStep, Synced
<1> QED BY <1>2, <1>3

\* The next record starts behind the reserved space and behind a page header, and is not empty.
LEMMA StartOfNext ==
  ASSUME NEW b \in Nat, NEW next \in Nat, b < next
  PROVE  XLogBytePosToRecPtr(b) < XLogBytePosToEndRecPtr(next) /\ ~InHeader(XLogBytePosToRecPtr(b))
<1>1. PICK begin, h, o \in Nat : Place(b, begin, h, o)
  BY EveryPlace
<1>2. PICK c \in Nat : c = XLogBytePosToRecPtr(b) /\ c = begin + h + o /\ PageBegin(c) = begin /\ h = HeaderSize(c)
  <2>1. PICK c : c = XLogBytePosToRecPtr(b) /\ c \in {XLogBytePosToRecPtr(b), XLogBytePosToEndRecPtr(b)}
    OBVIOUS
  <2>2. c \in Nat /\ PageBegin(c) = begin /\ h = HeaderSize(c)
    BY <1>1, <2>1, PlacePart
  <2> QED BY <1>1, <2>1, <2>2 DEF Place
<1>3. XLogBytePosToEndRecPtr(b + 1) = c + 1
  <2>1. h + o + 1 <= XLOG_BLCKSZ
    BY <1>1, Sizes DEF Place
  <2> QED BY <1>1, <1>2, <2>1 DEF Place
<1>4. XLogBytePosToEndRecPtr(b + 1) <= XLogBytePosToEndRecPtr(next) /\ XLogBytePosToEndRecPtr(next) \in Nat
  BY PointersMonotone
<1>5. c % XLOG_BLCKSZ \in Nat /\ c = begin + (c % XLOG_BLCKSZ)
  BY <1>2, PageParts
<1>6. PICK x \in Nat : x = c % XLOG_BLCKSZ /\ c = begin + x
  BY <1>5
<1>7. ~(x < h)
  BY <1>2, <1>6
<1>8. ~InHeader(c)
  BY <1>2, <1>6, <1>7 DEF InHeader
<1>9. c < XLogBytePosToEndRecPtr(next)
  BY <1>3, <1>4
<1> QED BY <1>2, <1>8, <1>9

\* A reservation adds a record at the end, and none of its bytes is anywhere yet.
LEMMA ReservedRecords ==
  ASSUME RedoInv, RedoInv', RecordInv, NEW p \in Procs, NEW next, NEW end, Reserved(p, next, end),
         XLogBytePosToEndRecPtr(next) = end, end <= Horizon,
         UNCHANGED <<InitializedUpTo, xlblocks, buffer, file, synced>>
  PROVE  RecordInv' /\ LogStep
<1>1. /\ Distinct /\ Typed /\ Typed' /\ Ordered /\ Content /\ RecordsOK /\ Proc(p) /\ \A q \in Procs : OwnRecord(q)
  BY XLogConstants DEF Everyone, RedoInv, RecordInv
<1>2. /\ records' \in Seq(Entries) /\ NextPtr \in Nat /\ NextPtr' \in Nat /\ NextPtr < NextPtr' /\ end \in Nat
  BY ReservedRecord
<1>3. PICK n \in Nat : OneMore(p, n, end)
  BY ReservedRecord
<1>4. End \in Nat /\ End' = end /\ End <= NextPtr /\ NextPtr < end /\ ~InHeader(NextPtr)
  <2>1. Job(p) \in Jobs /\ CurrBytePos \in Nat
    BY <1>1, JobsLeft DEF Proc, Typed, Reserved
  <2>2. PICK b \in Nat, len \in Nat \ {0} : b = CurrBytePos /\ len = Job(p).len
    BY <2>1 DEF Jobs
  <2>3. next \in Nat /\ b < next
    BY <2>2, ReservesLater DEF Reserved
  <2>4. XLogBytePosToEndRecPtr(b) \in Nat /\ XLogBytePosToEndRecPtr(b) <= XLogBytePosToRecPtr(b)
    BY PointersMonotone
  <2> QED BY <2>2, <2>3, <2>4, StartOfNext DEF End, NextPtr, Reserved
<1>5. NextPtr \notin synced
  BY <1>1, <1>2, <1>4 DEF Content, Bytes
<1>6. Content'
  BY <1>1, <1>2, <1>4, ContentKept
<1>7. /\ DOMAIN records = 1..n /\ DOMAIN records' = 1..(n + 1)
      /\ \A i \in 1..n : /\ records'[i] = records[i] /\ records[i].start \in Nat /\ records[i].end \in Nat
                         /\ records[i].start < NextPtr /\ records[i].start < records[i].end /\ records[i].end <= End
                         /\ \A j \in 1..n : i < j => records[i].end <= records[j].start
      /\ records'[n + 1].start = NextPtr /\ records'[n + 1].end = end
  BY <1>1, <1>3 DEF OneMore, Entries, RecordsOK, Ordered
<1>8. RecordsOK'
  <2>1. ASSUME NEW i \in 1..(n + 1)
        PROVE  /\ records'[i].start < records'[i].end /\ records'[i].end <= end
               /\ \A j \in 1..(n + 1) : i < j => records'[i].end <= records'[j].start
    <3>1. CASE i = n + 1
      BY <1>2, <1>4, <1>7, <3>1
    <3>2. CASE i \in 1..n
      <4>1. records[i].end <= NextPtr /\ records[i].end <= end
        BY <1>2, <1>4, <1>7, <3>2
      <4>2. ASSUME NEW j \in 1..(n + 1), i < j PROVE records'[i].end <= records'[j].start
        <5>1. j = n + 1 \/ j \in 1..n
          OBVIOUS
        <5> QED BY <1>7, <3>2, <4>1, <4>2, <5>1
      <4> QED BY <1>7, <3>2, <4>1, <4>2
    <3>3. i = n + 1 \/ i \in 1..n
      OBVIOUS
    <3> QED BY <3>1, <3>2, <3>3
  <2> QED BY <1>4, <1>7, <2>1 DEF RecordsOK
<1>9. ASSUME NEW q \in Procs PROVE OwnRecord(q)'
  <2>1. CASE q = p
    <3>1. rec'[q].start = NextPtr /\ rec'[q].end = end
      BY <1>1, <2>1 DEF Reserved, Typed
    <3>2. ASSUME NEW i \in 1..(n + 1), records'[i].start = NextPtr PROVE records'[i].end <= end
      <4>1. i = n + 1 \/ i \in 1..n
        OBVIOUS
      <4>2. i \notin 1..n
        BY <1>2, <1>7, <3>2
      <4> QED BY <1>2, <1>7, <4>1, <4>2
    <3> QED BY <1>2, <1>7, <3>1, <3>2 DEF OwnRecord
  <2>2. CASE q # p
    <3>1. at'[q] = at[q] /\ rec'[q] = rec[q] /\ OwnRecord(q)
      BY <1>1, <2>2 DEF Reserved, Typed
    <3> SUFFICES ASSUME at[q] \notin Before
                 PROVE  /\ rec[q].start \in Nat /\ rec[q].start < NextPtr'
                        /\ \A i \in 1..(n + 1) : records'[i].start = rec[q].start => records'[i].end <= rec[q].end
      BY <1>7, <3>1 DEF OwnRecord
    <3>2. rec[q].start \in Nat /\ rec[q].start < NextPtr
      BY <3>1 DEF OwnRecord
    <3>3. ASSUME NEW i \in 1..(n + 1), records'[i].start = rec[q].start PROVE records'[i].end <= rec[q].end
      <4>1. i \in 1..n
        <5>1. i = n + 1 \/ i \in 1..n
          OBVIOUS
        <5> QED BY <1>2, <1>7, <3>2, <3>3, <5>1
      <4> QED BY <1>7, <3>1, <3>3, <4>1 DEF OwnRecord
    <3> QED BY <1>2, <3>2, <3>3
  <2> QED BY <2>1, <2>2
<1>10. Adds
  <2>1. PICK pg \in Procs \union {None}, img \in BOOLEAN : pg = (IF Exclusive(p) THEN None ELSE p) /\ img = rec[p].image
    BY <1>1 DEF Proc, Reserved
  <2>2. PICK entry \in Entries : entry = [start |-> NextPtr, end |-> end, page |-> pg, image |-> img, acked |-> FALSE]
    BY <1>2 DEF Entries
  <2>3. records' = Append(records, entry) /\ entry.start = NextPtr /\ entry.end = end /\ entry.acked = FALSE
    BY <2>1, <2>2 DEF Reserved
  <2> QED BY <1>4, <1>5, <2>3 DEF Adds
<1> QED BY <1>6, <1>8, <1>9, <1>10 DEF RecordInv, LogStep

\* ReserveXLogInsertLocation and ReserveXLogSwitch.
LEMMA RecordReserve ==
  ASSUME RedoInv, RedoInv', RecordInv, NEW p \in Procs, ReserveXLogInsertLocation(p) \/ ReserveXLogSwitch(p)
  PROVE  RecordInv' /\ LogStep
<1>1. Distinct /\ Typed /\ Proc(p) /\ at[p] = "reserve" /\ Content /\ RecordsOK /\ End \in Nat
  BY XLogConstants, EndTyped DEF Everyone, RedoInv, RecordInv, ReserveXLogInsertLocation, ReserveXLogSwitch
<1>2. /\ UNCHANGED <<insertLock, caller, todo, lockNo, doPageWrites, pageLSN>>
      /\ UNCHANGED <<InitializedUpTo, xlblocks, buffer, file, synced>>
  BY DEF ReserveXLogInsertLocation, ReserveXLogSwitch
<1>3. \/ UNCHANGED <<RedoRecPtr, redo>>
      \/ Exclusive(p) /\ RedoRecPtr' = NextPtr /\ redo' = [redo EXCEPT ![p] = NextPtr]
  BY DEF ReserveXLogInsertLocation, ReserveXLogSwitch, Exclusive, NextPtr
<1>4. ASSUME NEW next, NEW end, Reserve(p, next, end), Reserves(CurrBytePos, Job(p).len, next, end) PROVE Reserved(p, next, end)
  BY <1>1, <1>2, <1>3, <1>4 DEF Reserved, Reserve, NextPtr
<1>5. CASE ReserveXLogInsertLocation(p)
  <2>1. PICK next, end : /\ next = CurrBytePos + Job(p).len /\ end = XLogBytePosToEndRecPtr(next)
                         /\ Reserve(p, next, end) /\ end <= Horizon
    BY <1>5 DEF ReserveXLogInsertLocation
  <2>2. Reserved(p, next, end)
    BY <1>4, <2>1 DEF Reserves
  <2> QED BY <1>2, <2>1, <2>2, ReservedRecords
<1>6. CASE ReserveXLogSwitch(p) /\ End % SegSize # 0
  <2>1. PICK next, end, e :
          /\ e = XLogBytePosToEndRecPtr(CurrBytePos + Job(p).len)
          /\ end = IF e % SegSize = 0 THEN e ELSE e - (e % SegSize) + SegSize
          /\ next = XLogRecPtrToBytePos(end) /\ Reserve(p, next, end) /\ end <= Horizon
    BY <1>6 DEF ReserveXLogSwitch, End
  <2>2. Reserved(p, next, end)
    BY <1>4, <1>6, <2>1 DEF Reserves, End
  <2>3. e \in Nat
    <3>1. Job(p) \in Jobs
      BY <1>1, JobsLeft DEF Proc
    <3>2. CurrBytePos + Job(p).len \in Nat
      BY <1>1, <3>1 DEF Typed, Jobs
    <3> QED BY <2>1, <3>2, PointersMonotone
  <2>4. PICK s \in Nat : end = s * SegSize
    BY <2>1, <2>3, SegmentMultiple
  <2>5. XLogBytePosToEndRecPtr(next) = end
    BY <2>1, <2>4, SegmentEnd
  <2> QED BY <1>2, <2>1, <2>2, <2>5, ReservedRecords
<1>7. CASE ReserveXLogSwitch(p) /\ End % SegSize = 0
  <2>1. /\ rec' = [rec EXCEPT ![p] = [start |-> End, end |-> End, curr |-> End, left |-> 0]]
        /\ at' = [at EXCEPT ![p] = "release"] /\ UNCHANGED <<CurrBytePos, records>>
    BY <1>7 DEF ReserveXLogSwitch, End
  <2>2. End' = End /\ NextPtr' = NextPtr
    BY <2>1 DEF End, NextPtr
  <2>3. NextPtr \in Nat /\ End < NextPtr
    <3>1. PICK b \in Nat : b = CurrBytePos /\ b + 1 \in Nat /\ b < b + 1
      BY <1>1 DEF Typed
    <3>2. NextPtr \in Nat /\ End <= NextPtr /\ ~InHeader(NextPtr)
      BY <3>1, PointersMonotone, StartOfNext DEF NextPtr, End
    <3>3. End % XLOG_BLCKSZ = 0 /\ HeaderSize(End) \in Nat \ {0}
      BY <1>1, <1>7, SegmentOfPages, HeaderBounds
    <3>4. InHeader(End)
      BY <3>3 DEF InHeader
    <3> QED BY <1>1, <3>2, <3>4
  <2>4. RecordsOK' /\ Content'
    BY <1>1, <1>2, <2>1, <2>2, ContentKept DEF RecordsOK
  <2>5. ASSUME NEW q \in Procs PROVE OwnRecord(q)'
    <3>1. CASE q = p
      <4>1. rec'[q].start = End /\ rec'[q].end = End
        BY <1>1, <2>1, <3>1 DEF Typed
      <4>2. ASSUME NEW i \in DOMAIN records, records[i].start = End PROVE FALSE
        <5>1. records[i].start \in Nat /\ records[i].end \in Nat
          <6>1. records[i] \in Entries
            BY <1>1 DEF Typed
          <6> QED BY <6>1 DEF Entries
        <5> QED BY <1>1, <4>2, <5>1 DEF RecordsOK
      <4> QED BY <1>1, <2>1, <2>2, <2>3, <4>1, <4>2 DEF OwnRecord
    <3>2. CASE q # p
      <4>1. at'[q] = at[q] /\ rec'[q] = rec[q] /\ OwnRecord(q)
        BY <1>1, <2>1, <3>2 DEF Typed, RecordInv
      <4> QED BY <2>1, <2>2, <4>1 DEF OwnRecord
    <3> QED BY <3>1, <3>2
  <2> QED BY <1>2, <2>1, <2>4, <2>5 DEF RecordInv, LogStep, Synced
<1> QED BY <1>5, <1>6, <1>7

\* When the server comes up there are no records, and the files end where the log does.
LEMMA InitRecordInv == Init => RecordInv
<1> SUFFICES ASSUME Init PROVE RecordInv
  OBVIOUS
<1>1. PICK end \in Starts :
        /\ CurrBytePos = XLogRecPtrToBytePos(end)
        /\ InitializedUpTo = IF end % XLOG_BLCKSZ = 0 THEN end ELSE PageEnd(end)
        /\ xlblocks = [i \in 0..(XLogBuffers - 1) |->
                         IF end % XLOG_BLCKSZ # 0 /\ i = BufIdx(end) THEN PageEnd(end) ELSE 0]
        /\ buffer = [i \in 0..(XLogBuffers - 1) |-> IF xlblocks[i] = 0 THEN {} ELSE PageBegin(end)..(end - 1)]
        /\ file = 0..(end - 1) /\ synced = file /\ records = <<>> /\ at = [p \in Everyone |-> "idle"]
  BY DEF Init, Invalid
<1>2. end \in Nat /\ Procs \subseteq Everyone /\ End = end
  BY <1>1, StartEnd DEF End, Everyone
<1>3. PICK begin \in Nat, pend \in Nat : begin = PageBegin(end) /\ pend = PageEnd(end) /\ end < pend
  BY <1>2, PageParts
<1>4. RecordsOK /\ \A p \in Procs : OwnRecord(p)
  BY <1>1, <1>2 DEF RecordsOK, OwnRecord, Before
<1>5. Bytes(file) /\ \A i \in 0..(XLogBuffers - 1) : Bytes(buffer[i])
  BY <1>1, <1>2, <1>3 DEF Bytes
<1>6. ASSUME NEW ptr \in file PROVE ptr < InitializedUpTo /\ (Mapped(ptr) => ptr \in buffer[BufIdx(ptr)])
  <2>1. ptr \in Nat /\ ptr < end /\ ptr < InitializedUpTo
    BY <1>1, <1>2, <1>3
  <2>2. BufIdx(ptr) \in 0..(XLogBuffers - 1) /\ PageEnd(ptr) \in Nat /\ PageBegin(ptr) \in Nat /\ PageBegin(ptr) <= ptr /\ ptr < PageEnd(ptr)
    BY <2>1, BufferNumber, PageParts
  <2>3. ASSUME Mapped(ptr) PROVE ptr \in buffer[BufIdx(ptr)]
    <3>1. xlblocks[BufIdx(ptr)] = PageEnd(ptr) /\ PageEnd(ptr) # 0
      BY <2>1, <2>2, <2>3 DEF Mapped
    <3>2. PageEnd(ptr) = pend /\ buffer[BufIdx(ptr)] = begin..(end - 1)
      BY <1>1, <1>3, <2>2, <3>1
    <3>3. PICK B \in Nat, x \in Nat : B = XLOG_BLCKSZ /\ x = PageBegin(ptr) /\ pend = begin + B /\ pend = x + B /\ x <= ptr
      <4>1. PageEnd(end) = PageBegin(end) + XLOG_BLCKSZ /\ PageEnd(ptr) = PageBegin(ptr) + XLOG_BLCKSZ /\ XLOG_BLCKSZ \in Nat
        BY <1>2, <2>1, PageParts, Sizes
      <4> QED BY <1>3, <2>2, <3>2, <4>1
    <3> QED BY <1>2, <2>1, <3>2, <3>3
  <2> QED BY <2>1, <2>3
<1> QED BY <1>1, <1>4, <1>5, <1>6 DEF RecordInv, Content

\* Every step keeps the records in order, and does one thing to the log.
LEMMA NextRecordInv ==
  RedoInv /\ RedoInv' /\ WaitInv /\ InsertInv /\ DiskInv /\ DiskInv' /\ RecordInv /\ [Next]_vars => RecordInv' /\ LogStep
<1> SUFFICES ASSUME RedoInv, RedoInv', WaitInv, InsertInv, DiskInv, DiskInv', RecordInv, [Next]_vars PROVE RecordInv' /\ LogStep
  OBVIOUS
<1>1. Procs \subseteq Everyone /\ WalWriter \in Everyone
  BY DEF Everyone
<1>2. ASSUME NEW p \in Procs, XLogInsertRecord(p) \/ XLogFlush(p) \/ AcquireOrWait(p) \/ FlushLocked(p) PROVE RecordInv' /\ LogStep
  BY <1>1, <1>2, RecordSteps, RecordReserve, RecordCopy, RecordReturns DEF XLogInsertRecord
<1>3. ASSUME NEW p \in Everyone, WaitXLogInsertionsToFinish(p) \/ AdvanceXLInsertBuffer(p) \/ XLogWrite(p) PROVE RecordInv' /\ LogStep
  BY <1>3, RecordSteps, RecordPages, RecordReturns DEF WaitXLogInsertionsToFinish, AdvanceXLInsertBuffer, XLogWrite
<1>4. CASE XLogBackgroundFlush \/ Done \/ UNCHANGED vars
  BY <1>1, <1>4, RecordSteps DEF Done
<1> QED BY <1>2, <1>3, <1>4 DEF Next

\* The log as a sequence of positions, and the records whose every byte is synced.
SyncedSet == {i \in DOMAIN records : \A j \in 1..i : records[j].start..(records[j].end - 1) \subseteq synced}

\* The log maps to a sequence of as many positions, and no more records are durable than there are.
LEMMA MappedLog ==
  ASSUME Typed
  PROVE  /\ [i \in DOMAIN records |-> records[i].end] \in Seq(Nat)
         /\ Len([i \in DOMAIN records |-> records[i].end]) = Len(records)
         /\ Len(records) \in Nat /\ DOMAIN records = 1..Len(records) /\ \A i \in DOMAIN records : records[i] \in Entries
         /\ IsFiniteSet(SyncedSet) /\ SyncedRecords \in Nat /\ SyncedRecords <= Len(records) /\ SyncedRecords = Cardinality(SyncedSet)
<1>1. PICK n \in Nat : n = Len(records) /\ DOMAIN records = 1..n /\ \A i \in 1..n : records[i] \in Entries
  BY LenProperties, ElementOfSeq DEF Typed
<1>2. PICK f : f = [i \in DOMAIN records |-> records[i].end]
  OBVIOUS
<1>3. f \in [1..n -> Nat] /\ DOMAIN f = 1..n
  BY <1>1, <1>2 DEF Entries
<1>4. f \in Seq(Nat)
  BY ONLY <1>3, n \in Nat, SeqDef
<1>5. Len(f) = n
  BY <1>1, <1>3, <1>4, LenProperties
<1>6. SyncedSet \subseteq 1..n /\ IsFiniteSet(1..n) /\ Cardinality(1..n) = n
  <2>1. IsFiniteSet(1..n) /\ Cardinality(1..n) = n
    BY FS_Interval, CardinalityOfNumbers
  <2> QED BY <1>1, <2>1 DEF SyncedSet
<1>7. IsFiniteSet(SyncedSet) /\ Cardinality(SyncedSet) <= n /\ Cardinality(SyncedSet) \in Nat
  BY <1>6, FS_Subset, FS_CardinalityType
<1> QED BY <1>1, <1>2, <1>4, <1>5, <1>7 DEF SyncedRecords, SyncedSet

\* More bytes are durable.
LEMMA RefinesSync ==
  ASSUME Typed, Synced
  PROVE  \E n \in 0..Len([i \in DOMAIN records |-> records[i].end]) : Log!Sync(n)
<1>1. SyncedSet \subseteq SyncedSet'
  BY DEF SyncedSet, Synced
<1>2. /\ IsFiniteSet(SyncedSet') /\ SyncedRecords' \in Nat /\ SyncedRecords \in Nat /\ SyncedRecords' <= Len(records)
      /\ SyncedRecords = Cardinality(SyncedSet) /\ SyncedRecords' = Cardinality(SyncedSet')
  <2>1. PICK n \in Nat : n = Len(records) /\ DOMAIN records = 1..n
    BY MappedLog
  <2>2. SyncedSet' \subseteq 1..n
    BY <2>1 DEF SyncedSet, Synced
  <2>3. IsFiniteSet(1..n) /\ Cardinality(1..n) = n
    BY FS_Interval, CardinalityOfNumbers
  <2>4. IsFiniteSet(SyncedSet') /\ Cardinality(SyncedSet') <= n /\ Cardinality(SyncedSet') \in Nat
    BY <2>2, <2>3, FS_Subset, FS_CardinalityType
  <2> QED BY <2>1, <2>4, MappedLog DEF SyncedRecords, SyncedSet
<1>3. SyncedRecords <= SyncedRecords'
  BY <1>1, <1>2, FS_Subset
<1>4. SyncedRecords' \in 0..Len([i \in DOMAIN records |-> records[i].end])
  BY <1>2, MappedLog
<1>5. Log!Sync(SyncedRecords')
  BY <1>2, <1>3, MappedLog DEF Log!Sync, Synced
<1> QED BY <1>4, <1>5

\* A flush returns: the record it was for is on disk, and so are all before it.
LEMMA RefinesAcknowledge ==
  ASSUME RedoInv, RecordInv, Acks
  PROVE  Log!WalNext \/ UNCHANGED Log!walVars
<1>1. Typed /\ RecordsOK
  BY DEF RedoInv, RecordInv
<1>2. PICK p \in Procs : /\ at[p] \notin Before /\ Acknowledged(rec[p].start) /\ rec[p].end \in Nat /\ OwnRecord(p)
                         /\ \A ptr \in Nat : ptr < rec[p].end => ptr \in synced
  BY DEF Acks, RecordInv
<1>3. PICK n \in Nat : DOMAIN records = 1..n /\ \A i \in 1..n : records[i] \in Entries /\ records[i].start \in Nat /\ records[i].end \in Nat
  BY <1>1, MappedLog DEF Entries
<1>4. /\ DOMAIN records' = DOMAIN records
      /\ \A i \in DOMAIN records : records'[i].start = records[i].start /\ records'[i].end = records[i].end
  BY <1>1, <1>2, AcknowledgedKept DEF Kept
<1>5. ASSUME NEW i \in 1..n PROVE records'[i].acked <=> (records[i].acked \/ records[i].start = rec[p].start)
  <2>1. PICK b \in BOOLEAN : b = (records[i].acked \/ records[i].start = rec[p].start)
    OBVIOUS
  <2>2. records'[i] = [records[i] EXCEPT !.acked = b]
    BY <1>2, <1>3, <2>1 DEF Acknowledged
  <2>3. records[i] \in Entries
    BY <1>3
  <2> QED BY <2>1, <2>2, <2>3 DEF Entries
<1>6. SyncedSet' = SyncedSet /\ [i \in DOMAIN records' |-> records'[i].end] = [i \in DOMAIN records |-> records[i].end]
  <2>1. SyncedSet' = SyncedSet
    <3>1. \A i \in 1..n : \A j \in 1..i : j \in 1..n
      OBVIOUS
    <3> QED BY <1>3, <1>4, <3>1 DEF SyncedSet, Acks
  <2> QED BY <1>4, <2>1
<1>7. SyncedRecords' = SyncedRecords
  BY <1>6 DEF SyncedRecords, SyncedSet
<1>8. CASE \A i \in 1..n : records[i].start # rec[p].start
  <2>1. {i \in DOMAIN records' : records'[i].acked} = {i \in DOMAIN records : records[i].acked}
    BY <1>3, <1>4, <1>5, <1>8
  <2> QED BY <1>6, <1>7, <2>1 DEF Log!walVars
<1>9. ASSUME NEW i \in 1..n, records[i].start = rec[p].start PROVE Log!WalNext
  <2>1. ASSUME NEW j \in 1..n, records[j].start = records[i].start PROVE j = i
    <3>1. records[i].start < records[i].end /\ (i < j => records[i].end <= records[j].start)
      BY <1>1, <1>3 DEF RecordsOK
    <3>2. records[j].start < records[j].end /\ (j < i => records[j].end <= records[i].start)
      BY <1>1, <1>3 DEF RecordsOK
    <3> QED BY <1>3, <2>1, <3>1, <3>2
  <2>2. {j \in DOMAIN records' : records'[j].acked} = {j \in DOMAIN records : records[j].acked} \union {i}
    BY <1>3, <1>4, <1>5, <1>9, <2>1
  <2>3. 1..i \subseteq SyncedSet
    <3>1. ASSUME NEW j \in 1..i PROVE j \in 1..n /\ records[j].end <= rec[p].end
      <4>1. j \in 1..n /\ (j < i \/ j = i)
        OBVIOUS
      <4>2. records[i].end <= rec[p].end /\ records[i].start < records[i].end
        BY <1>1, <1>2, <1>3, <1>9 DEF OwnRecord, RecordsOK
      <4>3. j < i => records[j].end <= records[i].start
        BY <1>1, <1>3, <4>1 DEF RecordsOK
      <4> QED BY <1>2, <1>3, <4>1, <4>2, <4>3
    <3>2. ASSUME NEW j \in 1..i PROVE records[j].start..(records[j].end - 1) \subseteq synced
      <4>1. j \in 1..n /\ records[j].end <= rec[p].end /\ records[j].start \in Nat /\ records[j].end \in Nat
        BY <1>3, <3>1
      <4>2. \A ptr \in records[j].start..(records[j].end - 1) : ptr \in Nat /\ ptr < rec[p].end
        BY <1>2, <4>1
      <4> QED BY <1>2, <4>2
    <3>3. ASSUME NEW k \in 1..i PROVE k \in 1..n /\ \A j \in 1..k : j \in 1..i
      OBVIOUS
    <3> QED BY <1>3, <3>2, <3>3 DEF SyncedSet
  <2>4. i \in 1..SyncedRecords
    <3>1. Cardinality(1..i) = i /\ i \in Nat
      BY CardinalityOfNumbers
    <3>2. Cardinality(1..i) <= Cardinality(SyncedSet)
      BY <1>1, <2>3, MappedLog, FS_Subset
    <3> QED BY <1>1, <3>1, <3>2, MappedLog
  <2>5. Log!Acknowledge(i)
    BY <1>6, <1>7, <2>2, <2>4 DEF Log!Acknowledge
  <2>6. i \in 0..Len([j \in DOMAIN records |-> records[j].end])
    BY <1>1, <1>3, MappedLog
  <2> QED BY <2>5, <2>6 DEF Log!WalNext
<1> QED BY <1>8, <1>9

\* A reservation adds its record at the end.
LEMMA RefinesInsert ==
  ASSUME RedoInv, RedoInv', Adds
  PROVE  \E r \in 0..Horizon : Log!Insert(r)
<1>1. Typed /\ Typed' /\ Horizon \in Nat
  BY PositionsAssumption DEF RedoInv
<1>2. PICK entry \in Entries : /\ records' = Append(records, entry) /\ entry.acked = FALSE
                               /\ entry.start < entry.end /\ entry.start \notin synced /\ entry.end <= Horizon
  BY DEF Adds
<1>3. PICK n \in Nat : /\ n = Len(records) /\ DOMAIN records = 1..n /\ entry.start \in Nat /\ entry.end \in Nat
                       /\ [i \in DOMAIN records |-> records[i].end] \in Seq(Nat)
                       /\ Len([i \in DOMAIN records |-> records[i].end]) = n
  BY <1>1, MappedLog DEF Entries
<1>4. /\ DOMAIN records' = 1..(n + 1) /\ records'[n + 1] = entry /\ \A i \in 1..n : records'[i] = records[i]
  <2>1. records \in Seq(Entries)
    BY <1>1 DEF Typed
  <2>2. /\ records' \in Seq(Entries) /\ Len(records') = n + 1
        /\ records'[n + 1] = entry /\ \A i \in 1..n : records'[i] = records[i]
    BY <1>2, <1>3, <2>1, AppendProperties
  <2> QED BY <2>2, LenProperties
<1>5. [i \in DOMAIN records' |-> records'[i].end] = Append([i \in DOMAIN records |-> records[i].end], entry.end)
  <2>1. PICK f \in Seq(Nat), e \in Nat : f = [i \in DOMAIN records |-> records[i].end] /\ Len(f) = n /\ e = entry.end
    BY <1>3
  <2>2. PICK g \in Seq(Nat) : g = Append(f, e) /\ Len(g) = n + 1 /\ g[n + 1] = e /\ \A i \in 1..n : g[i] = f[i]
    <3>1. /\ Append(f, e) \in Seq(Nat) /\ Len(Append(f, e)) = n + 1
          /\ Append(f, e)[n + 1] = e /\ \A i \in 1..n : Append(f, e)[i] = f[i]
      BY <2>1, AppendProperties
    <3> QED BY <3>1
  <2>3. g = [i \in 1..(n + 1) |-> g[i]]
    BY ONLY <2>2, n \in Nat, LenProperties
  <2>4. \A i \in 1..(n + 1) : i = n + 1 \/ i \in 1..n
    OBVIOUS
  <2> QED BY <1>3, <1>4, <2>1, <2>2, <2>3, <2>4
<1>6. SyncedSet' = SyncedSet
  <2>1. n + 1 \notin SyncedSet'
    <3>1. entry.start \in entry.start..(entry.end - 1) /\ n + 1 \in 1..(n + 1)
      BY <1>2, <1>3
    <3> QED BY <1>2, <1>4, <3>1 DEF SyncedSet, Adds
  <2>2. \A i \in 1..n : \A j \in 1..i : j \in 1..n
    OBVIOUS
  <2>3. \A i \in 1..n : i \in SyncedSet' <=> i \in SyncedSet
    BY <1>3, <1>4, <2>2 DEF SyncedSet, Adds
  <2>4. SyncedSet \subseteq 1..n /\ SyncedSet' \subseteq 1..(n + 1) /\ \A i \in 1..(n + 1) : i = n + 1 \/ i \in 1..n
    BY <1>3, <1>4 DEF SyncedSet
  <2> QED BY <2>1, <2>3, <2>4
<1>7. SyncedRecords' = SyncedRecords
  BY <1>6 DEF SyncedRecords, SyncedSet
<1>8. {i \in DOMAIN records' : records'[i].acked} = {i \in DOMAIN records : records[i].acked}
  <2>1. \A i \in 1..(n + 1) : i = n + 1 \/ i \in 1..n
    OBVIOUS
  <2> QED BY <1>2, <1>3, <1>4, <2>1
<1>9. entry.end \in 0..Horizon
  BY <1>1, <1>2, <1>3
<1>10. Log!Insert(entry.end)
  BY <1>5, <1>7, <1>8 DEF Log!Insert
<1> QED BY <1>9, <1>10

\* The buffered log implements the write-ahead log: records keep their order, what is durable
\* stays so, and a flush that returned covers its record and all before it (XLogInsertRecord,
\* XLogWrite, XLogFlush).
THEOREM ImplementsWalHolds == Spec => ImplementsWal
<1>1. Init => RedoInv /\ WaitInv /\ InsertInv /\ DiskInv /\ RecordInv
  BY InitRedoInv, InitWaitInv, InitInsertInv, InitDiskInv, InitRecordInv
<1>2. RedoInv /\ WaitInv /\ InsertInv /\ DiskInv /\ RecordInv /\ [Next]_vars
        => (RedoInv /\ WaitInv /\ InsertInv /\ DiskInv /\ RecordInv)' /\ LogStep
  BY NextRedoInv, NextWaitInv, NextInsertInv, NextDiskInv, NextRecordInv
<1>3. Init => Log!WalInit
  <2> SUFFICES ASSUME Init PROVE Log!WalInit
    OBVIOUS
  <2>1. records = <<>> /\ DOMAIN records = {}
    BY DEF Init
  <2>2. SyncedSet = {} /\ SyncedRecords = 0
    BY <2>1, FS_EmptySet DEF SyncedSet, SyncedRecords
  <2> QED BY <2>1, <2>2 DEF Log!WalInit
<1>4. RedoInv /\ RedoInv' /\ RecordInv /\ LogStep => [Log!WalNext]_(Log!walVars)
  BY RefinesSync, RefinesAcknowledge, RefinesInsert DEF LogStep, RedoInv, Log!WalNext
<1> QED BY <1>1, <1>2, <1>3, <1>4, PTL DEF Spec, ImplementsWal, Log!WalSpec
=============================================================================
