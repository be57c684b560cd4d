------------------------ MODULE UpdateProgressProofs ------------------------
(* Safety of UpdateProgress for all images and every width of the words, in   *)
(* particular for a Word of 2^32.                                             *)
EXTENDS UpdateProgress, TLAPS

-----------------------------------------------------------------------------
(* Arithmetic.  A quotient is the largest number whose product with the       *)
(* divisor is not above the dividend.                                         *)
LEMMA Quotient ==
    ASSUME NEW a \in Nat, NEW b \in Nat \ {0}
    PROVE  a \div b \in Nat /\ (a \div b) * b <= a /\ a < ((a \div b) + 1) * b
OBVIOUS

LEMMA Remainder ==
    ASSUME NEW a \in Nat, NEW b \in Nat \ {0}
    PROVE  a % b \in Nat /\ a % b < b /\ a % b <= a /\ (a < b => a % b = a)
OBVIOUS

LEMMA QuotientBound ==
    ASSUME NEW q \in Nat, NEW r \in Nat, NEW x \in Nat, NEW b \in Nat \ {0},
           q * b <= x, x < (r + 1) * b
    PROVE  q <= r
OBVIOUS

(* A counter that wraps at a multiple of four turns the spinner by one.       *)
LEMMA TurnedSpinner ==
    ASSUME NEW n \in Nat, n < Byte
    PROVE  Turned(n) \in 0..(Byte - 1) /\ Turned(n) % 4 = ((n % 4) + 1) % 4
BY WidthAssumption DEF Turned

(* The percentage of a part is at most 100, 100 only of the whole, and exact  *)
(* if the product fits in a word; the uint8_t never cuts it.                  *)
LEMMA PercentFacts ==
    ASSUME NEW total \in Nat \ {0}, NEW p \in 0..total
    PROVE  /\ Percent(p, total) \in 0..100
           /\ Percent(p, total) = 100 => p = total
           /\ 100 * total < Word => /\ Percent(p, total) * total <= 100 * p
                                    /\ 100 * p < (Percent(p, total) + 1) * total
<1>. DEFINE product == (p * 100) % Word
<1>. DEFINE q == product \div total
<1>1. p \in Nat /\ p <= total /\ p * 100 \in Nat /\ p * 100 <= 100 * total
  OBVIOUS
<1>2. product \in Nat /\ product <= p * 100
  BY <1>1, Remainder, WidthAssumption
<1>3. q \in Nat /\ q * total <= product /\ product < (q + 1) * total
  BY <1>2, Quotient
<1>. HIDE DEF q, product
<1>4. q <= 100
  <2>1. product < (100 + 1) * total
    BY <1>1, <1>2
  <2>. QED  BY <1>2, <1>3, <2>1, QuotientBound
<1>5. Percent(p, total) = q
  BY <1>3, <1>4, Remainder, WidthAssumption DEF Percent, q, product
<1>6. q = 100 => p = total
  BY <1>1, <1>2, <1>3
<1>7. 100 * total < Word => product = p * 100
  <2>. SUFFICES ASSUME 100 * total < Word PROVE product = p * 100
    OBVIOUS
  <2>1. p * 100 < Word
    BY <1>1, WidthAssumption
  <2>. QED  BY <1>1, <2>1, Remainder, WidthAssumption DEF product
<1>. QED  BY <1>1, <1>3, <1>4, <1>5, <1>6, <1>7

-----------------------------------------------------------------------------
(* The inductive invariant: the percentage is that of what has arrived.       *)
IInv == TypeOK /\ percent = Percent(progress, download.total)

(* A report after p bytes is that percentage, and keeps the types.            *)
LEMMA ReportKeepsType ==
    ASSUME TypeOK, NEW p \in 0..download.total, update_progress(p, download.total)
    PROVE  /\ percent' \in 0..100 /\ shown' \in BOOLEAN
           /\ old_max' \in 0..(Cells - 1) /\ counter' \in 0..(Byte - 1)
<1>1. download.total \in Nat \ {0}
  BY DownloadsAssumption, WidthAssumption DEF TypeOK, Download
<1>. DEFINE cell == Cell(Percent(p, download.total))
<1>2. Percent(p, download.total) \in 0..100
  BY <1>1, PercentFacts
<1>3. cell \in 0..Cells
  BY <1>2 DEF Cell, Cells
<1>. HIDE DEF cell
<1>4. Spin(cell)
  BY DEF update_progress, cell
<1>5. CASE cell < Cells
  BY <1>2, <1>3, <1>4, <1>5, TurnedSpinner, WidthAssumption
  DEF Spin, TypeOK, update_progress, Cells
<1>6. CASE ~(cell < Cells)
  BY <1>2, <1>4, <1>6 DEF Spin, TypeOK, update_progress, statics
<1>. QED  BY <1>5, <1>6

LEMMA Step == IInv /\ [Next]_vars => IInv'
<1>. SUFFICES ASSUME IInv, [Next]_vars PROVE IInv'
  OBVIOUS
<1>. USE DEF IInv
<1>1. \A d \in Downloads : d.total \in Nat \ {0} /\ d.fragment \in Nat \ {0}
  BY DownloadsAssumption, WidthAssumption DEF Download
<1>2. CASE Receive
  <2>1. progress' \in 0..download.total /\ download' = download
    BY <1>1, <1>2 DEF Receive, TypeOK
  <2>2. update_progress(progress', download.total)
    BY <1>2 DEF Receive
  <2>3. TypeOK'
    BY <2>1, <2>2, ReportKeepsType DEF TypeOK
  <2>. QED  BY <2>1, <2>2, <2>3 DEF update_progress
<1>3. CASE Start
  <2>1. download'.total \in Nat \ {0}
    BY <1>1, <1>3 DEF Start
  <2>2. Percent(0, download'.total) = 0
    BY <2>1, WidthAssumption DEF Percent
  <2>3. /\ download' \in Downloads /\ progress' = 0 /\ percent' = 0 /\ shown' = FALSE
        /\ UNCHANGED <<old_max, counter>>
    BY <1>3 DEF Start, statics
  <2>4. progress' \in 0..download'.total /\ percent' \in 0..100
    BY <2>1, <2>3
  <2>5. shown' \in BOOLEAN
    BY <2>3, Zenon
  <2>6. old_max' \in 0..(Cells - 1) /\ counter' \in 0..(Byte - 1)
    BY <2>3 DEF TypeOK
  <2>7. TypeOK'
    BY <2>3, <2>4, <2>5, <2>6, Zenon DEF TypeOK
  <2>8. percent' = Percent(progress', download'.total)
    BY <2>2, <2>3, Zenon
  <2>. QED  BY <2>7, <2>8
<1>4. CASE UNCHANGED vars
  BY <1>4 DEF vars, statics, TypeOK
<1>. QED  BY <1>2, <1>3, <1>4 DEF Next

LEMMA Invariance == Spec => []IInv
<1>1. Init => IInv
  <2>. SUFFICES ASSUME Init PROVE IInv
    OBVIOUS
  <2>1. download \in Downloads /\ download.total \in Nat \ {0}
    BY DownloadsAssumption, WidthAssumption DEF Init, Download
  <2>2. Percent(0, download.total) = 0
    BY <2>1, WidthAssumption DEF Percent
  <2>3. progress \in 0..download.total /\ percent \in 0..100
    BY <2>1 DEF Init
  <2>4. old_max \in 0..(Cells - 1) /\ counter \in 0..(Byte - 1)
    BY WidthAssumption DEF Init, Cells
  <2>5. shown \in BOOLEAN
    BY Zenon DEF Init
  <2>6. TypeOK
    BY <2>1, <2>3, <2>4, <2>5 DEF TypeOK
  <2>7. percent = Percent(progress, download.total)
    BY <2>2, Zenon DEF Init
  <2>. QED  BY <2>7, <2>6 DEF IInv
<1>. QED  BY <1>1, Step, PTL DEF Spec

(* What the invariant says of the percentage at any moment.                   *)
LEMMA PercentNow ==
    ASSUME IInv
    PROVE  /\ download.total \in Nat \ {0} /\ progress \in 0..download.total
           /\ percent = 100 => progress = download.total
           /\ PercentIsExact
<1>1. download.total \in Nat \ {0} /\ progress \in 0..download.total
  BY DownloadsAssumption, WidthAssumption DEF IInv, TypeOK, Download
<1>2. percent = Percent(progress, download.total)
  BY DEF IInv
<1>3. percent = 100 => progress = download.total
  <2>1. Percent(progress, download.total) = 100 => progress = download.total
    <3>1. \A total \in Nat \ {0} : \A p \in 0..total : Percent(p, total) = 100 => p = total
      BY PercentFacts, Zenon
    <3>. QED  BY <1>1, <3>1
  <2>. QED  BY <1>2, <2>1
<1>4. PercentIsExact
  <2>. DEFINE total == download.total
  <2>1. 100 * total < Word => /\ Percent(progress, total) * total <= 100 * progress
                              /\ 100 * progress < (Percent(progress, total) + 1) * total
    BY <1>1, PercentFacts, Zenon
  <2>. QED  BY <1>2, <2>1, Zenon DEF PercentIsExact, Fits
<1>. QED  BY <1>1, <1>3, <1>4

-----------------------------------------------------------------------------
(* The types are kept: the percentage is one, the counters are in range.      *)
THEOREM TypeCorrect == Spec => []TypeOK
BY Invariance, PTL DEF IInv

(* The percentage is exact for every image whose size times 100 fits.         *)
THEOREM ExactPercent == Spec => []PercentIsExact
<1>1. IInv => PercentIsExact
  BY PercentNow
<1>. QED  BY <1>1, Invariance, PTL

(* The bar is never full too early, whatever wraps.                           *)
THEOREM FullAtTheEnd == Spec => []FullOnlyAtTheEnd
<1>1. IInv => FullOnlyAtTheEnd
  BY PercentNow DEF FullOnlyAtTheEnd
<1>. QED  BY <1>1, Invariance, PTL

(* The spinner turns with every report that leaves it in its cell.            *)
THEOREM AlwaysTurns == Spec => SpinnerTurns
<1>1. IInv /\ [Next]_vars => [Turns]_vars
  <2>. SUFFICES ASSUME IInv, Next, shown, shown', old_max' = old_max
                PROVE  Spinner' = (Spinner + 1) % 4
    BY DEF Turns
  <2>1. Receive
    BY DEF Next, Start
  <2>2. counter' = Turned(counter)
    BY <2>1 DEF Receive, update_progress, Spin
  <2>. QED  BY <2>2, TurnedSpinner, WidthAssumption DEF IInv, TypeOK, Spinner
<1>. QED  BY <1>1, Invariance, PTL DEF Spec, SpinnerTurns
=============================================================================
