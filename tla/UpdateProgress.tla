--------------------------- MODULE UpdateProgress ---------------------------
(* The progress bar of a firmware download (update_progress in                *)
(* update_ui_example.cpp): the percentage in unsigned arithmetic of limited   *)
(* width, the number of full cells of the bar, and the spinner in the next    *)
(* cell, which turns once per report while the bar stands still.  The spinner *)
(* is kept in two static variables that outlive a download.                   *)
EXTENDS Naturals

CONSTANTS
    Word,       \* how many values a uint32_t has
    Byte,       \* how many values a uint8_t has
    Downloads   \* the images that may be downloaded, and in which fragments

ASSUME WidthAssumption ==
    Byte \in Nat /\ Byte > 100 /\ Byte % 4 = 0 /\ Word \in Nat /\ Word > Byte

Download == [total : 1..(Word - 1), fragment : Nat \ {0}]

ASSUME DownloadsAssumption == \A d \in Downloads : d \in Download

VARIABLES
    download,   \* the image and its fragments
    progress,   \* how many bytes have arrived
    percent,    \* the percentage of the last report
    shown,      \* whether the last report drew a spinner
    old_max,    \* the cell in which the spinner was drawn last
    counter     \* how often it has turned there

statics == <<old_max, counter>>
vars == <<download, progress, percent, shown, statics>>

Cells == 50
Cell(p) == p \div 2   \* the index of the cell after the full ones

TypeOK ==
    /\ download \in Downloads
    /\ progress \in 0..download.total
    /\ percent \in 0..100
    /\ shown \in BOOLEAN
    /\ old_max \in 0..(Cells - 1)
    /\ counter \in 0..(Byte - 1)

-----------------------------------------------------------------------------
\* Slips: the division comes first; it rounds up.
DivideFirst(p, total) == (((p \div total) * 100) % Word) % Byte
RoundUp(p, total) == ((((p * 100) % Word) + total - 1) \div total) % Byte

Percent(p, total) == (((p * 100) % Word) \div total) % Byte

\* Slips: the counter stops at its end; it is wider than it is declared.
Bounded(n) == IF n < Byte - 1 THEN n + 1 ELSE n
TurnedWide(n) == n + 1

Turned(n) == (n + 1) % Byte

\* The loop over the cells; a full bar has no cell for the spinner.
Spin(cell) ==
    IF cell < Cells
    THEN /\ shown' = TRUE
         /\ old_max' = cell
         /\ counter' = IF cell = old_max THEN Turned(counter) ELSE 0
    ELSE shown' = FALSE /\ UNCHANGED statics

update_progress(p, total) ==
    /\ percent' = Percent(p, total)
    /\ Spin(Cell(Percent(p, total)))

-----------------------------------------------------------------------------
\* The update client reports every fragment that has arrived.
Receive ==
    LET arrived == progress + download.fragment IN
    /\ progress < download.total
    /\ progress' = IF arrived < download.total THEN arrived ELSE download.total
    /\ update_progress(progress', download.total)
    /\ UNCHANGED download

\* A download that has ended, or that was broken off, is followed by another.
Start ==
    /\ progress > 0
    /\ download' \in Downloads
    /\ progress' = 0 /\ percent' = 0 /\ shown' = FALSE
    /\ UNCHANGED statics

Init ==
    /\ download \in Downloads
    /\ progress = 0 /\ percent = 0 /\ shown = FALSE
    /\ old_max = 0 /\ counter = 0

Next == Receive \/ Start

Spec == Init /\ [][Next]_vars

-----------------------------------------------------------------------------
(* Properties.                                                                *)

Fits == 100 * download.total < Word

(* The percentage is the share that has arrived, rounded down, of every image *)
(* whose size times 100 fits in 32 bits (percent in update_progress).         *)
PercentIsExact ==
    Fits => /\ percent * download.total <= 100 * progress
            /\ 100 * progress < (percent + 1) * download.total

(* A full bar is never shown before the last byte, not even for an image so   *)
(* large that the product wraps.                                              *)
FullOnlyAtTheEnd == percent = 100 => progress = download.total

Spinner == counter % 4   \* which of the four strokes is drawn

(* A report that leaves the spinner in its cell turns it by one stroke: it    *)
(* never seems to hang, also when the 8-bit counter wraps after a download    *)
(* that takes hundreds of reports for one cell.                               *)
Turns == shown /\ shown' /\ old_max' = old_max => Spinner' = (Spinner + 1) % 4
SpinnerTurns == [][Turns]_vars
=============================================================================
