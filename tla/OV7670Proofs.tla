---------------------------- MODULE OV7670Proofs ----------------------------
(***************************************************************************)
(* The camera driver for a picture of any size and any number of pictures, *)
(* with a sensor that may send any lines and frames: the copy stays inside *)
(* bitmap_matrix, the DMA does not disturb it, every line of a picture is  *)
(* in its row, no sensor that keeps in step is refused, and the driver     *)
(* implements module Camera.                                               *)
(***************************************************************************)
EXTENDS OV7670, TLAPS

USE DEF taken

\* TaskStart pends at the end of a line, and finds no second line posted.
LineSem ==
  /\ semProcessNewLine.wait \in {{}, {"TaskStart"}}
  /\ semProcessNewLine.ctr <= 1
  /\ semProcessNewLine.wait # {} => semProcessNewLine.ctr = 0 /\ col = 0
  /\ semProcessNewLine.ctr > 0 => col = Cols

\* A line that is being copied is of a skipped row's turn, and a picture is only
\* asked for when there is none.
CopyTurn ==
  /\ LinePending => ~dma.on /\ ~ov7670_active_row /\ ov7670_current_row < Rows
  /\ ov7670_picture_requested =>
       ~LinePending /\ ov7670_state # "taking" /\ pictures < MaxPictures

\* Where the DMA is in aux_buffer, at word `word' of an active row, and which of
\* its interrupts is pending or has been served.
DmaAt ==
  /\ ov7670_state \in {"busy", "ready", "picture"} => ~dma.on /\ ~dma.irq
  /\ ov7670_state = "taking" =>
       /\ pictures > 0
       /\ ~ov7670_active_row =>
            /\ line = 2 * ov7670_current_row + 1 /\ ov7670_current_row < Rows
            /\ ~dma.on /\ ~dma.irq /\ dma.daddr = 0 /\ ~ov7670_row_complete
       /\ ov7670_active_row =>
            /\ line = 2 * ov7670_current_row /\ dma.on
            /\ word < Words =>
                 dma.daddr = word /\ ~dma.irq /\ ~ov7670_row_complete
            /\ Words <= word /\ word < 2 * Words =>
                 dma.daddr = word - Words /\ (dma.irq <=> ~ov7670_row_complete)
            /\ word >= 2 * Words =>
                 dma.daddr = word - 2 * Words /\ dma.irq /\ ov7670_row_complete

Tag(n, at) == [picture |-> pictures, line |-> n, at |-> at]

\* The words of the active row that are in aux_buffer.
Filling ==
  ov7670_state = "taking" /\ ov7670_active_row /\ word <= Words =>
    \A w \in 0..word - 1 : aux_buffer[w] = Tag(line, w)

\* The line to be copied.
Filled ==
  ov7670_state \in {"taking", "picture"} /\ LinePending =>
    \A w \in 0..Words - 1 : aux_buffer[w] = Tag(2 * ov7670_current_row, w)

\* Pixels of the rows handed to TaskStart that it has copied.
Done(r, c) == \/ r < ov7670_current_row \/ ~LinePending
              \/ semProcessNewLine.ctr = 0 /\ c < col

Copied ==
  ov7670_state \in {"taking", "picture"} =>
    \A r \in 0..Captured - 1, c \in 0..Cols - 1 :
      Done(r, c) => bitmap_matrix[r][c] = Tag(2 * r, 4 * c + 1)

\* When the sensor must have been out of step.
Glitches ==
  /\ word > Words => glitched
  /\ word > 0 => line < MaxLines /\ (line >= 2 * Rows => glitched)
  /\ NoFalseAlarm

CameraInv == TypeOK /\ LineSem /\ CopyTurn /\ DmaAt /\ Filling /\ Filled /\ Copied /\ Glitches

-----------------------------------------------------------------------------
(* Sizes and semaphores *)

\* The constants, and the picture as they give it.
LEMMA Sizes ==
  /\ Rows \in Nat \ {0} /\ Cols \in Nat \ {0} /\ MaxPictures \in Nat
  /\ Words = 4 * Cols /\ Words \in Nat /\ Words >= 4
  /\ MaxWords = 2 * Words + 1 /\ MaxLines = 2 * Rows + 1
  /\ MaxWords \in Nat /\ MaxLines \in Nat
BY SensorAssumption DEF Words, MaxWords, MaxLines

\* The DMA's address goes round aux_buffer.
LEMMA NextAddress ==
  ASSUME NEW d \in 0..Words - 1
  PROVE  (d + 1) % Words = IF d = Words - 1 THEN 0 ELSE d + 1
<1>1. CASE d = Words - 1
  BY <1>1, Sizes
<1>2. CASE d # Words - 1
  BY <1>2, Sizes
<1>3. QED
  BY <1>1, <1>2

\* A pend takes a post, or makes the caller wait for one.
LEMMA SemPend ==
  ASSUME NEW s \in Sem, NEW t \in Task
  PROVE  LET n == OSSemPend(s, t) IN
         /\ n \in Sem
         /\ s.ctr > 0 => n.ctr = s.ctr - 1 /\ n.wait = s.wait
         /\ s.ctr = 0 => n.ctr = 0 /\ n.wait = s.wait \cup {t}
BY DEF OSSemPend, Sem

\* A post to all counts one up, or frees every task that waits.
LEMMA SemPostAll ==
  ASSUME NEW s \in Sem
  PROVE  LET n == OSSemPostAll(s) IN
         /\ n \in Sem /\ n.wait = {}
         /\ n.ctr = IF s.wait = {} THEN s.ctr + 1 ELSE s.ctr
BY DEF OSSemPostAll, Sem

-----------------------------------------------------------------------------
(* TaskStart *)

\* TaskStart waits for a line.
LEMMA PendLineKeeps == CameraInv /\ PendLine => CameraInv'
<1> SUFFICES ASSUME CameraInv, PendLine PROVE CameraInv'
  OBVIOUS
<1>1. /\ TypeOK /\ LineSem /\ CopyTurn /\ DmaAt /\ Filling /\ Filled /\ Copied
      /\ Glitches
      /\ UNCHANGED <<driver, dma, aux_buffer, bitmap_matrix, photo_ready_sem, pc2,
                     sensor, taken>>
      /\ col = Cols /\ col' = 0 /\ StartReady /\ "TaskStart" \in Task
      /\ semProcessNewLine' = OSSemPend(semProcessNewLine, "TaskStart")
  BY DEF CameraInv, PendLine, Task
<1>2. semProcessNewLine \in Sem /\ semProcessNewLine.wait = {} /\ semProcessNewLine.ctr \in Nat
  BY <1>1 DEF TypeOK, LineSem, StartReady, Sem
<1>3. /\ semProcessNewLine' \in Sem
      /\ semProcessNewLine.ctr > 0 =>
           semProcessNewLine'.ctr = semProcessNewLine.ctr - 1 /\ semProcessNewLine'.wait = {}
      /\ semProcessNewLine.ctr = 0 =>
           semProcessNewLine'.ctr = 0 /\ semProcessNewLine'.wait = {"TaskStart"}
  BY <1>1, <1>2, SemPend
<1>4. TypeOK'
  BY <1>1, <1>3, Sizes DEF TypeOK, driver, sensor
<1>5. LineSem'
  BY <1>1, <1>2, <1>3 DEF LineSem
<1>6. LinePending' <=> LinePending
  BY <1>1, <1>2, <1>3, Sizes DEF LinePending, LineSem, StartReady
<1>7. CopyTurn' /\ DmaAt' /\ Glitches'
  BY <1>1, <1>6 DEF CopyTurn, DmaAt, Glitches, NoFalseAlarm, driver, sensor
<1>8. Filling' /\ Filled'
  BY <1>1, <1>6 DEF Filling, Filled, Tag, driver, sensor
<1>9. Copied'
  <2>1. ASSUME NEW r, NEW c \in 0..Cols - 1, Done(r, c)' PROVE Done(r, c)
    BY <1>1, <1>2, <1>3, <1>6, <2>1 DEF Done, driver
  <2>2. QED
    BY <1>1, <2>1 DEF Copied, Captured, Tag, driver
<1>10. QED
  BY <1>4, <1>5, <1>7, <1>8, <1>9 DEF CameraInv

\* The word that is copied is the one of its row and column; the row is inside
\* bitmap_matrix, and once its last word is copied no line is pending.
LEMMA CopyKeeps == CameraInv /\ OV7670_process_new_line => CameraInv'
<1> SUFFICES ASSUME CameraInv, OV7670_process_new_line PROVE CameraInv'
  OBVIOUS
<1> DEFINE row == ov7670_current_row
<1>1. /\ TypeOK /\ LineSem /\ CopyTurn /\ DmaAt /\ Filling /\ Filled /\ Copied
      /\ Glitches /\ StartReady /\ col < Cols /\ col' = col + 1
      /\ bitmap_matrix' = [bitmap_matrix EXCEPT ![row][col] = aux_buffer[4 * col + 1]]
      /\ UNCHANGED <<driver, dma, aux_buffer, sems, pc2, sensor, taken>>
  BY DEF CameraInv, OV7670_process_new_line
<1>2. /\ col \in 0..Cols - 1 /\ col' \in 0..Cols /\ 4 * col + 1 \in 0..Words - 1
      /\ row \in 0..Rows /\ pictures \in 0..MaxPictures /\ UNCHANGED StartReady
  BY <1>1, Sizes DEF TypeOK, sems, StartReady
<1>3. LinePending /\ row \in 0..Rows - 1
  BY <1>1, <1>2, Sizes DEF LinePending, CopyTurn
<1>4. semProcessNewLine.ctr = 0 /\ semProcessNewLine' = semProcessNewLine
  BY <1>1, <1>2, Sizes DEF TypeOK, LineSem, Sem, sems
<1>5. LinePending' => LinePending
  BY <1>3
<1>6. bitmap_matrix' \in [0..Rows - 1 -> [0..Cols - 1 -> Word]]
  <2>1. aux_buffer[4 * col + 1] \in Word /\ bitmap_matrix[row] \in [0..Cols - 1 -> Word]
    BY <1>1, <1>2, <1>3 DEF TypeOK
  <2>2. bitmap_matrix \in [0..Rows - 1 -> [0..Cols - 1 -> Word]]
    BY <1>1 DEF TypeOK
  <2>3. QED
    BY <1>1, <1>2, <1>3, <2>1, <2>2
<1>7. TypeOK'
  BY <1>1, <1>2, <1>6 DEF TypeOK, driver, sensor, sems
<1>8. LineSem'
  BY <1>1, <1>4 DEF LineSem, StartReady
<1>9. CopyTurn' /\ DmaAt' /\ Glitches'
  BY <1>1, <1>5 DEF CopyTurn, DmaAt, Glitches, NoFalseAlarm, driver, sensor
<1>10. Filling' /\ Filled'
  BY <1>1, <1>5 DEF Filling, Filled, Tag, driver, sensor
<1>11. Copied'
  <2> SUFFICES ASSUME ov7670_state \in {"taking", "picture"},
                      NEW r \in 0..Captured - 1, NEW c \in 0..Cols - 1, Done(r, c)'
               PROVE  bitmap_matrix'[r][c] = Tag(2 * r, 4 * c + 1)
    BY <1>1 DEF Copied, Captured, Tag, driver
  <2>1. r \in 0..Rows - 1 /\ r \in 0..row
    <3>1. Captured = row + 1
      BY <1>1, <1>3 DEF Captured, CopyTurn
    <3>2. QED
      BY <1>2, <1>3, <3>1, Sizes
  <2>2. CASE r = row /\ c = col
    <3>1. bitmap_matrix'[r][c] = aux_buffer[4 * col + 1]
      BY <1>1, <1>2, <1>3, <2>2 DEF TypeOK
    <3>2. aux_buffer[4 * col + 1] = Tag(2 * row, 4 * col + 1)
      BY <1>1, <1>2, <1>3 DEF Filled
    <3>3. QED
      BY <2>2, <3>1, <3>2
  <2>3. CASE ~(r = row /\ c = col)
    <3>1. bitmap_matrix'[r][c] = bitmap_matrix[r][c]
      BY <1>1, <1>2, <1>3, <2>1, <2>3 DEF TypeOK
    <3>2. Done(r, c)
      <4>1. CASE r < row
        BY <4>1 DEF Done
      <4>2. CASE r = row
        <5>1. c < col
          <6>1. CASE LinePending'
            BY <1>1, <1>2, <2>3, <4>2, <6>1 DEF Done, driver
          <6>2. CASE ~LinePending'
            <7>1. ~(col' < Cols)
              BY <1>1, <1>2, <6>2 DEF LinePending
            <7>2. QED
              <8>1. c # col /\ col \in 0..Cols - 1 /\ ~(col + 1 < Cols) /\ Cols \in Nat
                BY <1>1, <1>2, <2>3, <4>2, <7>1, Sizes
              <8>2. QED
                BY <8>1
          <6>3. QED
            BY <6>1, <6>2
        <5>2. QED
          BY <1>4, <5>1 DEF Done
      <4>3. QED
        BY <1>2, <2>1, <4>1, <4>2
    <3>3. QED
      BY <1>1, <3>1, <3>2 DEF Copied
  <2>4. QED
    BY <2>2, <2>3
<1>12. QED
  BY <1>7, <1>8, <1>9, <1>10, <1>11 DEF CameraInv

-----------------------------------------------------------------------------
(* Interrupts *)

\* A step that changes neither the pictures nor the semaphore of the lines.
LEMMA ConfiguredKeeps == CameraInv /\ I2C_finished_callback => CameraInv'
<1> SUFFICES ASSUME CameraInv, I2C_finished_callback PROVE CameraInv'
  OBVIOUS
<1>1. /\ TypeOK /\ LineSem /\ CopyTurn /\ DmaAt /\ Glitches
      /\ ov7670_state = "busy" /\ ov7670_state' = "ready"
      /\ UNCHANGED <<ov7670_picture_requested, ov7670_current_row, ov7670_active_row,
                     ov7670_row_complete, dma, aux_buffer, bitmap_matrix, sems, pc2,
                     col, sensor, taken>>
  BY DEF CameraInv, I2C_finished_callback
<1>2. UNCHANGED <<semProcessNewLine, photo_ready_sem, line, word, glitched, LinePending>>
  BY <1>1 DEF sems, sensor, LinePending, StartReady
<1>3. TypeOK'
  BY <1>1, <1>2 DEF TypeOK
<1>4. LineSem' /\ CopyTurn'
  BY <1>1, <1>2 DEF LineSem, CopyTurn
<1>5. DmaAt' /\ Glitches'
  BY <1>1, <1>2 DEF DmaAt, Glitches, NoFalseAlarm
<1>6. Filling' /\ Filled' /\ Copied'
  BY <1>1 DEF Filling, Filled, Copied
<1>7. QED
  BY <1>3, <1>4, <1>5, <1>6 DEF CameraInv

\* A second interrupt for the same row means that the sensor sent too many words.
LEMMA DmaInterruptKeeps == CameraInv /\ DMA_mayor_int => CameraInv'
<1> SUFFICES ASSUME CameraInv, DMA_mayor_int PROVE CameraInv'
  OBVIOUS
<1>1. /\ TypeOK /\ LineSem /\ CopyTurn /\ DmaAt /\ Filling /\ Filled /\ Copied
      /\ Glitches /\ dma.irq /\ dma' = [dma EXCEPT !.irq = FALSE]
      /\ UNCHANGED <<ov7670_picture_requested, ov7670_current_row, ov7670_active_row,
                     aux_buffer, bitmap_matrix, sems, pc2, col, sensor, taken>>
  BY DEF CameraInv, DMA_mayor_int
<1>2. \/ /\ ov7670_state # "error" /\ ov7670_row_complete
         /\ ov7670_state' = "error" /\ UNCHANGED ov7670_row_complete
      \/ /\ ov7670_state # "error" /\ ~ov7670_row_complete
         /\ ov7670_row_complete' = TRUE /\ UNCHANGED ov7670_state
      \/ ov7670_state = "error" /\ UNCHANGED <<ov7670_state, ov7670_row_complete>>
  BY DEF DMA_mayor_int
<1>3. UNCHANGED <<semProcessNewLine, photo_ready_sem, line, word, glitched, LinePending>>
  BY <1>1 DEF sems, sensor, LinePending, StartReady
<1>4. /\ dma' \in [on : BOOLEAN, daddr : 0..Words - 1, irq : BOOLEAN]
      /\ dma'.on = dma.on /\ dma'.daddr = dma.daddr /\ ~dma'.irq
  BY <1>1 DEF TypeOK
<1>5. ov7670_state \in {"taking", "error"} /\ word \in Nat
      /\ (ov7670_state = "taking" => ov7670_active_row /\ word >= Words)
  <2>1. ov7670_state \in {"taking", "error"}
    BY <1>1 DEF DmaAt, TypeOK
  <2>2. word \in Nat /\ Words \in Nat
    BY <1>1, Sizes DEF TypeOK
  <2>3. ov7670_state = "taking" => ov7670_active_row /\ ~(word < Words)
    BY <1>1 DEF DmaAt
  <2>4. QED
    BY <2>1, <2>2, <2>3
<1>6. TypeOK'
  <2>1. ov7670_state' \in {"busy", "ready", "taking", "picture", "error"}
        /\ ov7670_row_complete' \in BOOLEAN
    BY <1>1, <1>2, Zenon DEF TypeOK
  <2>2. QED
    BY <1>1, <1>3, <1>4, <2>1 DEF TypeOK
<1>7. LineSem'
  BY <1>1, <1>3 DEF LineSem
<1>8. CopyTurn'
  BY <1>1, <1>2, <1>3, <1>4 DEF CopyTurn
<1>9. DmaAt' /\ Glitches'
  <2>1. CASE ov7670_state # "error" /\ ov7670_row_complete
    <3>1. ov7670_state' = "error"
      BY <1>2, <2>1
    <3>2. ~(word < 2 * Words)
      BY <1>1, <1>5, <2>1 DEF DmaAt
    <3>3. glitched
      BY <1>1, <1>5, <3>2, Sizes DEF Glitches
    <3>4. QED
      BY <1>1, <1>3, <3>1, <3>3 DEF DmaAt, Glitches, NoFalseAlarm
  <2>2. CASE ov7670_state # "error" /\ ~ov7670_row_complete
    <3>1. /\ word >= Words /\ word < 2 * Words /\ ov7670_row_complete'
          /\ ov7670_state = "taking" /\ ov7670_state' = "taking" /\ ov7670_active_row
      BY <1>1, <1>2, <1>5, <2>2, Sizes DEF DmaAt
    <3>2. QED
      BY <1>1, <1>3, <1>4, <1>5, <3>1, Sizes DEF DmaAt, Glitches, NoFalseAlarm
  <2>3. CASE ov7670_state = "error"
    BY <1>1, <1>2, <1>3, <2>3 DEF DmaAt, Glitches, NoFalseAlarm
  <2>4. QED
    BY <2>1, <2>2, <2>3
<1>10. Filling' /\ Filled' /\ Copied'
  <2>1. ov7670_state' \in {ov7670_state, "error"}
    BY <1>2
  <2>2. ASSUME NEW r, NEW c PROVE Done(r, c)' <=> Done(r, c)
    BY <1>1, <1>3 DEF Done
  <2>3. QED
    BY <1>1, <1>3, <2>1, <2>2 DEF Filling, Filled, Copied, Captured, Tag
<1>11. QED
  BY <1>6, <1>7, <1>8, <1>9, <1>10 DEF CameraInv

\* The word goes to the place in aux_buffer that is its place in the line, as
\* long as the line has no more than Words of them.
LEMMA PixelKeeps == CameraInv /\ PixelClock => CameraInv'
<1> SUFFICES ASSUME CameraInv, PixelClock PROVE CameraInv'
  OBVIOUS
<1>1. /\ TypeOK /\ LineSem /\ CopyTurn /\ DmaAt /\ Filling /\ Filled /\ Copied /\ Glitches
      /\ line < MaxLines /\ word < MaxWords /\ word' = word + 1 /\ Transfer
      /\ glitched' = (glitched \/ line >= 2 * Rows \/ word >= Words)
      /\ dma.irq => dma.daddr < Words - 1
      /\ UNCHANGED <<driver, bitmap_matrix, sems, pc2, col, line, taken>>
  BY DEF CameraInv, PixelClock
<1>2. UNCHANGED <<semProcessNewLine, photo_ready_sem, LinePending, ov7670_state,
                  ov7670_picture_requested, ov7670_current_row, ov7670_active_row,
                  ov7670_row_complete>>
  BY <1>1 DEF sems, driver, LinePending, StartReady
<1>3. /\ word \in 0..MaxWords /\ word' \in 0..MaxWords /\ line \in 0..MaxLines
      /\ pictures \in 0..MaxPictures /\ dma \in [on : BOOLEAN, daddr : 0..Words - 1, irq : BOOLEAN]
      /\ dma.daddr \in 0..Words - 1 /\ aux_buffer \in [0..Words - 1 -> Word]
  BY <1>1, Sizes DEF TypeOK
<1>4. Glitches'
  <2>1. (glitched => glitched') /\ (line >= 2 * Rows => glitched') /\ (word >= Words => glitched')
    BY <1>1, Zenon
  <2>2. (word' > Words => glitched') /\ (word' > 0 => line' < MaxLines)
    BY <1>1, <1>3, <2>1, Sizes
  <2>3. QED
    BY <1>1, <1>2, <2>1, <2>2 DEF Glitches, NoFalseAlarm
<1>5. LineSem'
  BY <1>1, <1>2 DEF LineSem
<1>6. Copied'
  <2>1. ASSUME NEW r, NEW c PROVE Done(r, c)' <=> Done(r, c)
    BY <1>1, <1>2 DEF Done
  <2>2. QED
    BY <1>1, <1>2, <2>1 DEF Copied, Captured, Tag
<1>7. CASE ~dma.on
  <2>1. UNCHANGED <<aux_buffer, dma>>
    BY <1>1, <1>7 DEF Transfer
  <2>2. TypeOK'
    BY <1>1, <1>2, <1>3, <2>1 DEF TypeOK
  <2>3. CopyTurn'
    BY <1>1, <1>2, <2>1 DEF CopyTurn
  <2>4. ov7670_state = "taking" => ~ov7670_active_row
    BY <1>1, <1>7 DEF DmaAt
  <2>5. DmaAt'
    BY <1>1, <1>2, <2>1, <2>4 DEF DmaAt
  <2>6. Filling' /\ Filled'
    BY <1>1, <1>2, <2>1, <2>4 DEF Filling, Filled, Tag
  <2>7. QED
    BY <1>4, <1>5, <1>6, <2>2, <2>3, <2>5, <2>6 DEF CameraInv
<1>8. CASE dma.on
  <2>1. aux_buffer' = [aux_buffer EXCEPT ![dma.daddr] = Tag(line, word)]
    BY <1>1, <1>8 DEF Transfer, Tag
  <2>2. /\ dma' \in [on : BOOLEAN, daddr : 0..Words - 1, irq : BOOLEAN] /\ dma'.on
        /\ dma'.daddr = IF dma.daddr = Words - 1 THEN 0 ELSE dma.daddr + 1
        /\ dma'.irq <=> dma.irq \/ dma.daddr = Words - 1
    <3> DEFINE next == (dma.daddr + 1) % Words
               irq  == dma.irq \/ dma.daddr = Words - 1
    <3>1. next = (IF dma.daddr = Words - 1 THEN 0 ELSE dma.daddr + 1) /\ next \in 0..Words - 1
      BY <1>3, NextAddress, Sizes
    <3>2. irq \in BOOLEAN
      OBVIOUS
    <3>3. dma' = [dma EXCEPT !.daddr = next, !.irq = irq]
      BY <1>1, <1>8 DEF Transfer
    <3> HIDE DEF next, irq
    <3>4. /\ dma' \in [on : BOOLEAN, daddr : 0..Words - 1, irq : BOOLEAN]
          /\ dma'.on = dma.on /\ dma'.daddr = next /\ dma'.irq = irq
      BY <1>3, <3>1, <3>2, <3>3
    <3>5. QED
      BY <1>8, <3>1, <3>4 DEF irq
  <2>3. Tag(line, word) \in Word
    BY <1>3 DEF Tag, Word
  <2>4. TypeOK'
    <3>1. aux_buffer' \in [0..Words - 1 -> Word]
      BY <1>3, <2>1, <2>3
    <3>2. glitched' \in BOOLEAN
      BY <1>1
    <3>3. QED
      BY <1>1, <1>2, <1>3, <2>2, <3>1, <3>2 DEF TypeOK
  <2>5. ~LinePending /\ ~LinePending'
    BY <1>1, <1>2, <1>8 DEF CopyTurn
  <2>6. CopyTurn' /\ Filled'
    BY <1>1, <1>2, <2>5 DEF CopyTurn, Filled
  <2>7. ov7670_state \in {"taking", "error"} /\ (ov7670_state = "taking" => ov7670_active_row)
    BY <1>1, <1>8 DEF DmaAt, TypeOK
  <2>8. DmaAt'
    <3>1. CASE ov7670_state = "error"
      BY <1>2, <3>1 DEF DmaAt
    <3>2. CASE ov7670_state = "taking" /\ word < Words
      <4>1. dma.daddr = word /\ ~dma.irq /\ ~ov7670_row_complete /\ ov7670_active_row
        BY <1>1, <2>7, <3>2 DEF DmaAt
      <4>2. CASE word + 1 < Words
        <5>1. dma'.daddr = word' /\ ~dma'.irq /\ word' < Words
          BY <1>1, <1>3, <2>2, <4>1, <4>2, Sizes
        <5>2. QED
          BY <1>1, <1>2, <1>3, <2>2, <3>2, <4>1, <5>1, Sizes DEF DmaAt
      <4>3. CASE ~(word + 1 < Words)
        <5>1. dma'.daddr = word' - Words /\ dma'.irq /\ word' = Words
          BY <1>1, <1>3, <2>2, <3>2, <4>1, <4>3, Sizes
        <5>2. QED
          BY <1>1, <1>2, <1>3, <2>2, <3>2, <4>1, <5>1, Sizes DEF DmaAt
      <4>4. QED
        BY <4>2, <4>3
    <3>3. CASE ov7670_state = "taking" /\ Words <= word /\ word < 2 * Words
      <4>1. dma.daddr = word - Words /\ (dma.irq <=> ~ov7670_row_complete) /\ ov7670_active_row
        BY <1>1, <2>7, <3>3 DEF DmaAt
      <4>2. CASE word + 1 < 2 * Words
        <5>1. /\ dma'.daddr = word' - Words /\ (dma'.irq <=> dma.irq)
              /\ word' < 2 * Words /\ Words <= word'
          BY <1>1, <1>3, <2>2, <3>3, <4>1, <4>2, Sizes
        <5>2. QED
          BY <1>1, <1>2, <1>3, <2>2, <3>3, <4>1, <5>1, Sizes DEF DmaAt
      <4>3. CASE ~(word + 1 < 2 * Words)
        <5>1. dma.daddr = Words - 1
          BY <1>3, <3>3, <4>1, <4>3, Sizes
        <5>2. ~dma.irq /\ ov7670_row_complete
          BY <1>1, <1>3, <4>1, <5>1, Sizes
        <5>3. dma'.daddr = word' - 2 * Words /\ dma'.irq /\ word' = 2 * Words
          BY <1>1, <1>3, <2>2, <3>3, <4>3, <5>1, Sizes
        <5>4. QED
          BY <1>1, <1>2, <1>3, <2>2, <3>3, <4>1, <5>2, <5>3, Sizes DEF DmaAt
      <4>4. QED
        BY <4>2, <4>3
    <3>4. CASE ov7670_state = "taking" /\ word >= 2 * Words
      <4>1. dma.daddr = word - 2 * Words /\ dma.irq /\ ov7670_row_complete /\ ov7670_active_row
        BY <1>1, <2>7, <3>4 DEF DmaAt
      <4>2. word = 2 * Words /\ dma.daddr = 0 /\ dma'.daddr = 1 /\ dma'.irq
        BY <1>1, <1>3, <2>2, <3>4, <4>1, Sizes
      <4>3. QED
        BY <1>1, <1>2, <1>3, <2>2, <3>4, <4>1, <4>2, Sizes DEF DmaAt
    <3>5. QED
      BY <1>3, <2>7, <3>1, <3>2, <3>3, <3>4, Sizes
  <2>9. Filling'
    <3> SUFFICES ASSUME ov7670_state = "taking", ov7670_active_row, word' <= Words,
                        NEW w \in 0..word' - 1
                 PROVE  aux_buffer'[w] = Tag(line, w)
      BY <1>1, <1>2 DEF Filling, Tag
    <3>1. word < Words /\ dma.daddr = word
      BY <1>1, <1>3, Sizes DEF DmaAt
    <3>2. CASE w = word
      BY <1>3, <2>1, <3>1, <3>2
    <3>3. CASE w \in 0..word - 1
      <4>1. aux_buffer'[w] = aux_buffer[w]
        BY <1>3, <2>1, <3>1, <3>3, Sizes
      <4>2. QED
        BY <1>1, <1>3, <3>1, <3>3, <4>1, Sizes DEF Filling
    <3>4. QED
      BY <1>1, <1>3, <3>2, <3>3
  <2>10. QED
    BY <1>4, <1>5, <1>6, <2>4, <2>6, <2>8, <2>9 DEF CameraInv
<1>9. QED
  BY <1>7, <1>8

\* A row that ends in step is whole in aux_buffer and its turn to be copied has
\* come; one out of step is the sensor's doing; the DMA starts the next row at
\* the beginning of aux_buffer.
LEMMA RowEndKeeps == CameraInv /\ horizontal_ref_falling => CameraInv'
<1> SUFFICES ASSUME CameraInv, horizontal_ref_falling PROVE CameraInv'
  OBVIOUS
<1> DEFINE row == ov7670_current_row
<1>1. /\ TypeOK /\ LineSem /\ CopyTurn /\ DmaAt /\ Filling /\ Filled /\ Copied /\ Glitches
      /\ ~dma.irq /\ word > 0 /\ word' = 0 /\ line' = line + 1
      /\ glitched' = (glitched \/ word # Words)
      /\ UNCHANGED <<ov7670_picture_requested, aux_buffer, bitmap_matrix,
                     photo_ready_sem, pc2, col, taken>>
  BY DEF CameraInv, horizontal_ref_falling
<1>2. /\ word \in Nat /\ line \in Nat /\ line' \in 0..MaxLines /\ word' \in 0..MaxWords
      /\ glitched' \in BOOLEAN /\ row \in 0..Rows /\ semProcessNewLine \in Sem
      /\ dma \in [on : BOOLEAN, daddr : 0..Words - 1, irq : BOOLEAN]
  BY <1>1, Sizes DEF TypeOK, Glitches
<1>3. /\ (glitched => glitched') /\ (word # Words => glitched')
      /\ ~(word' > Words) /\ ~(word' > 0)
  <2>1. (glitched => glitched') /\ (word # Words => glitched')
    BY <1>1, Zenon
  <2>2. QED
    BY <1>1, <2>1, Sizes
<1>4. CASE ov7670_state # "taking"
  <2>1. UNCHANGED <<driver, dma, semProcessNewLine>>
    BY <1>4 DEF horizontal_ref_falling
  <2>2. UNCHANGED <<LinePending, ov7670_state, ov7670_current_row, ov7670_active_row,
                    ov7670_row_complete>>
    BY <1>1, <2>1 DEF driver, LinePending, StartReady
  <2>3. TypeOK'
    BY <1>1, <1>2, <2>1, <2>2 DEF TypeOK
  <2>4. LineSem' /\ CopyTurn' /\ DmaAt'
    BY <1>1, <1>4, <2>1, <2>2 DEF LineSem, CopyTurn, DmaAt
  <2>5. Filling' /\ Filled'
    BY <1>1, <1>4, <2>1, <2>2 DEF Filling, Filled, Tag
  <2>6. Copied'
    <3>1. ASSUME NEW r, NEW c PROVE Done(r, c)' <=> Done(r, c)
      BY <1>1, <2>1, <2>2 DEF Done
    <3>2. QED
      BY <1>1, <2>2, <3>1 DEF Copied, Captured, Tag
  <2>7. Glitches'
    BY <1>1, <1>3, <2>2 DEF Glitches, NoFalseAlarm
  <2>8. QED
    BY <2>3, <2>4, <2>5, <2>6, <2>7 DEF CameraInv
<1>5. CASE ov7670_state = "taking" /\ ov7670_active_row
  <2>1. /\ DmaOff /\ ov7670_active_row' = FALSE /\ UNCHANGED ov7670_current_row
        /\ RowInStep => /\ ov7670_row_complete' = FALSE /\ UNCHANGED ov7670_state
                        /\ semProcessNewLine' = OSSemPostAll(semProcessNewLine)
        /\ ~RowInStep => /\ ov7670_state' = "error"
                         /\ UNCHANGED <<ov7670_row_complete, semProcessNewLine>>
    BY <1>5 DEF horizontal_ref_falling, ActiveRowEnds
  <2>2. /\ dma' \in [on : BOOLEAN, daddr : 0..Words - 1, irq : BOOLEAN]
        /\ ~dma'.on /\ ~dma'.irq /\ dma'.daddr = dma.daddr
    BY <1>1, <1>2, <2>1 DEF DmaOff
  <2>3. ~LinePending /\ ~ov7670_picture_requested /\ line = 2 * row /\ pictures > 0
    BY <1>1, <1>5 DEF CopyTurn, DmaAt
  <2>4. CASE RowInStep
    <3>1. row < Rows /\ ov7670_row_complete /\ dma.daddr = 0
      BY <2>4 DEF RowInStep
    <3>2. word = Words
      <4>1. ~(word < Words) /\ ~(word >= 2 * Words)
        BY <1>1, <1>5, <3>1 DEF DmaAt
      <4>2. dma.daddr = word - Words
        BY <1>1, <1>2, <1>5, <4>1, Sizes DEF DmaAt
      <4>3. QED
        BY <1>2, <3>1, <4>2, Sizes
    <3>3. /\ semProcessNewLine' \in Sem /\ semProcessNewLine'.wait = {}
          /\ semProcessNewLine'.ctr =
               IF semProcessNewLine.wait = {} THEN semProcessNewLine.ctr + 1
                                              ELSE semProcessNewLine.ctr
      BY <1>2, <2>1, <2>4, SemPostAll
    <3>4. semProcessNewLine.ctr = 0 /\ (semProcessNewLine.wait = {} => col = Cols)
      BY <1>1, <1>2, <2>3, Sizes DEF LinePending, LineSem, StartReady, Sem, TypeOK
    <3>5. LinePending' /\ LineSem'
      BY <1>1, <3>3, <3>4, Sizes DEF LinePending, LineSem, StartReady
    <3>6. TypeOK'
      BY <1>1, <1>2, <2>1, <2>2, <2>4, <3>3 DEF TypeOK
    <3>7. CopyTurn'
      BY <1>1, <2>1, <2>2, <2>3, <3>1 DEF CopyTurn
    <3>8. DmaAt'
      BY <1>1, <1>5, <2>1, <2>2, <2>3, <2>4, <3>1 DEF DmaAt
    <3>9. Filling' /\ Filled'
      <4>1. ASSUME NEW w \in 0..Words - 1 PROVE aux_buffer[w] = Tag(line, w)
        BY <1>1, <1>5, <3>2, Sizes DEF Filling
      <4>2. QED
        BY <1>1, <2>1, <2>3, <4>1 DEF Filling, Filled, Tag
    <3>10. Copied'
      <4> SUFFICES ASSUME NEW r \in 0..Captured' - 1, NEW c \in 0..Cols - 1, Done(r, c)'
                   PROVE  bitmap_matrix'[r][c] = Tag(2 * r, 4 * c + 1)'
        BY DEF Copied
      <4>1. Captured' = row + 1 /\ Captured = row
        BY <1>2, <1>5, <2>1 DEF Captured
      <4>2. r < row
        BY <1>1, <1>2, <2>1, <3>3, <3>4, <3>5, Sizes DEF Done, LineSem
      <4>3. Done(r, c) /\ r \in 0..Captured - 1
        BY <1>2, <2>3, <4>1, <4>2 DEF Done
      <4>4. QED
        BY <1>1, <1>5, <4>3 DEF Copied, Tag
    <3>11. Glitches'
      BY <1>1, <1>3, <1>5, <2>1, <2>4 DEF Glitches, NoFalseAlarm
    <3>12. QED
      BY <3>5, <3>6, <3>7, <3>8, <3>9, <3>10, <3>11 DEF CameraInv
  <2>5. CASE ~RowInStep
    <3>1. glitched'
      <4> SUFFICES ASSUME word = Words, ~glitched PROVE FALSE
        BY <1>3
      <4>1. line < 2 * Rows
        BY <1>1, <1>2, Sizes DEF Glitches
      <4>2. row < Rows
        BY <1>2, <2>3, <4>1, Sizes
      <4>3. dma.daddr = 0 /\ ov7670_row_complete
        BY <1>1, <1>5, Sizes DEF DmaAt
      <4>4. QED
        BY <2>5, <4>2, <4>3 DEF RowInStep
    <3>2. ov7670_state' = "error" /\ UNCHANGED <<ov7670_row_complete, semProcessNewLine, LinePending>>
      BY <1>1, <2>1, <2>5 DEF LinePending, StartReady
    <3>3. TypeOK'
      BY <1>1, <1>2, <2>1, <2>2, <3>2 DEF TypeOK
    <3>4. LineSem' /\ CopyTurn' /\ DmaAt'
      BY <1>1, <2>3, <3>2 DEF LineSem, CopyTurn, DmaAt
    <3>5. Filling' /\ Filled' /\ Copied'
      BY <3>2 DEF Filling, Filled, Copied
    <3>6. Glitches'
      BY <1>3, <3>1 DEF Glitches, NoFalseAlarm
    <3>7. QED
      BY <3>3, <3>4, <3>5, <3>6 DEF CameraInv
  <2>6. QED
    BY <2>4, <2>5
<1>6. CASE ov7670_state = "taking" /\ ~ov7670_active_row
  <2>1. /\ ~LinePending /\ dma' = [dma EXCEPT !.on = TRUE] /\ ov7670_active_row' = TRUE
        /\ ov7670_current_row' = row + 1
        /\ UNCHANGED <<ov7670_state, ov7670_row_complete, semProcessNewLine>>
    BY <1>6 DEF horizontal_ref_falling, SkippedRowEnds
  <2>2. /\ line = 2 * row + 1 /\ row < Rows /\ dma.daddr = 0 /\ ~ov7670_row_complete
        /\ pictures > 0 /\ ~ov7670_picture_requested
    BY <1>1, <1>6 DEF DmaAt, CopyTurn
  <2>3. /\ dma' \in [on : BOOLEAN, daddr : 0..Words - 1, irq : BOOLEAN]
        /\ dma'.on /\ ~dma'.irq /\ dma'.daddr = 0
    BY <1>1, <1>2, <2>1, <2>2
  <2>4. ~LinePending'
    BY <1>1, <2>1 DEF LinePending, StartReady
  <2>5. TypeOK'
    <3>1. ov7670_current_row' \in 0..Rows
      BY <1>2, <2>1, <2>2, Sizes
    <3>2. QED
      BY <1>1, <1>2, <2>1, <2>3, <3>1 DEF TypeOK
  <2>6. LineSem' /\ CopyTurn'
    BY <1>1, <2>1, <2>2, <2>4 DEF LineSem, CopyTurn
  <2>7. DmaAt'
    <3>1. line' = 2 * ov7670_current_row' /\ 0 < Words /\ ~(Words <= 0) /\ ~(0 >= 2 * Words)
      BY <1>1, <1>2, <2>1, <2>2, Sizes
    <3>2. QED
      BY <1>1, <1>6, <2>1, <2>2, <2>3, <3>1 DEF DmaAt
  <2>8. Filling' /\ Filled'
    BY <1>1, <2>4 DEF Filling, Filled
  <2>9. Copied'
    <3>1. Captured' = Captured
      BY <1>2, <1>6, <2>1 DEF Captured
    <3>2. ASSUME NEW r, NEW c PROVE Done(r, c)
      BY <2>1 DEF Done
    <3>3. QED
      BY <1>1, <1>6, <3>1, <3>2 DEF Copied, Tag
  <2>10. Glitches'
    BY <1>1, <1>3, <1>6, <2>1 DEF Glitches, NoFalseAlarm
  <2>11. QED
    BY <2>5, <2>6, <2>7, <2>8, <2>9, <2>10 DEF CameraInv
<1>7. QED
  BY <1>4, <1>5, <1>6

\* A frame begins with nothing left to copy and the DMA at rest.
LEMMA FrameKeeps == CameraInv /\ vertical_sync_rising => CameraInv'
<1> SUFFICES ASSUME CameraInv, vertical_sync_rising PROVE CameraInv'
  OBVIOUS
<1>1. /\ TypeOK /\ LineSem /\ CopyTurn /\ DmaAt /\ Filling /\ Filled /\ Copied /\ Glitches
      /\ ~dma.irq /\ line > 0 /\ line' = 0 /\ word' = 0
      /\ glitched' = (glitched \/ line # 2 * Rows \/ word > 0)
      /\ UNCHANGED <<aux_buffer, bitmap_matrix, semProcessNewLine, pc2, col, LinePending>>
  BY DEF CameraInv, vertical_sync_rising, LinePending, StartReady
<1>2. /\ line' \in 0..MaxLines /\ word' \in 0..MaxWords /\ glitched' \in BOOLEAN
      /\ photo_ready_sem \in Sem
      /\ dma \in [on : BOOLEAN, daddr : 0..Words - 1, irq : BOOLEAN]
  BY <1>1, Sizes DEF TypeOK
<1>3. (glitched => glitched') /\ ~(word' > Words) /\ ~(word' > 0)
  <2>1. glitched => glitched'
    BY <1>1, Zenon
  <2>2. QED
    BY <1>1, <2>1, Sizes
<1>4. LineSem'
  BY <1>1 DEF LineSem
<1>5. ASSUME NEW r, NEW c, UNCHANGED ov7670_current_row PROVE Done(r, c)' <=> Done(r, c)
  BY <1>1, <1>5 DEF Done
<1>6. CASE ov7670_state = "taking"
  <2>1. /\ dma' = [dma EXCEPT !.on = FALSE] /\ ov7670_state' = "picture"
        /\ photo_ready_sem' = OSSemPostAll(photo_ready_sem)
        /\ UNCHANGED <<ov7670_picture_requested, ov7670_current_row, ov7670_active_row,
                       ov7670_row_complete, pictures>>
        /\ sent' = line
    BY <1>6 DEF vertical_sync_rising, FrameOver, DmaOff
  <2>2. /\ dma' \in [on : BOOLEAN, daddr : 0..Words - 1, irq : BOOLEAN]
        /\ ~dma'.on /\ ~dma'.irq
    BY <1>1, <1>2, <2>1
  <2>3. photo_ready_sem' \in Sem
    BY <1>2, <2>1, SemPostAll
  <2>4. TypeOK'
    BY <1>1, <1>2, <2>1, <2>2, <2>3 DEF TypeOK
  <2>5. CopyTurn' /\ DmaAt' /\ Glitches'
    BY <1>1, <1>3, <2>1, <2>2 DEF CopyTurn, DmaAt, Glitches, NoFalseAlarm
  <2>6. Filling' /\ Filled' /\ Copied'
    BY <1>1, <1>5, <1>6, <2>1 DEF Filling, Filled, Copied, Captured, Tag
  <2>7. QED
    BY <1>4, <2>4, <2>5, <2>6 DEF CameraInv
<1>7. CASE ov7670_state # "taking" /\ MayBegin
  <2>1. /\ ov7670_picture_requested' = FALSE /\ ov7670_state' = "taking"
        /\ ov7670_current_row' = 0 /\ ov7670_active_row' = TRUE
        /\ ov7670_row_complete' = FALSE
        /\ dma' = [dma EXCEPT !.on = TRUE, !.daddr = 0]
        /\ pictures' = pictures + 1 /\ sent' = 0 /\ UNCHANGED photo_ready_sem
    BY <1>7 DEF vertical_sync_rising, FrameBegins
  <2>2. ~LinePending /\ ~LinePending' /\ pictures < MaxPictures
    BY <1>1, <1>7 DEF MayBegin, CopyTurn
  <2>3. /\ dma' \in [on : BOOLEAN, daddr : 0..Words - 1, irq : BOOLEAN]
        /\ dma'.on /\ ~dma'.irq /\ dma'.daddr = 0
    <3>1. 0 \in 0..Words - 1
      BY Sizes
    <3>2. ~dma.irq /\ dma' = [dma EXCEPT !.on = TRUE, !.daddr = 0]
      BY <1>1, <2>1
    <3>3. QED
      BY <1>2, <3>1, <3>2
  <2>4. pictures' \in 0..MaxPictures /\ pictures' > 0 /\ ov7670_current_row' \in 0..Rows
    <3>1. pictures \in 0..MaxPictures
      BY <1>1 DEF TypeOK
    <3>2. pictures' = pictures + 1 /\ pictures < MaxPictures /\ ov7670_current_row' = 0
      BY <2>1, <2>2
    <3>3. QED
      BY <3>1, <3>2, Sizes
  <2>5. TypeOK'
    BY <1>1, <1>2, <2>1, <2>3, <2>4, Sizes DEF TypeOK
  <2>6. CopyTurn' /\ Glitches'
    BY <1>1, <1>3, <2>1, <2>2 DEF CopyTurn, Glitches, NoFalseAlarm
  <2>7. DmaAt'
    <3>1. line' = 2 * ov7670_current_row' /\ 0 < Words /\ ~(Words <= 0) /\ ~(0 >= 2 * Words)
      BY <1>1, <2>1, Sizes
    <3>2. QED
      BY <1>1, <2>1, <2>3, <2>4, <3>1 DEF DmaAt
  <2>8. Filling' /\ Filled'
    BY <1>1, <2>2 DEF Filling, Filled
  <2>9. Copied'
    BY <2>1 DEF Copied, Captured
  <2>10. QED
    BY <1>4, <2>5, <2>6, <2>7, <2>8, <2>9 DEF CameraInv
<1>8. CASE ov7670_state # "taking" /\ ~MayBegin
  <2>1. UNCHANGED <<ov7670_state, ov7670_picture_requested, ov7670_current_row,
                    ov7670_active_row, ov7670_row_complete, dma, photo_ready_sem, taken>>
    BY <1>8 DEF vertical_sync_rising, driver
  <2>2. TypeOK'
    BY <1>1, <1>2, <2>1 DEF TypeOK
  <2>3. CopyTurn' /\ DmaAt' /\ Glitches'
    BY <1>1, <1>3, <1>8, <2>1 DEF CopyTurn, DmaAt, Glitches, NoFalseAlarm
  <2>4. Filling' /\ Filled' /\ Copied'
    BY <1>1, <1>5, <1>8, <2>1 DEF Filling, Filled, Copied, Captured, Tag
  <2>5. QED
    BY <1>4, <2>2, <2>3, <2>4 DEF CameraInv
<1>9. QED
  BY <1>6, <1>7, <1>8

-----------------------------------------------------------------------------
(* The client *)

\* Task2 runs only when TaskStart waits for a line, and then none is pending.
LEMMA ClientKeeps == CameraInv /\ Task2 => CameraInv'
<1> SUFFICES ASSUME CameraInv, Task2 PROVE CameraInv'
  OBVIOUS
<1>1. TypeOK /\ LineSem /\ CopyTurn /\ DmaAt /\ Filling /\ Filled /\ Copied /\ Glitches
  BY DEF CameraInv
<1>2. ~LinePending
  BY <1>1 DEF Task2, StartReady, LinePending, LineSem
<1>3. /\ UNCHANGED <<ov7670_state, ov7670_current_row, ov7670_active_row,
                     ov7670_row_complete, dma, aux_buffer, bitmap_matrix,
                     semProcessNewLine, col, line, word, glitched, taken, LinePending>>
      /\ photo_ready_sem' \in Sem /\ pc2' \in {"take", "photo_pend"}
      /\ ov7670_picture_requested' \in BOOLEAN
      /\ ov7670_picture_requested' =>
           \/ ov7670_picture_requested
           \/ ov7670_state # "taking" /\ pictures < MaxPictures
  <2>1. CASE OV7670_TakePicture
    BY <1>1, <2>1 DEF TypeOK, OV7670_TakePicture, sems, sensor, LinePending, StartReady
  <2>2. CASE PendPhoto
    <3>1. photo_ready_sem' \in Sem
      BY <1>1, <2>2, SemPend DEF TypeOK, PendPhoto, Task
    <3>2. QED
      BY <1>1, <2>2, <3>1 DEF TypeOK, PendPhoto, driver, sensor, LinePending, StartReady
  <2>3. QED
    BY <2>1, <2>2 DEF Task2
<1>4. TypeOK'
  BY <1>1, <1>3 DEF TypeOK
<1>5. LineSem' /\ CopyTurn'
  BY <1>1, <1>2, <1>3 DEF LineSem, CopyTurn
<1>6. DmaAt' /\ Glitches'
  BY <1>1, <1>3 DEF DmaAt, Glitches, NoFalseAlarm
<1>7. Filling' /\ Filled'
  BY <1>1, <1>3 DEF Filling, Filled, Tag
<1>8. Copied'
  <2>1. ASSUME NEW r, NEW c PROVE Done(r, c)' <=> Done(r, c)
    BY <1>3 DEF Done
  <2>2. QED
    BY <1>1, <1>3, <2>1 DEF Copied, Captured, Tag
<1>9. QED
  BY <1>4, <1>5, <1>6, <1>7, <1>8 DEF CameraInv

-----------------------------------------------------------------------------
(* The theorems *)

\* The strengthening of the driver's invariants that every step keeps.
THEOREM CameraInvariant == Spec => []CameraInv
<1>1. Init => CameraInv
  <2> SUFFICES ASSUME Init PROVE CameraInv
    OBVIOUS
  <2>1. /\ NewSem \in Sem /\ Stale \in Word /\ NewSem.wait = {} /\ NewSem.ctr = 0
    BY Sizes DEF NewSem, Sem, Stale, Word
  <2>2. TypeOK
    <3>1. /\ aux_buffer \in [0..Words - 1 -> Word]
          /\ bitmap_matrix \in [0..Rows - 1 -> [0..Cols - 1 -> Word]]
      BY <2>1 DEF Init
    <3>2. dma \in [on : BOOLEAN, daddr : 0..Words - 1, irq : BOOLEAN]
      BY Sizes DEF Init
    <3>3. /\ ov7670_state = "busy" /\ ov7670_picture_requested \in BOOLEAN
          /\ ov7670_active_row \in BOOLEAN /\ ov7670_row_complete \in BOOLEAN
          /\ glitched \in BOOLEAN /\ pc2 = "take"
          /\ semProcessNewLine \in Sem /\ photo_ready_sem \in Sem
      BY <2>1 DEF Init
    <3>4. /\ ov7670_current_row \in 0..Rows /\ col \in 0..Cols /\ line \in 0..MaxLines
          /\ word \in 0..MaxWords /\ pictures \in 0..MaxPictures
          /\ sent \in 0..MaxLines
      BY Sizes DEF Init
    <3>5. QED
      BY <3>1, <3>2, <3>3, <3>4 DEF TypeOK
  <2>3. ~LinePending /\ LineSem
    BY <2>1, Sizes DEF Init, LinePending, LineSem
  <2>4. CopyTurn /\ DmaAt
    BY <2>3 DEF Init, CopyTurn, DmaAt
  <2>5. Filling /\ Filled /\ Copied
    BY DEF Init, Filling, Filled, Copied
  <2>6. Glitches
    BY Sizes DEF Init, Glitches, NoFalseAlarm
  <2>7. QED
    BY <2>2, <2>3, <2>4, <2>5, <2>6 DEF CameraInv
<1>2. CameraInv /\ [Next]_vars => CameraInv'
  <2> SUFFICES ASSUME CameraInv, [Next]_vars PROVE CameraInv'
    OBVIOUS
  <2>1. CASE TaskStart
    BY <2>1, PendLineKeeps, CopyKeeps DEF TaskStart
  <2>2. CASE Task2
    BY <2>2, ClientKeeps
  <2>3. CASE Sensor
    BY <2>3, PixelKeeps, RowEndKeeps, FrameKeeps DEF Sensor
  <2>4. CASE DMA_mayor_int \/ I2C_finished_callback
    BY <2>4, DmaInterruptKeeps, ConfiguredKeeps
  <2>5. CASE UNCHANGED vars
    BY <2>5 DEF vars, driver, sensor, sems, CameraInv, TypeOK, LineSem, CopyTurn, DmaAt,
                Filling, Filled, Copied, Done, Captured, Tag, Glitches, NoFalseAlarm,
                LinePending, StartReady
  <2>6. QED
    BY <2>1, <2>2, <2>3, <2>4, <2>5 DEF Next
<1>3. QED
  BY <1>1, <1>2, PTL DEF Spec

\* The type invariant of the driver.
THEOREM CameraTypes == Spec => []TypeOK
<1>1. CameraInv => TypeOK
  BY DEF CameraInv
<1>2. QED
  BY <1>1, CameraInvariant, PTL

\* OV7670_process_new_line never writes past bitmap_matrix, however many lines a
\* frame has.
THEOREM CopyStaysInBounds == Spec => []CopyInBounds
<1>1. CameraInv => CopyInBounds
  BY DEF CameraInv, CopyTurn, CopyInBounds
<1>2. QED
  BY <1>1, CameraInvariant, PTL

\* The checks of horizontal_ref_falling and DMA_mayor_int fail only for a sensor
\* that has sent a line or a frame of another length.
THEOREM NoFalseAlarms == Spec => []NoFalseAlarm
<1>1. CameraInv => NoFalseAlarm
  BY DEF CameraInv, Glitches
<1>2. QED
  BY <1>1, CameraInvariant, PTL

\* The driver has counted every line of the frame that an announced picture is
\* of, in two's: rows, and whether a line to be skipped comes next.
Counted ==
  ov7670_state = "picture" =>
    sent = 2 * ov7670_current_row + IF ov7670_active_row THEN 0 ELSE 1

\* Counted is kept: while a picture is taken, DmaAt counts the lines.
LEMMA CountedStep ==
  ASSUME CameraInv, Counted, [Next]_vars
  PROVE  Counted'
<1> USE DEF Counted
<1>1. CASE vertical_sync_rising
  <2>1. CASE ov7670_state = "taking" /\ FrameOver
    <3>1. line = 2 * ov7670_current_row + IF ov7670_active_row THEN 0 ELSE 1
      <4>1. ov7670_current_row \in Nat /\ ov7670_active_row \in BOOLEAN
        BY Sizes DEF CameraInv, TypeOK
      <4>2. QED
        BY <2>1, <4>1 DEF CameraInv, DmaAt
    <3>2. QED
      BY <2>1, <3>1 DEF FrameOver
  <2>2. CASE FrameBegins
    BY <2>2 DEF FrameBegins
  <2>3. CASE UNCHANGED <<driver, dma, photo_ready_sem, taken>>
    BY <2>3 DEF driver
  <2>4. QED
    BY <1>1, <2>1, <2>2, <2>3 DEF vertical_sync_rising
<1>2. CASE horizontal_ref_falling
  BY <1>2
  DEF horizontal_ref_falling, ActiveRowEnds, SkippedRowEnds, driver
<1>3. CASE ~vertical_sync_rising /\ ~horizontal_ref_falling
  BY <1>3
  DEF Next, vars, TaskStart, PendLine, OV7670_process_new_line, Task2, OV7670_TakePicture,
      PendPhoto, Sensor, PixelClock, DMA_mayor_int, I2C_finished_callback, driver
<1>4. QED
  BY <1>1, <1>2, <1>3

\* Every line the sensor sent for an announced picture, of any size, is where it
\* belongs in bitmap_matrix, pixel by pixel.
THEOREM PictureRowsInPlace == Spec => []RowsInPlace
<1>1. CameraInv /\ Counted => RowsInPlace
  <2> SUFFICES ASSUME CameraInv, Counted, ov7670_state = "picture", ~LinePending,
                      NEW r \in 0..Rows - 1, NEW c \in 0..Cols - 1, 2 * r < sent
               PROVE  bitmap_matrix[r][c] = Tag(2 * r, 4 * c + 1)
    BY DEF RowsInPlace, Tag
  <2>1. Done(r, c)
    BY DEF Done
  <2>2. r \in 0..Captured - 1
    <3>1. ov7670_current_row \in Nat /\ r \in Nat
      BY Sizes DEF CameraInv, TypeOK
    <3>2. QED
      BY <3>1 DEF Counted, Captured
  <2>3. QED
    BY <2>1, <2>2 DEF CameraInv, Copied
<1>2. Init => Counted
  BY DEF Init, Counted
<1>3. QED
  BY <1>1, <1>2, CountedStep, CameraInvariant, PTL DEF Spec

\* The DMA writes to aux_buffer only while no line of it is to be copied.
THEOREM CopyAlwaysStable == Spec => CopyIsStable
<1>1. CameraInv /\ [Next]_vars => (LinePending => aux_buffer' = aux_buffer)
  <2> SUFFICES ASSUME CameraInv, [Next]_vars, LinePending PROVE aux_buffer' = aux_buffer
    OBVIOUS
  <2>1. ~dma.on
    BY DEF CameraInv, CopyTurn
  <2>2. CASE PixelClock
    BY <2>1, <2>2 DEF PixelClock, Transfer
  <2>3. CASE Next /\ ~PixelClock
    BY <2>3 DEF Next, TaskStart, PendLine, OV7670_process_new_line, Task2,
                OV7670_TakePicture, PendPhoto, Sensor, horizontal_ref_falling,
                vertical_sync_rising, DMA_mayor_int, I2C_finished_callback
  <2>4. CASE UNCHANGED vars
    BY <2>4 DEF vars
  <2>5. QED
    BY <2>2, <2>3, <2>4
<1>2. QED
  BY <1>1, CameraInvariant, PTL DEF Spec, CopyIsStable

-----------------------------------------------------------------------------
(* The driver implements module Camera *)

ContractStep ==
  [Contract!CameraInterrupt \/ Contract!CameraCall]_(Contract!cameraVars)

\* A step that Camera does not see.
LEMMA Unseen ==
  ASSUME UNCHANGED <<ov7670_state, ov7670_picture_requested, ov7670_current_row,
                     ov7670_active_row, pictures, semProcessNewLine, photo_ready_sem>>
  PROVE  ContractStep
BY DEF ContractStep, Contract!cameraVars, Seen, Lines, Captured

\* The steps of TaskStart and of Task2 are calls of the driver.
LEMMA CallStep == CameraInv /\ (TaskStart \/ Task2) => ContractStep
<1> SUFFICES ASSUME CameraInv, TaskStart \/ Task2 PROVE ContractStep
  OBVIOUS
<1>1. CASE PendLine
  <2>1. UNCHANGED Seen
    BY <1>1 DEF PendLine, driver, Seen, Lines, Captured
  <2>2. QED
    BY <1>1, <2>1 DEF PendLine, StartReady, ContractStep, Contract!CameraCall,
                      Contract!PendNewLine, Contract!OSSemPend, OSSemPend
<1>2. CASE OV7670_process_new_line
  BY <1>2, Unseen DEF OV7670_process_new_line, driver, sems
<1>3. CASE Task2 /\ OV7670_TakePicture
  <2>1. /\ Seen' = [Seen EXCEPT !.requested = TRUE]
        /\ ~Seen.requested /\ Seen.state # "taking"
        /\ UNCHANGED <<semProcessNewLine, photo_ready_sem>>
    <3>1. Lines' = Lines
      BY <1>3 DEF OV7670_TakePicture, Lines, Captured
    <3>2. /\ ov7670_state' = ov7670_state /\ ov7670_picture_requested' = TRUE
          /\ ~ov7670_picture_requested /\ ov7670_state # "taking"
          /\ UNCHANGED <<semProcessNewLine, photo_ready_sem>>
      BY <1>3 DEF OV7670_TakePicture, sems
    <3>3. Seen' = [Seen EXCEPT !.requested = TRUE]
      <4>1. Seen = [state |-> ov7670_state, requested |-> ov7670_picture_requested,
                    lines |-> Lines]
        BY DEF Seen
      <4>2. PICK yes : yes = TRUE
        OBVIOUS
      <4>3. Seen' = [state |-> ov7670_state, requested |-> yes, lines |-> Lines]
        <5>1. ov7670_picture_requested' = yes
          BY <3>2, <4>2, Zenon
        <5>2. QED
          BY <3>1, <3>2, <5>1, Zenon DEF Seen
      <4>4. Seen' = [Seen EXCEPT !.requested = yes]
        BY <4>1, <4>3
      <4>5. QED
        BY <4>2, <4>4, Zenon
    <3>4. ~Seen.requested /\ Seen.state # "taking"
      BY <3>2 DEF Seen
    <3>5. QED
      BY <3>2, <3>3, <3>4
  <2>2. QED
    BY <1>3, <2>1 DEF Task2, StartReady, ContractStep, Contract!CameraCall,
                      Contract!RequestPicture
<1>4. CASE Task2 /\ PendPhoto
  <2>1. UNCHANGED Seen
    BY <1>4 DEF PendPhoto, driver, Seen, Lines, Captured
  <2>2. QED
    BY <1>4, <2>1 DEF PendPhoto, Task2, StartReady, ContractStep, Contract!CameraCall,
                      Contract!PendPicture, Contract!OSSemPend, OSSemPend
<1>5. QED
  BY <1>1, <1>2, <1>3, <1>4 DEF TaskStart, Task2

\* The steps of the sensor and the DMA are interrupts of the driver or unseen.
LEMMA InterruptStep ==
  CameraInv /\ (Sensor \/ DMA_mayor_int \/ I2C_finished_callback) => ContractStep
<1> SUFFICES ASSUME CameraInv, Sensor \/ DMA_mayor_int \/ I2C_finished_callback
             PROVE  ContractStep
  OBVIOUS
<1>1. TypeOK /\ DmaAt /\ CopyTurn
  BY DEF CameraInv
<1>2. /\ ov7670_state \in {"busy", "ready", "taking", "picture", "error"}
      /\ ov7670_current_row \in 0..Rows /\ ov7670_active_row \in BOOLEAN
      /\ pictures \in Nat /\ line \in Nat
  BY <1>1, Sizes DEF TypeOK
<1>3. CASE I2C_finished_callback
  <2>1. /\ Seen.state = "busy" /\ Seen' = [Seen EXCEPT !.state = "ready"]
        /\ UNCHANGED <<semProcessNewLine, photo_ready_sem>>
    BY <1>3 DEF I2C_finished_callback, sems, Seen, Lines, Captured
  <2>2. QED
    BY <2>1 DEF ContractStep, Contract!CameraInterrupt, Contract!Configured
<1>4. CASE PixelClock
  BY <1>4, Unseen DEF PixelClock, driver, sems
<1>5. ASSUME ov7670_state = "taking", ov7670_state' = "error",
             UNCHANGED <<ov7670_picture_requested, semProcessNewLine, photo_ready_sem>>
      PROVE  ContractStep
  <2>1. Seen.state = "taking" /\ Seen' = [Seen EXCEPT !.state = "error", !.lines = 0]
    <3>1. Lines' = 0
      BY <1>5 DEF Lines
    <3>2. Seen.state = "taking"
      BY <1>5 DEF Seen
    <3>3. /\ Seen = [state |-> ov7670_state, requested |-> ov7670_picture_requested,
                     lines |-> Lines]
          /\ Seen' = [state |-> "error", requested |-> ov7670_picture_requested, lines |-> 0]
      BY <1>5, <3>1 DEF Seen
    <3>4. Seen' = [Seen EXCEPT !.state = "error", !.lines = 0]
      <4> DEFINE failed == [Seen EXCEPT !.state = "error"]
      <4>1. failed = [state |-> "error", requested |-> ov7670_picture_requested,
                      lines |-> Lines]
        BY <3>3
      <4> HIDE DEF failed
      <4>2. Seen' = [failed EXCEPT !.lines = 0]
        BY <3>3, <4>1
      <4>3. QED
        BY <4>2 DEF failed
    <3>5. QED
      BY <3>2, <3>4
  <2>2. QED
    BY <1>5, <2>1 DEF ContractStep, Contract!CameraInterrupt, Contract!FrameFail
<1>6. CASE DMA_mayor_int
  <2>1. ov7670_state \in {"taking", "error"}
    BY <1>1, <1>2, <1>6 DEF DMA_mayor_int, DmaAt
  <2>2. CASE ov7670_state' = ov7670_state
    BY <1>6, <2>2, Unseen DEF DMA_mayor_int, sems
  <2>3. CASE ov7670_state' # ov7670_state
    BY <1>5, <1>6, <2>1, <2>3 DEF DMA_mayor_int, sems
  <2>4. QED
    BY <2>2, <2>3
<1>7. CASE horizontal_ref_falling
  <2>1. UNCHANGED <<ov7670_picture_requested, photo_ready_sem, taken>>
    BY <1>7 DEF horizontal_ref_falling
  <2>2. CASE ov7670_state # "taking"
    BY <1>7, <2>2, Unseen DEF horizontal_ref_falling, driver
  <2>3. CASE ov7670_state = "taking" /\ ~ov7670_active_row
    <3>1. /\ ov7670_current_row' = ov7670_current_row + 1 /\ ov7670_active_row' = TRUE
          /\ UNCHANGED <<ov7670_state, semProcessNewLine>>
      BY <1>7, <2>3 DEF horizontal_ref_falling, SkippedRowEnds
    <3>2. UNCHANGED Seen
      BY <1>2, <2>1, <2>3, <3>1 DEF Seen, Lines, Captured
    <3>3. QED
      BY <2>1, <3>1, <3>2 DEF ContractStep, Contract!cameraVars
  <2>4. CASE ov7670_state = "taking" /\ ov7670_active_row
    <3>1. CASE ~RowInStep
      BY <1>5, <1>7, <2>1, <2>4, <3>1 DEF horizontal_ref_falling, ActiveRowEnds
    <3>2. CASE RowInStep
      <4>1. /\ ov7670_active_row' = FALSE /\ ov7670_current_row < Rows
            /\ UNCHANGED <<ov7670_state, ov7670_current_row>>
            /\ semProcessNewLine' = OSSemPostAll(semProcessNewLine)
        BY <1>7, <2>4, <3>2 DEF horizontal_ref_falling, ActiveRowEnds, RowInStep
      <4>2. pictures > 0
        BY <1>1, <2>4 DEF DmaAt
      <4>3. /\ Lines = ov7670_current_row /\ Lines' = Lines + 1
        BY <1>2, <2>1, <2>4, <4>1, <4>2 DEF Lines, Captured
      <4>4. /\ Seen.state = "taking" /\ Seen.lines < Rows
            /\ Seen' = [Seen EXCEPT !.lines = @ + 1]
        BY <2>1, <2>4, <4>1, <4>3 DEF Seen
      <4>5. QED
        BY <2>1, <4>1, <4>4 DEF ContractStep, Contract!CameraInterrupt, Contract!LineEnd,
                               Contract!OSSemPostAll, OSSemPostAll
    <3>3. QED
      BY <3>1, <3>2
  <2>5. QED
    BY <2>2, <2>3, <2>4
<1>8. CASE vertical_sync_rising
  <2>1. line > 0 /\ UNCHANGED semProcessNewLine
    BY <1>8 DEF vertical_sync_rising
  <2>2. CASE ov7670_state = "taking"
    <3>1. /\ ov7670_state' = "picture" /\ photo_ready_sem' = OSSemPostAll(photo_ready_sem)
          /\ UNCHANGED <<ov7670_picture_requested, ov7670_current_row, ov7670_active_row,
                         pictures>>
      BY <1>8, <2>2 DEF vertical_sync_rising, FrameOver
    <3>2. Lines > 0 /\ Lines' = Lines
      BY <1>1, <1>2, <2>1, <2>2, <3>1 DEF Lines, Captured, DmaAt
    <3>3. /\ Seen.state = "taking" /\ Seen.lines > 0
          /\ Seen' = [Seen EXCEPT !.state = "picture"]
      BY <2>2, <3>1, <3>2 DEF Seen
    <3>4. QED
      BY <2>1, <3>1, <3>3 DEF ContractStep, Contract!CameraInterrupt, Contract!FrameEnd,
                             Contract!OSSemPostAll, OSSemPostAll
  <2>3. CASE ov7670_state # "taking" /\ MayBegin
    <3>1. /\ ov7670_state \in {"ready", "picture"} /\ ov7670_picture_requested
          /\ ov7670_state' = "taking" /\ ov7670_picture_requested' = FALSE
          /\ ov7670_current_row' = 0 /\ ov7670_active_row' = TRUE
          /\ UNCHANGED photo_ready_sem
      BY <1>8, <2>3 DEF vertical_sync_rising, FrameBegins, MayBegin
    <3>2. Seen' = [state |-> "taking", requested |-> FALSE, lines |-> 0]
      <4>1. Lines' = 0
        BY <3>1 DEF Lines, Captured
      <4>2. QED
        BY <3>1, <4>1 DEF Seen
    <3>3. Seen.requested /\ Seen.state \in {"ready", "picture"}
      BY <3>1 DEF Seen
    <3>4. QED
      BY <2>1, <3>1, <3>2, <3>3 DEF ContractStep, Contract!CameraInterrupt,
                                    Contract!FrameStart
  <2>4. CASE ov7670_state # "taking" /\ ~MayBegin
    BY <1>8, <2>4, Unseen DEF vertical_sync_rising, driver
  <2>5. QED
    BY <2>2, <2>3, <2>4
<1>9. QED
  BY <1>3, <1>4, <1>6, <1>7, <1>8 DEF Sensor

\* Transfer by transfer and interrupt by interrupt, OV7670.c does only what the
\* abstract camera, which the whole system's model uses, may do.
THEOREM DriverImplementsCamera == Spec => DriverKeepsContract
<1>1. Init => Contract!CameraInit
  <2> SUFFICES ASSUME Init PROVE Contract!CameraInit
    OBVIOUS
  <2>1. Lines = 0
    BY DEF Init, Lines
  <2>2. Seen = [state |-> "busy", requested |-> FALSE, lines |-> 0]
    BY <2>1 DEF Init, Seen
  <2>3. QED
    BY <2>2 DEF Init, Contract!CameraInit, Contract!NewSem, NewSem
<1>2. CameraInv /\ [Next]_vars => ContractStep
  <2> SUFFICES ASSUME CameraInv, [Next]_vars PROVE ContractStep
    OBVIOUS
  <2>1. CASE UNCHANGED vars
    BY <2>1, Unseen DEF vars, driver, sems
  <2>2. QED
    BY <2>1, CallStep, InterruptStep DEF Next
<1>3. QED
  BY <1>1, <1>2, CameraInvariant, PTL
  DEF Spec, DriverKeepsContract, Contract!CameraSpec, ContractStep
=============================================================================
