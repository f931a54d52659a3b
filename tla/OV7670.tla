------------------------------- MODULE OV7670 -------------------------------
(***************************************************************************)
(* The camera driver (OV7670.c, DMA.c) transfer by transfer.  The sensor   *)
(* sends frames of lines of words.  A DMA channel, which the driver        *)
(* switches on for every other line, moves them to aux_buffer; TaskStart   *)
(* then copies one word in four of aux_buffer to a row of bitmap_matrix.   *)
(*                                                                         *)
(* A word is tagged with the picture, the line and the position it is of.  *)
(* The sensor is external; it may send lines and frames that are too long  *)
(* or too short, and `glitched' remembers that it has.                     *)
(***************************************************************************)
EXTENDS Rtos, Integers

CONSTANTS Rows,         \* of bitmap_matrix (240)
          Cols,         \* of bitmap_matrix (320)
          MaxPictures   \* bound: pictures requested

ASSUME SensorAssumption ==
  /\ Rows \in Nat \ {0} /\ Cols \in Nat \ {0} /\ MaxPictures \in Nat

Words    == 4 * Cols      \* transfers of a line, the DMA's major loop
MaxWords == 2 * Words + 1 \* bound: words of a line that is too long
MaxLines == 2 * Rows + 1  \* bound: lines of a frame that is too long

VARIABLES
  ov7670_state, ov7670_picture_requested, ov7670_current_row,
  ov7670_active_row, ov7670_row_complete,
  dma,           \* requests enabled, next word of aux_buffer, interrupt pending
  aux_buffer, bitmap_matrix,
  semProcessNewLine, photo_ready_sem,
  pc2,           \* Task2: about to ask for a picture or to wait for it
  col,           \* TaskStart: the column it copies next, Cols when it pends
  line, word,    \* the sensor's place in the frame
  glitched,      \* history: the sensor has been out of step
  pictures,      \* pictures started
  sent           \* history: lines of the frame of the last picture

driver == <<ov7670_state, ov7670_picture_requested, ov7670_current_row,
            ov7670_active_row, ov7670_row_complete>>
sensor == <<line, word, glitched>>
sems   == <<semProcessNewLine, photo_ready_sem>>
taken  == <<pictures, sent>>
vars   == <<driver, dma, aux_buffer, bitmap_matrix, sems, pc2, col, sensor,
            taken>>

Word  == [picture : 0..MaxPictures, line : 0..MaxLines, at : 0..MaxWords]
Stale == [picture |-> 0, line |-> 0, at |-> 0]

TypeOK ==
  /\ ov7670_state \in {"busy", "ready", "taking", "picture", "error"}
  /\ ov7670_picture_requested \in BOOLEAN /\ ov7670_current_row \in 0..Rows
  /\ ov7670_active_row \in BOOLEAN /\ ov7670_row_complete \in BOOLEAN
  /\ dma \in [on : BOOLEAN, daddr : 0..Words - 1, irq : BOOLEAN]
  /\ aux_buffer \in [0..Words - 1 -> Word]
  /\ bitmap_matrix \in [0..Rows - 1 -> [0..Cols - 1 -> Word]]
  /\ semProcessNewLine \in Sem /\ photo_ready_sem \in Sem
  /\ pc2 \in {"take", "photo_pend"}
  /\ col \in 0..Cols /\ line \in 0..MaxLines /\ word \in 0..MaxWords
  /\ glitched \in BOOLEAN /\ pictures \in 0..MaxPictures /\ sent \in 0..MaxLines

\* After OV7670_Init, with the register writes still queued.
Init ==
  /\ ov7670_state = "busy" /\ ov7670_picture_requested = FALSE
  /\ ov7670_current_row = 0 /\ ov7670_active_row = TRUE
  /\ ov7670_row_complete = FALSE
  /\ dma = [on |-> FALSE, daddr |-> 0, irq |-> FALSE]
  /\ aux_buffer = [w \in 0..Words - 1 |-> Stale]
  /\ bitmap_matrix = [r \in 0..Rows - 1 |-> [c \in 0..Cols - 1 |-> Stale]]
  /\ semProcessNewLine = NewSem /\ photo_ready_sem = NewSem
  /\ pc2 = "take" /\ col = Cols /\ line = 0 /\ word = 0
  /\ glitched = FALSE /\ pictures = 0 /\ sent = 0

StartReady == "TaskStart" \notin semProcessNewLine.wait

\* A line that TaskStart has still to copy, wholly or in part.
LinePending == semProcessNewLine.ctr > 0 \/ (StartReady /\ col < Cols)

-----------------------------------------------------------------------------
(* TaskStart: OV7670_run *)

PendLine ==
  /\ StartReady /\ col = Cols /\ col' = 0
  /\ semProcessNewLine' = OSSemPend(semProcessNewLine, "TaskStart")
  /\ UNCHANGED <<driver, dma, aux_buffer, bitmap_matrix, photo_ready_sem, pc2,
                 sensor, taken>>

OV7670_process_new_line ==
  /\ StartReady /\ col < Cols /\ col' = col + 1
  /\ bitmap_matrix' =
       [bitmap_matrix EXCEPT ![ov7670_current_row][col] = aux_buffer[4 * col + 1]]
  /\ UNCHANGED <<driver, dma, aux_buffer, sems, pc2, sensor, taken>>

-----------------------------------------------------------------------------
(* Interrupts *)

I2C_finished_callback ==
  /\ ov7670_state = "busy" /\ ov7670_state' = "ready"
  /\ UNCHANGED <<ov7670_picture_requested, ov7670_current_row, ov7670_active_row,
                 ov7670_row_complete, dma, aux_buffer, bitmap_matrix, sems, pc2,
                 col, sensor, taken>>

\* The eDMA serves a pixel clock edge.  After Words of them it starts over at
\* aux_buffer and raises its interrupt.
Transfer ==
  IF dma.on
    THEN /\ aux_buffer' = [aux_buffer EXCEPT ![dma.daddr] =
                             [picture |-> pictures, line |-> line, at |-> word]]
         /\ dma' = [dma EXCEPT !.daddr = (@ + 1) % Words,
                               !.irq = @ \/ dma.daddr = Words - 1]
    ELSE UNCHANGED <<aux_buffer, dma>>

\* The sensor clocks out a word of a line.  A DMA interrupt is served within the
\* time of a line.
PixelClock ==
  /\ line < MaxLines /\ word < MaxWords
  /\ glitched' = (glitched \/ line >= 2 * Rows \/ word >= Words)
  /\ dma.irq => dma.daddr < Words - 1
  /\ word' = word + 1
  /\ Transfer
  /\ UNCHANGED <<driver, bitmap_matrix, sems, pc2, col, line, taken>>

DMA_mayor_int ==
  /\ dma.irq /\ dma' = [dma EXCEPT !.irq = FALSE]
  /\ \/ /\ ov7670_state # "error" /\ ov7670_row_complete
        /\ ov7670_state' = "error" /\ UNCHANGED ov7670_row_complete
     \/ /\ ov7670_state # "error" /\ ~ov7670_row_complete
        /\ ov7670_row_complete' = TRUE /\ UNCHANGED ov7670_state
     \/ ov7670_state = "error" /\ UNCHANGED <<ov7670_state, ov7670_row_complete>>
  /\ UNCHANGED <<ov7670_picture_requested, ov7670_current_row, ov7670_active_row,
                 aux_buffer, bitmap_matrix, sems, pc2, col, sensor, taken>>

\* Mutant: the DMA's place in aux_buffer is not checked.
RowInStepAnywhere == ov7670_current_row < Rows /\ ov7670_row_complete

\* Mutant: one row too many is accepted.
RowInStepLate ==
  ov7670_current_row <= Rows /\ ov7670_row_complete /\ dma.daddr = 0

\* The row exists, and the DMA has moved one line to aux_buffer, no more, no less.
RowInStep ==
  ov7670_current_row < Rows /\ ov7670_row_complete /\ dma.daddr = 0

\* Mutant: the DMA goes on during the skipped row.
DmaStaysOn == UNCHANGED dma

DmaOff == dma' = [dma EXCEPT !.on = FALSE]

\* Mutant: the completion of the row is not cleared.
ActiveRowEndsUncleared ==
  /\ DmaOff /\ ov7670_active_row' = FALSE
  /\ IF RowInStep
       THEN /\ UNCHANGED <<ov7670_row_complete, ov7670_state>>
            /\ semProcessNewLine' = OSSemPostAll(semProcessNewLine)
       ELSE /\ ov7670_state' = "error"
            /\ UNCHANGED <<ov7670_row_complete, semProcessNewLine>>
  /\ UNCHANGED ov7670_current_row

ActiveRowEnds ==
  /\ DmaOff /\ ov7670_active_row' = FALSE
  /\ IF RowInStep
       THEN /\ ov7670_row_complete' = FALSE /\ UNCHANGED ov7670_state
            /\ semProcessNewLine' = OSSemPostAll(semProcessNewLine)
       ELSE /\ ov7670_state' = "error"
            /\ UNCHANGED <<ov7670_row_complete, semProcessNewLine>>
  /\ UNCHANGED ov7670_current_row

\* The next row begins.  ~LinePending is no test of the code but an assumption
\* on time: TaskStart, the most urgent task, has had a whole line to copy 320
\* words.
SkippedRowEnds ==
  /\ ~LinePending
  /\ dma' = [dma EXCEPT !.on = TRUE] /\ ov7670_active_row' = TRUE
  /\ ov7670_current_row' = ov7670_current_row + 1
  /\ UNCHANGED <<ov7670_state, ov7670_row_complete, semProcessNewLine>>

\* A pending DMA interrupt, being vector 0, is served before this one.
horizontal_ref_falling ==
  /\ ~dma.irq /\ word > 0 /\ glitched' = (glitched \/ word # Words)
  /\ word' = 0 /\ line' = line + 1
  /\ IF ov7670_state = "taking"
       THEN IF ov7670_active_row THEN ActiveRowEnds ELSE SkippedRowEnds
       ELSE UNCHANGED <<driver, dma, semProcessNewLine>>
  /\ UNCHANGED <<ov7670_picture_requested, aux_buffer, bitmap_matrix,
                 photo_ready_sem, pc2, col, taken>>

\* The rows are not counted: a frame that ends early is announced too.
FrameOver ==
  /\ DmaOff /\ ov7670_state' = "picture" /\ sent' = line
  /\ photo_ready_sem' = OSSemPostAll(photo_ready_sem)
  /\ UNCHANGED <<ov7670_picture_requested, ov7670_current_row, ov7670_active_row,
                 ov7670_row_complete, pictures>>

\* Mutant: only the first picture can be taken.
MayBeginOnce == ov7670_picture_requested /\ ov7670_state = "ready"

MayBegin == ov7670_picture_requested /\ ov7670_state \in {"ready", "picture"}

\* Mutant: the request is not cleared.
FrameBeginsAgain ==
  /\ ov7670_state' = "taking"
  /\ ov7670_current_row' = 0 /\ ov7670_active_row' = TRUE
  /\ ov7670_row_complete' = FALSE
  /\ dma' = [dma EXCEPT !.on = TRUE, !.daddr = 0]
  /\ pictures' = pictures + 1 /\ sent' = 0
  /\ UNCHANGED <<ov7670_picture_requested, photo_ready_sem>>

FrameBegins ==
  /\ ov7670_picture_requested' = FALSE /\ ov7670_state' = "taking"
  /\ ov7670_current_row' = 0 /\ ov7670_active_row' = TRUE
  /\ ov7670_row_complete' = FALSE
  /\ dma' = [dma EXCEPT !.on = TRUE, !.daddr = 0]
  /\ pictures' = pictures + 1 /\ sent' = 0
  /\ UNCHANGED photo_ready_sem

vertical_sync_rising ==
  /\ ~dma.irq /\ line > 0 /\ glitched' = (glitched \/ line # 2 * Rows \/ word > 0)
  /\ line' = 0 /\ word' = 0
  /\ \/ ov7670_state = "taking" /\ FrameOver
     \/ ov7670_state # "taking" /\ MayBegin /\ FrameBegins
     \/ /\ ov7670_state # "taking" /\ ~MayBegin
        /\ UNCHANGED <<driver, dma, photo_ready_sem, taken>>
  /\ UNCHANGED <<aux_buffer, bitmap_matrix, semProcessNewLine, pc2, col>>

-----------------------------------------------------------------------------
(* The client, Task2, which runs when TaskStart is blocked *)

OV7670_TakePicture ==
  /\ pc2 = "take" /\ pc2' = "photo_pend"
  /\ ~ov7670_picture_requested /\ ov7670_state # "taking"
  /\ pictures < MaxPictures
  /\ ov7670_picture_requested' = TRUE
  /\ UNCHANGED <<ov7670_state, ov7670_current_row, ov7670_active_row,
                 ov7670_row_complete, dma, aux_buffer, bitmap_matrix, sems, col,
                 sensor, taken>>

PendPhoto ==
  /\ pc2 = "photo_pend" /\ pc2' = "take"
  /\ photo_ready_sem' = OSSemPend(photo_ready_sem, "Task2")
  /\ UNCHANGED <<driver, dma, aux_buffer, bitmap_matrix, semProcessNewLine, col,
                 sensor, taken>>

TaskStart == PendLine \/ OV7670_process_new_line
Task2     == ~StartReady /\ "Task2" \notin photo_ready_sem.wait
               /\ (OV7670_TakePicture \/ PendPhoto)
Sensor    == PixelClock \/ horizontal_ref_falling \/ vertical_sync_rising

Next == TaskStart \/ Task2 \/ Sensor \/ DMA_mayor_int \/ I2C_finished_callback

\* The sensor keeps sending; the processor serves interrupts and TaskStart.
Fairness ==
  /\ WF_vars(TaskStart) /\ WF_vars(Sensor) /\ WF_vars(DMA_mayor_int)
  /\ WF_vars(I2C_finished_callback)

Spec == Init /\ [][Next]_vars /\ Fairness

-----------------------------------------------------------------------------
(* Properties *)

\* Rows whose line has been handed to TaskStart.
Captured == ov7670_current_row + IF ov7670_active_row THEN 0 ELSE 1

(* Every other line the sensor sent for an announced picture is, pixel by   *)
(* pixel, in the row where it belongs: none is lost, doubled, out of step   *)
(* or of another picture.  After a frame of full length this is every row;  *)
(* below a frame that ended early, which the driver announces all the same, *)
(* the rows keep their old contents.                                        *)
RowsInPlace ==
  ov7670_state = "picture" /\ ~LinePending =>
    \A r \in 0..Rows - 1, c \in 0..Cols - 1 :
      2 * r < sent =>
        bitmap_matrix[r][c] = [picture |-> pictures, line |-> 2 * r, at |-> 4 * c + 1]

(* TaskStart writes inside bitmap_matrix, however many lines a frame has.   *)
CopyInBounds == LinePending => ov7670_current_row < Rows

(* While TaskStart copies a line, the DMA does not overwrite it.            *)
CopyIsStable == [][LinePending => aux_buffer' = aux_buffer]_vars

\* The driver's state as Camera has it.
Lines == IF pictures = 0 \/ ov7670_state = "error" THEN 0 ELSE Captured
Seen  == [state |-> ov7670_state, requested |-> ov7670_picture_requested,
          lines |-> Lines]

Contract == INSTANCE Camera WITH FrameLines <- Rows, camera <- Seen

(* Transfer by transfer, the driver does only what Camera promises.         *)
DriverKeepsContract == Contract!CameraSpec

(* The driver gives up only on a sensor that has been out of step: its      *)
(* checks raise no false alarm, wherever its interrupts fall.               *)
NoFalseAlarm == ov7670_state = "error" => glitched

(* A task that waits for its picture gets it, unless the driver gave up.    *)
WaitEnds ==
  "Task2" \in photo_ready_sem.wait
    ~> "Task2" \notin photo_ready_sem.wait \/ ov7670_state = "error"
=============================================================================
