------------------------------- MODULE Camera -------------------------------
(***************************************************************************)
(* What the camera driver (OV7670.c) promises its client, Task2: one       *)
(* picture per request, announced on photo_ready_sem after its last line,  *)
(* or none at all once a line was out of step with its DMA transfer.  Rows *)
(* and pixels are abstracted to the count of captured lines; every post of *)
(* semProcessNewLine, which wakes TaskStart to copy a line, is kept.       *)
(***************************************************************************)
EXTENDS Rtos, Naturals

CONSTANT FrameLines   \* rows of bitmap_matrix

ASSUME FrameAssumption == FrameLines \in Nat \ {0}

VARIABLES camera,     \* the driver's state, a pending request, captured lines
          semProcessNewLine, photo_ready_sem

cameraVars == <<camera, semProcessNewLine, photo_ready_sem>>

Camera == [state : {"busy", "ready", "taking", "picture", "error"},
           requested : BOOLEAN, lines : Nat]

\* After OV7670_Init, with the register writes still queued.
CameraInit ==
  /\ camera = [state |-> "busy", requested |-> FALSE, lines |-> 0]
  /\ semProcessNewLine = NewSem /\ photo_ready_sem = NewSem

-----------------------------------------------------------------------------
(* Interrupts *)

\* The camera's registers have been written over I2C.
Configured ==
  /\ camera.state = "busy"
  /\ camera' = [camera EXCEPT !.state = "ready"]
  /\ UNCHANGED <<semProcessNewLine, photo_ready_sem>>

\* vertical_sync_rising, second branch: the requested picture begins.
FrameStart ==
  /\ camera.requested /\ camera.state \in {"ready", "picture"}
  /\ camera' = [state |-> "taking", requested |-> FALSE, lines |-> 0]
  /\ UNCHANGED <<semProcessNewLine, photo_ready_sem>>

\* horizontal_ref_falling at the end of an active row.
LineEnd ==
  /\ camera.state = "taking" /\ camera.lines < FrameLines
  /\ camera' = [camera EXCEPT !.lines = @ + 1]
  /\ semProcessNewLine' = OSSemPostAll(semProcessNewLine)
  /\ UNCHANGED photo_ready_sem

\* vertical_sync_rising, first branch.  The driver does not count the lines:
\* the sensor may end a frame after any number of them.
FrameEnd ==
  /\ camera.state = "taking" /\ camera.lines > 0
  /\ camera' = [camera EXCEPT !.state = "picture"]
  /\ photo_ready_sem' = OSSemPostAll(photo_ready_sem)
  /\ UNCHANGED semProcessNewLine

\* A line out of step with its DMA transfer: the driver gives up for good.
FrameFail ==
  /\ camera.state = "taking"
  /\ camera' = [camera EXCEPT !.state = "error", !.lines = 0]
  /\ UNCHANGED <<semProcessNewLine, photo_ready_sem>>

-----------------------------------------------------------------------------
(* Calls *)

RequestPicture ==
  /\ camera' = [camera EXCEPT !.requested = TRUE]
  /\ UNCHANGED <<semProcessNewLine, photo_ready_sem>>

PendPicture ==
  /\ photo_ready_sem' = OSSemPend(photo_ready_sem, "Task2")
  /\ UNCHANGED <<camera, semProcessNewLine>>

PendNewLine ==
  /\ semProcessNewLine' = OSSemPend(semProcessNewLine, "TaskStart")
  /\ UNCHANGED <<camera, photo_ready_sem>>

-----------------------------------------------------------------------------
(* The contract between the driver and its client *)

CameraInterrupt ==
  Configured \/ FrameStart \/ LineEnd \/ FrameEnd \/ FrameFail

CameraCall ==
  \/ /\ "TaskStart" \in semProcessNewLine.wait
     /\ "Task2" \notin photo_ready_sem.wait
     /\ \/ ~camera.requested /\ camera.state # "taking" /\ RequestPicture
        \/ PendPicture
  \/ "TaskStart" \notin semProcessNewLine.wait /\ PendNewLine

(* The client asks for a picture only when none is on its way and TaskStart *)
(* has copied the last line; each interrupt is one of the steps above.      *)
CameraSpec == CameraInit /\ [][CameraInterrupt \/ CameraCall]_cameraVars
=============================================================================
