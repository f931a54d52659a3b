----------------------------- MODULE CardReader -----------------------------
(***************************************************************************)
(* What the magnetic card reader driver (magnetic.c, magnetic_app.c)       *)
(* promises its client: a swipe announces itself, delivers characters,     *)
(* and ends valid, invalid or unfinished.  The bit-level state machine is  *)
(* abstracted to the phase of the track; every post of                     *)
(* magnetic_updated_sem is kept.                                           *)
(*                                                                         *)
(* A card number is abstracted to its first digit and its other seven,     *)
(* the distinction search_id_in_list makes.                                *)
(***************************************************************************)
EXTENDS Rtos, Integers

CONSTANTS FirstDigit,  \* the first digits in use
          OtherDigits, \* the remaining seven digits in use, as one value each
          ZEROS        \* the remaining seven of a content[] that is still cleared

ZERO == 0         \* the first digit of a content[] that is still cleared
NUL  == -1        \* the bytes of a cleared id[], no digit

ASSUME DigitAssumption ==
  /\ ZERO \in FirstDigit /\ ZEROS \in OtherDigits
  /\ NUL \notin FirstDigit /\ NUL \notin OtherDigits

Id       == [head : FirstDigit, tail : OtherDigits]
BlankId  == [head |-> ZERO, tail |-> ZEROS]
NullId   == [head |-> NUL, tail |-> NUL]
AnyId    == [head : FirstDigit \cup {NUL}, tail : OtherDigits \cup {NUL}]

READING_STATE == {"UNINITIALIZED", "DISABLED", "WAITING", "READING",
                  "INVALID_DATA", "NEW_VALID_DATA"}

\* The phases of the driver's state machine: initial_state; the states that
\* take characters; expecting_disable_state; error_state.
Track == {"idle", "characters", "complete", "error"}

VARIABLES reader,               \* the driver's static variables
          magnetic_updated_sem

readerVars == <<reader, magnetic_updated_sem>>

Reader == [reading : BOOLEAN, state : READING_STATE, error : BOOLEAN,
           content : Id, track : Track]

ReaderInit ==
  /\ reader = [reading |-> FALSE, state |-> "UNINITIALIZED", error |-> FALSE,
               content |-> BlankId, track |-> "idle"]
  /\ magnetic_updated_sem = NewSem

Updated == magnetic_updated_sem' = OSSemPost1(magnetic_updated_sem)

-----------------------------------------------------------------------------
(* Interrupts: edges of the reader's clock and enable lines.  They do      *)
(* nothing while `reading' is false.                                       *)

\* A card enters: ENABLE in initial_state runs clean_message.
TrackStart ==
  /\ reader.reading /\ reader.track = "idle"
  /\ reader' = [reader EXCEPT !.track = "characters", !.state = "READING",
                              !.error = FALSE, !.content = BlankId]
  /\ Updated

\* Characters arrive; between two of them content[] holds the digits read so
\* far followed by zeros, which the application would take for a number.
TrackRead(c) ==
  /\ reader.reading /\ reader.track = "characters"
  /\ reader' = [reader EXCEPT !.content = c]
  /\ UNCHANGED magnetic_updated_sem

\* The LRC character matches the characters before it, and is appended to
\* them: on a short track it falls among the digits the application reads.
TrackComplete(c) ==
  /\ reader.reading /\ reader.track = "characters"
  /\ reader' = [reader EXCEPT !.track = "complete", !.content = c]
  /\ UNCHANGED magnetic_updated_sem

\* An unexpected character, a bad LRC or data after the LRC is announced; a
\* character with the wrong parity is not.
TrackFail(announced) ==
  /\ reader.reading /\ reader.track \in {"characters", "complete"}
  /\ announced \/ reader.track = "characters"
  /\ reader' = [reader EXCEPT !.track = "error", !.error = TRUE,
                              !.state = "INVALID_DATA"]
  /\ IF announced THEN Updated ELSE UNCHANGED magnetic_updated_sem

\* The card leaves before the track is complete: finished_early.
TrackUnfinished ==
  /\ reader.reading /\ reader.track = "characters"
  /\ reader' = [reader EXCEPT !.track = "idle", !.error = TRUE,
                              !.state = "INVALID_DATA"]
  /\ Updated

\* The card leaves after an error.
TrackLeave ==
  /\ reader.reading /\ reader.track = "error"
  /\ reader' = [reader EXCEPT !.track = "idle"]
  /\ UNCHANGED magnetic_updated_sem

\* The card leaves after a complete track: finish_reading.
TrackValid ==
  /\ reader.reading /\ reader.track = "complete"
  /\ reader' = [reader EXCEPT !.track = "idle", !.state = "NEW_VALID_DATA"]
  /\ Updated

-----------------------------------------------------------------------------
(* Services called by Task2. *)

\* reset_FSM runs clean_message, which announces an update.
init_magnetic ==
  /\ reader.state = "UNINITIALIZED"
  /\ reader' = [reading |-> FALSE, state |-> "DISABLED", error |-> FALSE,
                content |-> BlankId, track |-> "idle"]
  /\ Updated

\* The same reset, several assignments that are one step only because the
\* interrupts are inert: `reading' is false until the last of them.
enable_reading ==
  /\ reader' = [reading |-> TRUE, state |-> "WAITING", error |-> FALSE,
                content |-> BlankId, track |-> "idle"]
  /\ Updated

\* disable_reading makes two stores while the interrupts are live: an edge in
\* between may leave any state behind, with `reading' false.
disable_reading_state ==
  /\ reader' = [reader EXCEPT !.state = "DISABLED"]
  /\ UNCHANGED magnetic_updated_sem

disable_reading_flag ==
  /\ reader' = [reader EXCEPT !.reading = FALSE]
  /\ UNCHANGED magnetic_updated_sem

\* get_data: NULL after an error.
get_data == IF reader.error THEN NullId ELSE reader.content

pend_updated ==
  /\ magnetic_updated_sem' = OSSemPend(magnetic_updated_sem, "Task2")
  /\ UNCHANGED reader

-----------------------------------------------------------------------------
(* The contract between the driver and its client *)

ReaderInterrupt ==
  \/ TrackStart
  \/ \E c \in Id : TrackRead(c) \/ TrackComplete(c)
  \/ \E announced \in BOOLEAN : TrackFail(announced)
  \/ TrackUnfinished \/ TrackLeave \/ TrackValid

ReaderCall ==
  /\ "Task2" \notin magnetic_updated_sem.wait
  /\ \/ init_magnetic
     \/ reader.state # "UNINITIALIZED" /\ ~reader.reading /\ enable_reading
     \/ disable_reading_state \/ disable_reading_flag
     \/ pend_updated

(* The client initialises the driver once, and resets it only while the     *)
(* interrupts are inert, whatever state the last of them left; each         *)
(* interrupt is one of the steps above.                                     *)
ReaderSpec == ReaderInit /\ [][ReaderInterrupt \/ ReaderCall]_readerVars
=============================================================================
