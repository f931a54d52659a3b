--------------------------- MODULE SecuritySystem ---------------------------
(***************************************************************************)
(* The access-control application (main.c): the three tasks, the kernel    *)
(* objects they share, the interrupts that drive them and the buffers that *)
(* pass between them.                                                      *)
(*                                                                         *)
(*   TaskStart  copies camera lines into bitmap_matrix (OV7670_run)        *)
(*   Task2      waits for a card, looks it up, photographs, opens the door *)
(*   Task3      polls the network, runs the web handlers, mails the photo  *)
(*                                                                         *)
(* A step of a task is one kernel call or one access to shared data.       *)
(* Interrupts may occur between any two steps; a task steps only when no   *)
(* more urgent task is ready.                                              *)
(***************************************************************************)
EXTENDS CardReader, Camera, Mailer

CONSTANTS
  NCards,        \* slots of Cards[] (N_CARDS)
  InitCards,     \* the numbers compiled into Cards[]
  Address,       \* recipients that can be stored in email_to
  MaxSwipes,     \* bound: cards put through the reader
  MaxEdits,      \* bound: requests served by the web handlers
  MailMayFail,   \* smtp_send_mail_bodycback may return an error
  CameraMayFail  \* a frame may be out of step with the DMA

Slot == 1..NCards

ASSUME SystemAssumption ==
  /\ NCards \in Nat
  /\ InitCards \in [Slot -> AnyId]
  /\ Address # {}
  /\ MaxSwipes \in Nat /\ MaxEdits \in Nat
  /\ MailMayFail \in BOOLEAN /\ CameraMayFail \in BOOLEAN

VARIABLES
  pcStart, pc2, pc3,                                  \* where each task is
  send_email_sem,
  bitmap_mutex, email_mutex, id_mutex, id_list_mutex,
  bitmap,        \* what each row of bitmap_matrix holds, and of which access
  id,            \* id[] of magnetic_app.c, which card_id points to
  id_in_list,    \* Task2's local variable
  Cards, slot,   \* the list, and the slot CardsCGIhandler writes next
  email_to,
  led, led_timer,
  \* History, read by no guard except through the bounds:
  swipes, edits, \* cards presented, web requests served
  impatient,     \* somebody has not waited for their turn
  valid,         \* valid swipes delivered so far
  access,        \* accesses granted so far
  granted,       \* the number that obtained the last access
  swiped         \* the number on the last valid swipe

tasks   == <<pcStart, pc2, pc3>>
sems    == <<semProcessNewLine, photo_ready_sem, send_email_sem>>
mutexes == <<bitmap_mutex, email_mutex, id_mutex, id_list_mutex>>
picture == <<camera, bitmap>>
lookup  == <<id, id_in_list>>
mail    == <<email_to, mailerVars>>
list    == <<Cards, slot>>
door    == <<led, led_timer>>
history == <<valid, access, granted, swiped>>
bounds  == <<swipes, edits, impatient>>
vars    == <<readerVars, tasks, sems, mutexes, picture, lookup, list, mail,
             door, history, bounds>>

Pc2 == {"start", "pend", "state", "id_pend", "get_first", "get_rest",
        "get_last", "id_post", "list_pend", "search", "list_post", "disable",
        "disable_flag", "bitmap_pend", "take", "photo_pend", "bitmap_post", "compress_pend",
        "compress", "compress_post", "send", "green", "timer", "enable"}

Pc3 == {"start", "input", "poll", "bitmap_pend", "email_pend", "id_pend",
        "send", "id_post", "email_post", "bitmap_post", "cards_write",
        "cards_post"}

\* A row of bitmap_matrix, or of the encoded picture that replaces it: what it
\* is, and of which access.
Row    == 1..FrameLines
Pixels == [kind : {"blank", "raw", "jpeg", "garbage"}, of : Nat]

TypeOK ==
  /\ reader \in Reader
  /\ pcStart \in {"pend", "line"} /\ pc2 \in Pc2 /\ pc3 \in Pc3
  /\ {magnetic_updated_sem, semProcessNewLine, photo_ready_sem, send_email_sem}
       \subseteq Sem
  /\ {bitmap_mutex, email_mutex, id_mutex, id_list_mutex} \subseteq Mutex
  /\ camera \in Camera /\ bitmap \in [Row -> Pixels]
  /\ id \in AnyId /\ id_in_list \in BOOLEAN
  /\ granted \in AnyId /\ swiped \in AnyId
  /\ Cards \in [Slot -> AnyId] /\ slot \in 1..NCards + 1
  /\ email_to \in Address
  /\ led \in {"BLACK", "GREEN"} /\ led_timer \in BOOLEAN
  /\ sessions \in Nat /\ failed \in Nat
  /\ swipes \in Nat /\ edits \in Nat /\ impatient \in BOOLEAN
  /\ valid \in Nat /\ access \in Nat

\* The system once TaskStart has created the kernel objects and the two other
\* tasks and is about to enter OV7670_run.
Init ==
  /\ ReaderInit /\ CameraInit
  /\ pcStart = "pend" /\ pc2 = "start" /\ pc3 = "start"
  /\ send_email_sem = NewSem
  /\ bitmap_mutex = NewMutex /\ email_mutex = NewMutex
  /\ id_mutex = NewMutex /\ id_list_mutex = NewMutex
  /\ bitmap = [r \in Row |-> [kind |-> "blank", of |-> 0]]
  /\ id = NullId /\ id_in_list = FALSE
  /\ Cards = InitCards /\ slot = 1
  /\ email_to \in Address
  /\ led = "BLACK" /\ led_timer = FALSE
  /\ MailerInit /\ swipes = 0 /\ edits = 0 /\ impatient = FALSE
  /\ valid = 0 /\ access = 0 /\ granted = NullId /\ swiped = NullId

-----------------------------------------------------------------------------
(* Scheduling *)

StartReady == "TaskStart" \notin semProcessNewLine.wait

Ready2 == "Task2" \notin magnetic_updated_sem.wait \cup photo_ready_sem.wait
            \cup bitmap_mutex.wait \cup id_mutex.wait \cup id_list_mutex.wait

Ready3 == "Task3" \notin bitmap_mutex.wait \cup email_mutex.wait
            \cup id_mutex.wait \cup id_list_mutex.wait

Goto2(from, to) == pc2 = from /\ pc2' = to /\ UNCHANGED <<pcStart, pc3>>
Goto3(from, to) == pc3 = from /\ pc3' = to /\ UNCHANGED <<pcStart, pc2>>

-----------------------------------------------------------------------------
(* TaskStart: OV7670_run *)

PendLine ==
  /\ StartReady /\ pcStart = "pend" /\ pcStart' = "line"
  /\ PendNewLine
  /\ UNCHANGED <<pc2, pc3, send_email_sem, readerVars, mutexes, bitmap, lookup,
                 list, mail, door, history, bounds>>

\* The row of the last line that ended; the other rows keep what they hold.
OV7670_process_new_line ==
  /\ StartReady /\ pcStart = "line" /\ pcStart' = "pend"
  /\ bitmap' = [bitmap EXCEPT ![camera.lines] = [kind |-> "raw", of |-> access]]
  /\ UNCHANGED <<pc2, pc3, camera, sems, readerVars, mutexes, lookup, list,
                 mail, door, history, bounds>>

TaskStart == PendLine \/ OV7670_process_new_line

\* A camera line that TaskStart has still to copy.
LinePending ==
  \/ semProcessNewLine.ctr > 0
  \/ pcStart = "line" /\ "TaskStart" \notin semProcessNewLine.wait

-----------------------------------------------------------------------------
(* Task2: access control *)

InitReader ==
  /\ Goto2("start", "enable")
  /\ init_magnetic
  /\ UNCHANGED <<sems, mutexes, picture, lookup, list, mail, door, history,
                 bounds>>

EnableReading ==
  /\ Goto2("enable", "pend")
  /\ enable_reading
  /\ UNCHANGED <<sems, mutexes, picture, lookup, list, mail, door, history,
                 bounds>>

PendCard ==
  /\ Goto2("pend", "state")
  /\ pend_updated
  /\ UNCHANGED <<sems, mutexes, picture, lookup, list, mail, door, history,
                 bounds>>

\* Mutant: every announcement of the reader is taken for a valid card.
GetStateAny ==
  /\ Goto2("state", "id_pend")
  /\ UNCHANGED <<readerVars, sems, mutexes, picture, lookup, list, mail, door,
                 history, bounds>>

GetState ==
  /\ Goto2("state", IF reader.state = "NEW_VALID_DATA" THEN "id_pend" ELSE "pend")
  /\ UNCHANGED <<readerVars, sems, mutexes, picture, lookup, list, mail, door,
                 history, bounds>>

\* Mutant: id[] is rewritten without id_mutex.
PendIdSkipped ==
  /\ Goto2("id_pend", "get_first")
  /\ id_mutex' = id_mutex
  /\ UNCHANGED <<readerVars, sems, bitmap_mutex, email_mutex, id_list_mutex,
                 picture, lookup, list, mail, door, history, bounds>>

PendId ==
  /\ Goto2("id_pend", "get_first")
  /\ id_mutex' = OSMutexPend(id_mutex, "Task2")
  /\ UNCHANGED <<readerVars, sems, bitmap_mutex, email_mutex, id_list_mutex,
                 picture, lookup, list, mail, door, history, bounds>>

\* get_data_ma clears id[] when get_data returns NULL; otherwise it copies the
\* digits one by one, and an interrupt may change content[] meanwhile.
GetFirst ==
  /\ Goto2("get_first", IF get_data = NullId THEN "id_post" ELSE "get_rest")
  /\ id' = IF get_data = NullId THEN NullId
                               ELSE [id EXCEPT !.head = get_data.head]
  /\ UNCHANGED <<readerVars, sems, mutexes, picture, id_in_list, list, mail,
                 door, history, bounds>>

\* Mutant: only the first digit is copied.
GetRestForgotten ==
  /\ Goto2("get_rest", "get_last")
  /\ id' = id
  /\ UNCHANGED <<readerVars, sems, mutexes, picture, id_in_list, list, mail,
                 door, history, bounds>>

GetRest ==
  /\ Goto2("get_rest", "get_last")
  /\ id' = [id EXCEPT !.tail = reader.content.tail]
  /\ UNCHANGED <<readerVars, sems, mutexes, picture, id_in_list, list, mail,
                 door, history, bounds>>

\* The end of the loop: if content[] changed while the other digits were being
\* copied, id[] has some of the old ones and some of the new ones.
GetLast(torn) ==
  /\ Goto2("get_last", "id_post")
  /\ id' = IF reader.content.tail = id.tail THEN id ELSE [id EXCEPT !.tail = torn]
  /\ UNCHANGED <<readerVars, sems, mutexes, picture, id_in_list, list, mail,
                 door, history, bounds>>

PostId ==
  /\ Goto2("id_post", "list_pend")
  /\ id_mutex' = OSMutexPost(id_mutex, "Task2")
  /\ UNCHANGED <<readerVars, sems, bitmap_mutex, email_mutex, id_list_mutex,
                 picture, lookup, list, mail, door, history, bounds>>

\* Mutant: the search does not take id_list_mutex.
PendListSkipped ==
  /\ Goto2("list_pend", "search")
  /\ id_list_mutex' = id_list_mutex
  /\ UNCHANGED <<readerVars, sems, bitmap_mutex, email_mutex, id_mutex, picture,
                 lookup, list, mail, door, history, bounds>>

PendList ==
  /\ Goto2("list_pend", "search")
  /\ id_list_mutex' = OSMutexPend(id_list_mutex, "Task2")
  /\ UNCHANGED <<readerVars, sems, bitmap_mutex, email_mutex, id_mutex, picture,
                 lookup, list, mail, door, history, bounds>>

\* compareArrays starts at index 1: the first character is not compared.
compareArrays(a, b) == a.tail = b.tail

search_id_in_list(n) == \E s \in Slot : compareArrays(n, Cards[s])

Search ==
  /\ Goto2("search", "list_post")
  /\ id_in_list' = search_id_in_list(id)
  /\ UNCHANGED <<readerVars, sems, mutexes, picture, id, list, mail, door,
                 history, bounds>>

PostList ==
  /\ Goto2("list_post", IF id_in_list THEN "disable" ELSE "pend")
  /\ id_list_mutex' = OSMutexPost(id_list_mutex, "Task2")
  /\ UNCHANGED <<readerVars, sems, bitmap_mutex, email_mutex, id_mutex, picture,
                 lookup, list, mail, door, history, bounds>>

\* The two stores of disable_reading, with the reader's interrupts live until
\* the second.
DisableReadingState ==
  /\ Goto2("disable", "disable_flag")
  /\ disable_reading_state
  /\ access' = access + 1 /\ granted' = id
  /\ UNCHANGED <<sems, mutexes, picture, lookup, list, mail, door, valid, swiped,
                 bounds>>

\* Mutant: reading goes on during the access.
DisableReadingFlagForgotten ==
  /\ Goto2("disable_flag", "bitmap_pend")
  /\ UNCHANGED <<readerVars, sems, mutexes, picture, lookup, list, mail, door,
                 history, bounds>>

DisableReadingFlag ==
  /\ Goto2("disable_flag", "bitmap_pend")
  /\ disable_reading_flag
  /\ UNCHANGED <<sems, mutexes, picture, lookup, list, mail, door, history,
                 bounds>>

\* Mutant: the picture is taken without bitmap_mutex.
PendBitmapSkipped ==
  /\ Goto2("bitmap_pend", "take")
  /\ bitmap_mutex' = bitmap_mutex
  /\ UNCHANGED <<readerVars, sems, email_mutex, id_mutex, id_list_mutex, picture,
                 lookup, list, mail, door, history, bounds>>

PendBitmap ==
  /\ Goto2("bitmap_pend", "take")
  /\ bitmap_mutex' = OSMutexPend(bitmap_mutex, "Task2")
  /\ UNCHANGED <<readerVars, sems, email_mutex, id_mutex, id_list_mutex, picture,
                 lookup, list, mail, door, history, bounds>>

OV7670_TakePicture ==
  /\ Goto2("take", "photo_pend")
  /\ RequestPicture
  /\ UNCHANGED <<readerVars, send_email_sem, mutexes, bitmap, lookup, list, mail, door,
                 history, bounds>>

\* Mutant: Task2 does not wait for the picture.
PendPhotoSkipped ==
  /\ Goto2("photo_pend", "bitmap_post")
  /\ photo_ready_sem' = photo_ready_sem
  /\ UNCHANGED <<readerVars, semProcessNewLine, send_email_sem, mutexes, picture,
                 lookup, list, mail, door, history, bounds>>

PendPhoto ==
  /\ Goto2("photo_pend", "bitmap_post")
  /\ PendPicture
  /\ UNCHANGED <<readerVars, send_email_sem, mutexes, bitmap, lookup,
                 list, mail, door, history, bounds>>

PostBitmap ==
  /\ Goto2("bitmap_post", "compress_pend")
  /\ bitmap_mutex' = OSMutexPost(bitmap_mutex, "Task2")
  /\ UNCHANGED <<readerVars, sems, email_mutex, id_mutex, id_list_mutex, picture,
                 lookup, list, mail, door, history, bounds>>

PendCompress ==
  /\ Goto2("compress_pend", "compress")
  /\ bitmap_mutex' = OSMutexPend(bitmap_mutex, "Task2")
  /\ UNCHANGED <<readerVars, sems, email_mutex, id_mutex, id_list_mutex, picture,
                 lookup, list, mail, door, history, bounds>>

\* Mutant: the encoded picture is left in another buffer.
CompressElsewhere ==
  /\ Goto2("compress", "compress_post")
  /\ bitmap' = bitmap
  /\ UNCHANGED <<readerVars, sems, mutexes, camera, lookup, list, mail, door,
                 history, bounds>>

\* The encoded picture replaces the raw one in bitmap_matrix.  All rows are
\* encoded: the ones left over below a short frame are garbage.
Encoded(pixels) ==
  [pixels EXCEPT !.kind = IF @ = "raw" THEN "jpeg" ELSE "garbage"]

Compress ==
  /\ Goto2("compress", "compress_post")
  /\ bitmap' = [r \in Row |-> Encoded(bitmap[r])]
  /\ UNCHANGED <<readerVars, sems, mutexes, camera, lookup, list, mail, door,
                 history, bounds>>

PostCompress ==
  /\ Goto2("compress_post", "send")
  /\ bitmap_mutex' = OSMutexPost(bitmap_mutex, "Task2")
  /\ UNCHANGED <<readerVars, sems, email_mutex, id_mutex, id_list_mutex, picture,
                 lookup, list, mail, door, history, bounds>>

PostMail ==
  /\ Goto2("send", "green")
  /\ send_email_sem' = OSSemPostAll(send_email_sem)
  /\ UNCHANGED <<readerVars, semProcessNewLine, photo_ready_sem, mutexes, picture,
                 lookup, list, mail, door, history, bounds>>

OpenDoor ==
  /\ Goto2("green", "timer")
  /\ led' = "GREEN"
  /\ UNCHANGED <<readerVars, sems, mutexes, picture, lookup, list, mail,
                 led_timer, history, bounds>>

\* Mutant: timerStart ignores an invalid timer id.
StartTimerInvalidId ==
  /\ Goto2("timer", "enable")
  /\ led_timer' = led_timer
  /\ UNCHANGED <<readerVars, sems, mutexes, picture, lookup, list, mail, led,
                 history, bounds>>

StartTimer ==
  /\ Goto2("timer", "enable")
  /\ led_timer' = TRUE
  /\ UNCHANGED <<readerVars, sems, mutexes, picture, lookup, list, mail, led,
                 history, bounds>>

Task2 ==
  /\ ~StartReady /\ Ready2
  /\ \/ InitReader \/ EnableReading \/ PendCard \/ GetState
     \/ PendId \/ GetFirst \/ GetRest
     \/ \E torn \in OtherDigits : GetLast(torn)
     \/ PostId \/ PendList \/ Search \/ PostList
     \/ DisableReadingState \/ DisableReadingFlag
     \/ PendBitmap \/ OV7670_TakePicture \/ PendPhoto \/ PostBitmap
     \/ PendCompress \/ Compress \/ PostCompress \/ PostMail
     \/ OpenDoor \/ StartTimer

-----------------------------------------------------------------------------
(* Task3: one iteration of its loop runs the network stack (ethernetif_input *)
(* and sys_check_timeouts, which call the handlers) and then polls           *)
(* send_email_sem.                                                           *)

\* Bringing up the PHY and lwIP takes seconds, during which Task2 already runs.
StartNetwork ==
  /\ Goto3("start", "input")
  /\ UNCHANGED <<readerVars, sems, mutexes, picture, lookup, list, mail, door,
                 history, bounds>>

NoTraffic ==
  /\ Goto3("input", "poll")
  /\ UNCHANGED <<readerVars, sems, mutexes, picture, lookup, list, mail, door,
                 history, bounds>>

\* email_mutex is taken and given back by the only task that uses it: if a
\* mail in progress holds it, the pend nests and does not wait.
EmailCGIhandler(a) ==
  /\ Goto3("input", "poll")
  /\ edits < MaxEdits /\ edits' = edits + 1
  /\ email_to' = a
  /\ email_mutex' = OSMutexPost(OSMutexPend(email_mutex, "Task3"), "Task3")
  /\ UNCHANGED <<readerVars, sems, bitmap_mutex, id_mutex, id_list_mutex, picture,
                 lookup, list, mailerVars, door, history, swipes,
                 impatient>>

CardsCGIhandler ==
  /\ Goto3("input", "cards_write")
  /\ edits < MaxEdits /\ edits' = edits + 1
  /\ id_list_mutex' = OSMutexPend(id_list_mutex, "Task3")
  /\ UNCHANGED <<readerVars, sems, bitmap_mutex, email_mutex, id_mutex, picture,
                 lookup, list, mail, door, history, swipes,
                 impatient>>

\* strcpy(Cards[i], value): an empty value overwrites the first byte only.
Strcpy(card, value) == IF value = NullId THEN [card EXCEPT !.head = NUL] ELSE value

\* The loop runs over the parameters of the request; the guard on slot is an
\* assumption on requests: the form has NCards fields.
WriteCard(value) ==
  /\ Goto3("cards_write", "cards_write")
  /\ slot <= NCards
  /\ Cards' = [Cards EXCEPT ![slot] = Strcpy(@, value)]
  /\ slot' = slot + 1
  /\ UNCHANGED <<readerVars, sems, mutexes, picture, lookup, mail, door, history,
                 bounds>>

\* The request carried slot - 1 values.
AllWritten ==
  /\ Goto3("cards_write", "cards_post")
  /\ slot' = 1
  /\ UNCHANGED <<readerVars, sems, mutexes, picture, lookup, Cards, mail, door,
                 history, bounds>>

PostCards ==
  /\ Goto3("cards_post", "poll")
  /\ id_list_mutex' = OSMutexPost(id_list_mutex, "Task3")
  /\ UNCHANGED <<readerVars, sems, bitmap_mutex, email_mutex, id_mutex, picture,
                 lookup, list, mail, door, history, bounds>>

\* A session ends, well or badly, and calls mySMTPresult, which gives the three
\* mutexes back in the opposite order.
mySMTPresult ==
  /\ Goto3("input", "id_post")
  /\ SendResult
  /\ UNCHANGED <<readerVars, sems, mutexes, picture, lookup, list, email_to,
                 door, history, bounds>>

\* Mutant: id_mutex is not given back.
ResultPostIdForgotten ==
  /\ Goto3("id_post", "email_post")
  /\ id_mutex' = id_mutex
  /\ UNCHANGED <<readerVars, sems, bitmap_mutex, email_mutex, id_list_mutex,
                 picture, lookup, list, mail, door, history, bounds>>

ResultPostId ==
  /\ Goto3("id_post", "email_post")
  /\ id_mutex' = OSMutexPost(id_mutex, "Task3")
  /\ UNCHANGED <<readerVars, sems, bitmap_mutex, email_mutex, id_list_mutex,
                 picture, lookup, list, mail, door, history, bounds>>

\* Mutant: email_mutex is not given back.
ResultPostEmailForgotten ==
  /\ Goto3("email_post", "bitmap_post")
  /\ email_mutex' = email_mutex
  /\ UNCHANGED <<readerVars, sems, bitmap_mutex, id_mutex, id_list_mutex, picture,
                 lookup, list, mail, door, history, bounds>>

ResultPostEmail ==
  /\ Goto3("email_post", "bitmap_post")
  /\ email_mutex' = OSMutexPost(email_mutex, "Task3")
  /\ UNCHANGED <<readerVars, sems, bitmap_mutex, id_mutex, id_list_mutex, picture,
                 lookup, list, mail, door, history, bounds>>

\* Mutant: bitmap_mutex is not given back.
ResultPostBitmapForgotten ==
  /\ Goto3("bitmap_post", "poll")
  /\ bitmap_mutex' = bitmap_mutex
  /\ UNCHANGED <<readerVars, sems, email_mutex, id_mutex, id_list_mutex, picture,
                 lookup, list, mail, door, history, bounds>>

ResultPostBitmap ==
  /\ Goto3("bitmap_post", "poll")
  /\ bitmap_mutex' = OSMutexPost(bitmap_mutex, "Task3")
  /\ UNCHANGED <<readerVars, sems, email_mutex, id_mutex, id_list_mutex, picture,
                 lookup, list, mail, door, history, bounds>>

\* Mutant: the post is consumed and nothing is sent.
PollMailLost ==
  /\ Goto3("poll", "input")
  /\ send_email_sem' = IF send_email_sem.ctr > 0
                        THEN OSSemPend(send_email_sem, "Task3")
                        ELSE send_email_sem
  /\ UNCHANGED <<readerVars, semProcessNewLine, photo_ready_sem, mutexes, picture,
                 lookup, list, mail, door, history, bounds>>

\* The pend on send_email_sem does not block.
PollMail ==
  /\ Goto3("poll", IF send_email_sem.ctr > 0 THEN "bitmap_pend" ELSE "input")
  /\ send_email_sem' = IF send_email_sem.ctr > 0
                        THEN OSSemPend(send_email_sem, "Task3")
                        ELSE send_email_sem
  /\ UNCHANGED <<readerVars, semProcessNewLine, photo_ready_sem, mutexes, picture,
                 lookup, list, mail, door, history, bounds>>

SendPendBitmap ==
  /\ Goto3("bitmap_pend", "email_pend")
  /\ bitmap_mutex' = OSMutexPend(bitmap_mutex, "Task3")
  /\ UNCHANGED <<readerVars, sems, email_mutex, id_mutex, id_list_mutex, picture,
                 lookup, list, mail, door, history, bounds>>

SendPendEmail ==
  /\ Goto3("email_pend", "id_pend")
  /\ email_mutex' = OSMutexPend(email_mutex, "Task3")
  /\ UNCHANGED <<readerVars, sems, bitmap_mutex, id_mutex, id_list_mutex, picture,
                 lookup, list, mail, door, history, bounds>>

SendPendId ==
  /\ Goto3("id_pend", "send")
  /\ id_mutex' = OSMutexPend(id_mutex, "Task3")
  /\ UNCHANGED <<readerVars, sems, bitmap_mutex, email_mutex, id_list_mutex,
                 picture, lookup, list, mail, door, history, bounds>>

\* send_email ignores what smtp_send_mail_bodycback returns: on an error there
\* is no session, so mySMTPresult never runs for it.
SendMail ==
  /\ Goto3("send", "input")
  /\ SendAccepted \/ (MailMayFail /\ SendRefused)
  /\ UNCHANGED <<readerVars, sems, mutexes, picture, lookup, list, email_to, door,
                 history, bounds>>

Task3 ==
  /\ ~StartReady /\ ~Ready2 /\ Ready3
  /\ \/ StartNetwork \/ NoTraffic
     \/ \E a \in Address : EmailCGIhandler(a)
     \/ CardsCGIhandler
     \/ \E v \in Id \cup {NullId} : WriteCard(v)
     \/ AllWritten \/ PostCards
     \/ mySMTPresult \/ ResultPostId \/ ResultPostEmail \/ ResultPostBitmap
     \/ PollMail \/ SendPendBitmap \/ SendPendEmail \/ SendPendId \/ SendMail

-----------------------------------------------------------------------------
(* Interrupts *)

\* What a patient user does: present a card only while Task2 waits for one and
\* no access is waiting to be mailed.  A swipe lasts some hundred milliseconds,
\* an iteration of Task3 about one, so after start-up the second half is the
\* ordinary case; the first half is up to the people at the door.
Turn ==
  /\ "Task2" \in magnetic_updated_sem.wait
  /\ send_email_sem.ctr = 0
  /\ pc3 \notin {"bitmap_pend", "email_pend", "id_pend", "send"}

CardEnters ==
  /\ swipes < MaxSwipes /\ swipes' = swipes + 1
  /\ impatient' = (impatient \/ ~Turn)
  /\ TrackStart
  /\ UNCHANGED <<tasks, sems, mutexes, picture, lookup, list, mail, door, history,
                 edits>>

CardMoves ==
  /\ \/ \E c \in Id : TrackRead(c) \/ TrackComplete(c)
     \/ \E announced \in BOOLEAN : TrackFail(announced)
     \/ TrackUnfinished
     \/ TrackLeave
  /\ UNCHANGED <<tasks, sems, mutexes, picture, lookup, list, mail, door, history,
                 bounds>>

CardAccepted ==
  /\ TrackValid
  /\ valid' = valid + 1 /\ swiped' = reader.content
  /\ UNCHANGED <<tasks, sems, mutexes, picture, lookup, list, mail, door, access,
                 granted, bounds>>

I2C_finished_callback ==
  /\ Configured
  /\ UNCHANGED <<readerVars, tasks, send_email_sem, mutexes, bitmap, lookup, list,
                 mail, door, history, bounds>>

FrameStarts ==
  /\ FrameStart
  /\ UNCHANGED <<readerVars, tasks, send_email_sem, mutexes, bitmap, lookup, list,
                 mail, door, history, bounds>>

\* A line that counts ends after one that is skipped, in whose time TaskStart,
\* the most urgent task, has copied the line before: an assumption on its
\* speed, as in OV7670!SkippedRowEnds.
LineEnds ==
  /\ LineEnd /\ ~LinePending
  /\ UNCHANGED <<readerVars, tasks, send_email_sem, mutexes, bitmap, lookup, list,
                 mail, door, history, bounds>>

\* The picture is ready: the callback photo_is_ready posts photo_ready_sem.
FrameEnds ==
  /\ FrameEnd
  /\ UNCHANGED <<readerVars, tasks, send_email_sem, mutexes, bitmap, lookup, list,
                 mail, door, history, bounds>>

\* The driver finds a line out of step in an active row, so by then the line
\* before has been copied, on the same assumption.
FrameFails ==
  /\ CameraMayFail /\ FrameFail /\ ~LinePending
  /\ UNCHANGED <<readerVars, tasks, send_email_sem, mutexes, bitmap, lookup, list,
                 mail, door, history, bounds>>

\* timer_isr when the single-shot door timer has counted its 3000 ticks.
close_door ==
  /\ led_timer
  /\ led_timer' = FALSE /\ led' = "BLACK"
  /\ UNCHANGED <<readerVars, tasks, sems, mutexes, picture, lookup, list, mail,
                 history, bounds>>

Interrupt ==
  \/ CardEnters \/ CardMoves \/ CardAccepted
  \/ I2C_finished_callback \/ FrameStarts \/ LineEnds \/ FrameEnds \/ FrameFails
  \/ close_door

Next == TaskStart \/ Task2 \/ Task3 \/ Interrupt

Spec == Init /\ [][Next]_vars

\* The processor always runs the most urgent ready task; the camera keeps
\* sending frames; ticks keep coming; and every SMTP session ends, because
\* smtp_tcp_poll counts its timer down to a timeout.  People at the door are
\* under no obligation.
Fairness ==
  /\ WF_vars(TaskStart) /\ WF_vars(Task2) /\ WF_vars(Task3)
  /\ SF_vars(Task3 /\ mySMTPresult)
  /\ WF_vars(I2C_finished_callback) /\ WF_vars(FrameStarts)
  /\ WF_vars(LineEnds) /\ WF_vars(FrameEnds)
  /\ WF_vars(close_door)

FairSpec == Spec /\ Fairness

-----------------------------------------------------------------------------
(* Safety *)

Bit(b) == IF b THEN 1 ELSE 0

Sending == {"email_pend", "id_pend", "send"}
Posting == {"id_post", "email_post", "bitmap_post"}

\* How deep a task is, or asks to be, in a mutex.
Depth(m, t) == (IF m.owner = t THEN m.nest ELSE 0) + Bit(t \in m.wait)

(* Task3 holds bitmap_mutex, email_mutex and id_mutex once for every mail   *)
(* session in progress and once for every send that failed to start,        *)
(* besides the call of send_email or mySMTPresult it is executing.  So one  *)
(* result releases exactly what one send took, also when sessions overlap.  *)
LocksCountSessions ==
  /\ Depth(bitmap_mutex, "Task3") = sessions + failed + Bit(pc3 \in Sending \cup Posting)
  /\ Depth(email_mutex, "Task3") =
       sessions + failed + Bit(pc3 \in {"id_pend", "send", "id_post", "email_post"})
  /\ Depth(id_mutex, "Task3") = sessions + failed + Bit(pc3 \in {"send", "id_post"})

(* id[] is not rewritten while a mail that quotes it is being sent: Task2    *)
(* calls get_data_ma under id_mutex, which the session holds from send_email *)
(* to mySMTPresult.                                                          *)
IdStable == [][sessions > 0 => id' = id]_vars

(* bitmap_matrix is not rewritten while a mail that streams it is being     *)
(* sent, neither by Task2 nor by TaskStart, which writes camera lines       *)
(* without any mutex: a requested picture keeps Task2 inside bitmap_mutex   *)
(* until TaskStart, being more urgent, has copied the last line.            *)
BitmapStable == [][sessions > 0 => bitmap' = bitmap]_vars

(* A valid swipe opens the door at most once, however often                 *)
(* magnetic_updated_sem was posted for it: Task2 resets the reader          *)
(* (enable_reading) before it looks at its state again.                     *)
OneAccessPerSwipe == access <= valid

InSearch == pc2 \in {"search", "list_post"} /\ "Task2" \notin id_list_mutex.wait
InCards  == pc3 \in {"cards_write", "cards_post"} /\ "Task3" \notin id_list_mutex.wait

(* Task2 searches Cards[] only while CardsCGIhandler is not half way        *)
(* through rewriting it.                                                    *)
ListExclusion == ~(InSearch /\ InCards)

\* Every row for which the sensor sent a line in the last frame is of access n:
\* the whole picture, unless the sensor ended the frame early, which the driver
\* does not check.
OwnPicture(kind, n) ==
  /\ camera.lines > 0
  /\ \A r \in 1..camera.lines : bitmap[r] = [kind |-> kind, of |-> n]

(* What Task2 compresses is, row by row, the raw picture taken for this     *)
(* access: no row is missed or still on its way, and none was touched by    *)
(* Task3 when it obtained bitmap_mutex between the photograph and the       *)
(* compression.                                                             *)
CompressesOwnPhoto == pc2 = "compress" /\ Ready2 => OwnPicture("raw", access)

(* The door never stays open without a timer to close it, also when the     *)
(* timer of the previous access expires between Led_Color(GREEN) and        *)
(* timerStart.                                                              *)
OpenDoorIsTimed == led = "GREEN" => led_timer \/ pc2 = "timer"

(* The camera completes at most one picture per request, and nobody but the *)
(* task that asked for it consumes photo_ready_sem.                         *)
NoStalePhoto ==
  photo_ready_sem.ctr > 0 => pc2 = "photo_pend" /\ camera.state = "picture"

(* Task2 keeps to its side of the card reader's contract: enable_reading and *)
(* init_magnetic, which reset the driver's state outside any critical        *)
(* section, run only while the reader's interrupts are inert, also when an   *)
(* edge came between the two stores of disable_reading.                      *)
KeepsReaderContract == ReaderSpec

(* Task2 keeps to its side of the camera's contract: OV7670_TakePicture is   *)
(* called only when no picture is on its way and TaskStart has copied the    *)
(* last line of the one before.                                              *)
KeepsCameraContract == CameraSpec

-----------------------------------------------------------------------------
(* What the application is for.  These hold as long as nobody presents a    *)
(* card out of turn.                                                        *)

(* The mail about an access carries the number and the encoded picture of   *)
(* that access, as long as users wait their turn: nothing else keeps Task2  *)
(* from replacing both after PostMail.                                      *)
MailMatchesAccess ==
  ~impatient /\ pc3 = "send" /\ Ready3 =>
    /\ OwnPicture("jpeg", access)
    /\ id = granted

(* The number that opens the door is the one on the last valid card, also   *)
(* when Task2 had to wait for id_mutex between the swipe and get_data_ma,   *)
(* as long as users wait their turn.                                        *)
DoorOpensForSwipedCard == ~impatient /\ pc2 = "disable" => id = swiped

-----------------------------------------------------------------------------
(* What the code's own comments claim and the model refutes. *)

(* After smtp_send_mail_bodycback has returned an error there is no need of *)
(* the callback: then no lock may depend on it.                             *)
NoLockWithoutSession ==
  pc3 = "input" /\ sessions = 0 => id_mutex.owner # "Task3"

(* The recipient passed to smtp_send_mail_bodycback stays untouched until   *)
(* the result callback.                                                     *)
RecipientUntouched == [][sessions > 0 => email_to' = email_to]_vars

(* get_data is called only while the reader holds a valid track, which is   *)
(* what magnetic.h asks of its caller.                                      *)
GetDataOnlyWhenValid ==
  pc2 = "get_first" /\ Ready2 => reader.state = "NEW_VALID_DATA"

-----------------------------------------------------------------------------
(* Liveness.  Two faults stop the system, and nothing else does: a send that *)
(* returned an error, whose locks are never given back, and a camera error,  *)
(* after which no picture comes.                                             *)

Faulty == failed > 0 \/ camera.state = "error"

(* Once a card has been found in the list the access runs to its end and    *)
(* Task2 waits for the next card, however the swipes, the mails and the     *)
(* camera's lines interleave.                                               *)
AccessCompletes == pc2 = "disable" ~> pc2 = "pend" \/ Faulty

(* The door closes, also after a fault.                                     *)
DoorCloses == led = "GREEN" ~> led = "BLACK"

(* Every access is mailed with its own picture: no wake-up of Task3 is lost *)
(* or served too late.                                                      *)
MailIsSent ==
  \A n \in 1..MaxSwipes :
    send_email_sem.ctr > 0 /\ access = n
      ~> \/ sessions > 0 /\ OwnPicture("jpeg", n)
         \/ failed > 0 \/ impatient

(* The mail gives its locks back.                                           *)
LocksReleased ==
  id_mutex.owner = "Task3" ~> id_mutex.owner # "Task3" \/ failed > 0

=============================================================================
