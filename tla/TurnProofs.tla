----------------------------- MODULE TurnProofs -----------------------------
(***************************************************************************)
(* What the application is for, for every instance of SecuritySystem: as   *)
(* long as nobody presents a card out of turn, the door opens for the      *)
(* number on the last valid card, and the mail about an access carries the *)
(* number and the picture of that access.                                  *)
(***************************************************************************)
EXTENDS SecuritySystemProofs

\* A card in the reader has announced no valid number yet, and its characters
\* are free of errors until one is found.
TrackInv ==
  /\ reader.track \in {"characters", "complete"} => ~reader.error
  /\ reader.state = "NEW_VALID_DATA" => reader.track = "idle"
  /\ reader.state = "NEW_VALID_DATA" => ~reader.error /\ reader.content = swiped

\* Task2 serves an access, from the grant to the post of send_email_sem.
Serving == {"disable_flag", "bitmap_pend", "take", "photo_pend", "bitmap_post",
            "compress_pend", "compress", "compress_post", "send"}

\* From a valid swipe to the decision, the reader and then id[] hold its number;
\* between the two stores of disable_reading no other card is in the reader.
SwipeTurn ==
  /\ reader.track # "idle" => pc2 \in {"pend", "state"}
  /\ pc2 \in {"id_pend", "get_first", "get_rest", "get_last"} =>
       reader.state = "NEW_VALID_DATA"
  /\ pc2 \in Serving => reader.state # "NEW_VALID_DATA"
  /\ pc2 = "get_rest" => id.head = swiped.head
  /\ pc2 \in {"get_last", "id_post", "list_pend", "search", "list_post", "disable"} =>
       id = swiped

\* All that time id[] holds the number of the access; once encoded, the picture
\* stays.
AccessInv ==
  /\ pc2 \in Serving => id = granted
  /\ pc2 \in {"compress_post", "send"} => OwnPicture("jpeg", access)

MailPending ==
  send_email_sem.ctr > 0 \/ pc3 \in {"bitmap_pend", "email_pend", "id_pend", "send"}

\* While the mail is on its way to smtp.c, Task2 gets no further than to wait for
\* a card, and no card is in the reader.
MailTurn ==
  MailPending =>
    /\ pc2 \in {"green", "timer", "enable", "pend", "state"}
    /\ reader.track = "idle" /\ reader.state # "NEW_VALID_DATA"
    /\ OwnPicture("jpeg", access) /\ id = granted

TurnInv == TrackInv /\ AccessInv /\ (~impatient => SwipeTurn /\ MailTurn)

-----------------------------------------------------------------------------
(* TurnInv is kept *)

\* What TurnInv is about, besides the reader and the places of the tasks.
told == <<id, bitmap, camera, access, granted, swiped, impatient>>

\* At the start Task2 serves nobody.
LEMMA TurnInit == Init => TurnInv
BY DEF Init, ReaderInit, CameraInit, TurnInv, TrackInv, AccessInv, SwipeTurn, MailTurn,
       MailPending, Serving, NewSem

\* TaskStart writes a camera line only while Task2 photographs.
LEMMA TurnTaskStart == IInv /\ TurnInv /\ TaskStart => TurnInv'
<1> SUFFICES ASSUME IInv, TurnInv, TaskStart PROVE TurnInv'
  OBVIOUS
<1> USE DEF TurnInv, TrackInv, AccessInv, SwipeTurn, MailTurn, MailPending, Serving,
            OwnPicture, readerVars, lookup, history, bounds, sems
<1>1. CASE PendLine
  BY <1>1 DEF PendLine, PendNewLine
<1>2. CASE OV7670_process_new_line
  <2>1. pc2 \in {"photo_pend", "bitmap_post"}
    BY <1>2 DEF OV7670_process_new_line, StartReady, IInv, CameraInv, LinePending,
                Photographing
  <2>2. QED
    BY <1>2, <2>1 DEF OV7670_process_new_line
<1>3. QED
  BY <1>1, <1>2 DEF TaskStart

\* Task2 takes the number of the last valid swipe to the decision, and the
\* picture to send_email_sem.
LEMMA TurnTask2 == IInv /\ PhotoInv /\ TurnInv /\ Task2 => TurnInv'
<1> SUFFICES ASSUME IInv, PhotoInv, TurnInv, Task2 PROVE TurnInv'
  OBVIOUS
<1>1. TypeOK
  BY DEF IInv
<1>2. /\ reader.content \in Id /\ id \in AnyId
      /\ reader \in Reader /\ swiped \in AnyId
  BY <1>1 DEF TypeOK, Reader
<1> USE DEF TurnInv, TrackInv, AccessInv, SwipeTurn, MailTurn, MailPending, Serving,
            OwnPicture, Goto2
<1>3. CASE InitReader
  BY <1>3 DEF InitReader, init_magnetic, sems, lookup, picture, history, bounds
<1>4. CASE EnableReading
  BY <1>4 DEF EnableReading, enable_reading, sems, lookup, picture, history, bounds
<1>5. CASE PendCard
  BY <1>5 DEF PendCard, pend_updated, sems, lookup, picture, history, bounds
<1>6. CASE GetState
  BY <1>6 DEF GetState, readerVars, sems, lookup, picture, history, bounds
<1>7. CASE GetFirst
  <2>1. /\ UNCHANGED <<reader, send_email_sem, bitmap, camera, pc3, access, granted, swiped,
                       impatient>>
        /\ pc2 = "get_first" /\ pc2' \in {"id_post", "get_rest"}
    BY <1>7 DEF GetFirst, readerVars, sems, picture, history, bounds
  <2>2. ASSUME ~impatient PROVE pc2' = "get_rest" /\ id'.head = swiped.head
    <3>1. reader.state = "NEW_VALID_DATA" /\ ~reader.error /\ reader.content = swiped
      BY <2>1, <2>2
    <3>2. get_data = swiped /\ swiped # NullId
      BY <1>2, <3>1, DigitAssumption DEF get_data, NullId, Id
    <3>3. pc2' = "get_rest" /\ id' = [id EXCEPT !.head = swiped.head]
      BY <1>7, <3>2 DEF GetFirst
    <3>4. QED
      BY <1>2, <3>3 DEF AnyId
  <2>3. QED
    BY <2>1, <2>2
<1>8. CASE GetRest
  <2>1. /\ UNCHANGED <<reader, send_email_sem, bitmap, camera, pc3, access, granted, swiped,
                       impatient>>
        /\ pc2 = "get_rest" /\ pc2' = "get_last"
        /\ id' = [id EXCEPT !.tail = reader.content.tail]
    BY <1>8 DEF GetRest, readerVars, sems, picture, history, bounds
  <2>2. ASSUME ~impatient PROVE id' = swiped
    <3>1. reader.content = swiped /\ id.head = swiped.head
      BY <2>1, <2>2
    <3>2. QED
      BY <1>2, <2>1, <3>1 DEF AnyId
  <2>3. QED
    BY <2>1, <2>2
<1>9. CASE \E torn \in OtherDigits : GetLast(torn)
  <2>1. /\ UNCHANGED <<reader, send_email_sem, bitmap, camera, pc3, access, granted, swiped,
                       impatient>>
        /\ pc2 = "get_last" /\ pc2' = "id_post"
    BY <1>9 DEF GetLast, readerVars, sems, picture, history, bounds
  <2>2. ASSUME ~impatient PROVE id' = swiped
    <3>1. reader.content = swiped /\ id = swiped
      BY <2>1, <2>2
    <3>2. QED
      BY <1>9, <3>1 DEF GetLast
  <2>3. QED
    BY <2>1, <2>2
<1>10. CASE PendId \/ PostId \/ PendList \/ PostList \/ PendBitmap \/ PostBitmap
           \/ PendCompress \/ PostCompress
  BY <1>10
  DEF PendId, PostId, PendList, PostList, PendBitmap, PostBitmap, PendCompress,
      PostCompress, readerVars, sems, lookup, picture, history, bounds
<1>11. CASE Search
  BY <1>11 DEF Search, readerVars, sems, picture, history, bounds
<1>12. CASE DisableReadingState
  <2>1. /\ reader'.track = reader.track /\ reader'.error = reader.error
        /\ reader'.state = "DISABLED"
    BY <1>2, <1>12 DEF DisableReadingState, disable_reading_state, Reader
  <2>2. QED
    BY <1>12, <2>1 DEF DisableReadingState, sems, lookup, picture, bounds
<1>13. CASE DisableReadingFlag
  <2>1. /\ reader'.track = reader.track /\ reader'.error = reader.error
        /\ reader'.state = reader.state /\ reader'.content = reader.content
    BY <1>2, <1>13 DEF DisableReadingFlag, disable_reading_flag, Reader
  <2>2. QED
    BY <1>13, <2>1 DEF DisableReadingFlag, sems, lookup, picture, history, bounds
<1>14. CASE OV7670_TakePicture \/ PendPhoto
  <2>1. /\ UNCHANGED <<reader, bitmap, id, pc3, send_email_sem, access, granted, swiped,
                       impatient>>
        /\ pc2 \in {"take", "photo_pend"} /\ pc2' \in {"photo_pend", "bitmap_post"}
    BY <1>14
    DEF OV7670_TakePicture, PendPhoto, readerVars, lookup, history, bounds
  <2>2. QED
    BY <2>1
<1>15. CASE Compress
  <2>1. OwnPicture("jpeg", access)'
    <3>1. OwnPicture("raw", access)
      BY <1>15 DEF Compress, PhotoInv
    <3>2. /\ camera' = camera /\ access' = access
          /\ bitmap' = [r \in Row |-> Encoded(bitmap[r])]
      BY <1>15 DEF Compress, history
    <3>3. camera.lines \in Nat /\ camera.lines <= FrameLines /\ FrameLines \in Nat
      BY <1>1, FrameAssumption DEF IInv, CameraInv, TypeOK, Camera
    <3>4. ASSUME NEW r \in 1..camera.lines
          PROVE  bitmap'[r] = [kind |-> "jpeg", of |-> access]
      <4>1. bitmap[r] = [kind |-> "raw", of |-> access] /\ r \in Row
        BY <3>1, <3>3 DEF Row
      <4>2. bitmap'[r] = Encoded([kind |-> "raw", of |-> access])
        BY <3>2, <4>1
      <4>3. QED
        BY <4>2 DEF Encoded
    <3>5. QED
      BY <3>1, <3>2, <3>4
  <2>2. /\ UNCHANGED <<reader, id, pc3, send_email_sem, access, granted, swiped, impatient>>
        /\ pc2 = "compress" /\ pc2' = "compress_post"
    BY <1>15 DEF Compress, readerVars, sems, lookup, history, bounds
  <2>3. QED
    BY <2>1, <2>2
<1>16. CASE PostMail
  <2>1. /\ UNCHANGED <<reader, bitmap, camera, id, pc3, access, granted, swiped, impatient>>
        /\ pc2 = "send" /\ pc2' = "green"
    BY <1>16 DEF PostMail, readerVars, picture, lookup, history, bounds
  <2>2. QED
    BY <2>1
<1>17. CASE OpenDoor \/ StartTimer
  BY <1>17
  DEF OpenDoor, StartTimer, readerVars, sems, lookup, picture, history, bounds
<1>18. QED
  BY <1>3, <1>4, <1>5, <1>6, <1>7, <1>8, <1>9, <1>10, <1>11, <1>12, <1>13, <1>14, <1>15,
     <1>16, <1>17
  DEF Task2

\* Task3 comes to send a mail only through a post of send_email_sem.
LEMMA TurnTask3 == IInv /\ TurnInv /\ Task3 => TurnInv'
<1> SUFFICES ASSUME IInv, TurnInv, Task3 PROVE TurnInv'
  OBVIOUS
<1>1. UNCHANGED <<reader, pc2, told>>
  BY DEF Task3, StartNetwork, NoTraffic, EmailCGIhandler, CardsCGIhandler, WriteCard,
         AllWritten, PostCards, mySMTPresult, ResultPostId, ResultPostEmail,
         ResultPostBitmap, PollMail, SendPendBitmap, SendPendEmail, SendPendId, SendMail,
         Goto3, readerVars, picture, lookup, history, bounds, told
<1>2. MailPending' => MailPending
  <2> USE DEF MailPending, Goto3, sems
  <2>1. CASE PollMail
    BY <2>1 DEF PollMail
  <2>2. CASE SendPendBitmap \/ SendPendEmail \/ SendPendId \/ SendMail
    BY <2>2 DEF SendPendBitmap, SendPendEmail, SendPendId, SendMail
  <2>3. CASE ~PollMail /\ ~SendPendBitmap /\ ~SendPendEmail /\ ~SendPendId /\ ~SendMail
    BY <2>3
    DEF Task3, StartNetwork, NoTraffic, EmailCGIhandler, CardsCGIhandler, WriteCard,
        AllWritten, PostCards, mySMTPresult, ResultPostId, ResultPostEmail,
        ResultPostBitmap
  <2>4. QED
    BY <2>1, <2>2, <2>3
<1>3. QED
  BY <1>1, <1>2 DEF TurnInv, TrackInv, AccessInv, SwipeTurn, MailTurn, OwnPicture, told

\* A card enters only in turn, and until it leaves Task2 only waits.
LEMMA TurnInterrupt == IInv /\ TurnInv /\ Interrupt => TurnInv'
<1> SUFFICES ASSUME IInv, TurnInv, Interrupt PROVE TurnInv'
  OBVIOUS
<1>1. reader \in Reader /\ impatient \in BOOLEAN /\ send_email_sem \in Sem
  BY DEF IInv, TypeOK, ShapeInv
<1> USE DEF TurnInv, TrackInv, AccessInv, SwipeTurn, MailTurn, MailPending, Serving
<1>2. CASE CardEnters
  <2>1. /\ UNCHANGED <<pc2, pc3, send_email_sem, id, bitmap, camera, access, granted, swiped>>
        /\ reader'.track = "characters" /\ reader'.state = "READING" /\ ~reader'.error
    <3>1. UNCHANGED <<pc2, pc3, send_email_sem, id, bitmap, camera, access, granted, swiped>>
      BY <1>2 DEF CardEnters, tasks, sems, lookup, picture, history
    <3>2. reader' = [reader EXCEPT !.track = "characters", !.state = "READING",
                                   !.error = FALSE, !.content = BlankId]
      BY <1>2 DEF CardEnters, TrackStart
    <3>3. reader' = [reading |-> reader.reading, state |-> "READING", error |-> FALSE,
                     content |-> BlankId, track |-> "characters"]
      BY <1>1, <3>2 DEF Reader
    <3>4. reader'.track = "characters" /\ reader'.state = "READING" /\ ~reader'.error
      BY <3>3
    <3>5. QED
      BY <3>1, <3>4
  <2>2. ASSUME ~impatient' PROVE ~impatient /\ pc2 = "state" /\ ~MailPending
    <3>1. impatient' = (impatient \/ ~Turn)
      BY <1>2 DEF CardEnters
    <3>2. ~impatient /\ Turn
      BY <2>2, <3>1, Zenon
    <3>3. QED
      BY <3>2 DEF Turn, IInv, WaitInv
  <2>3. QED
    BY <2>1, <2>2 DEF OwnPicture
<1>3. CASE CardMoves
  <2>1. UNCHANGED <<pc2, pc3, send_email_sem, id, bitmap, camera, access, granted, swiped,
                    impatient>>
    BY <1>3 DEF CardMoves, tasks, sems, lookup, picture, history, bounds
  <2>2. /\ reader.track # "idle" /\ reader'.state # "NEW_VALID_DATA"
        /\ reader'.track \in {"characters", "complete"} => ~reader'.error
    BY <1>1, <1>3
    DEF CardMoves, TrackRead, TrackComplete, TrackFail, TrackUnfinished, TrackLeave, Reader
  <2>3. QED
    BY <2>1, <2>2 DEF OwnPicture
<1>4. CASE CardAccepted
  <2>1. /\ UNCHANGED <<pc2, pc3, send_email_sem, id, bitmap, camera, access, granted, impatient>>
        /\ reader.track = "complete" /\ reader'.track = "idle"
        /\ reader'.error = reader.error /\ reader'.content = swiped'
    BY <1>1, <1>4
    DEF CardAccepted, TrackValid, tasks, sems, lookup, picture, bounds, Reader
  <2>2. QED
    BY <2>1 DEF OwnPicture
<1>5. CASE I2C_finished_callback \/ close_door
  <2>1. UNCHANGED <<reader, pc2, pc3, send_email_sem, bitmap, camera.lines, id, access,
                    granted, swiped, impatient>>
    BY <1>5
    DEF I2C_finished_callback, Configured, close_door, readerVars, tasks, lookup, history,
        bounds, sems, picture, IInv, TypeOK, Camera
  <2>2. QED
    BY <2>1 DEF OwnPicture
<1>6. CASE FrameStarts \/ LineEnds \/ FrameEnds \/ FrameFails
  <2>1. UNCHANGED <<reader, pc2, pc3, send_email_sem, id, access, granted, swiped, impatient>>
    BY <1>6
    DEF FrameStarts, LineEnds, FrameEnds, FrameFails, readerVars, tasks, lookup, history,
        bounds
  <2>2. pc2 \in {"photo_pend", "bitmap_post"}
    BY <1>6
    DEF FrameStarts, FrameStart, LineEnds, LineEnd, FrameEnds, FrameEnd, FrameFails,
        FrameFail, IInv, CameraInv, Photographing
  <2>3. QED
    BY <2>1, <2>2
<1>7. QED
  BY <1>2, <1>3, <1>4, <1>5, <1>6 DEF Interrupt

-----------------------------------------------------------------------------
(* The theorems *)

\* TurnInv, on top of the invariants of SecuritySystemProofs, is inductive.
THEOREM TurnInvariant == Spec => []TurnInv
<1>1. Init => PhotoInv /\ TurnInv
  BY TurnInit DEF Init, CameraInit, PhotoInv, PictureBegun, NewSem
<1>2. IInv /\ PhotoInv /\ TurnInv /\ [Next]_vars => TurnInv'
  <2> SUFFICES ASSUME IInv, PhotoInv, TurnInv, [Next]_vars PROVE TurnInv'
    OBVIOUS
  <2>1. CASE UNCHANGED vars
    BY <2>1
    DEF vars, readerVars, tasks, sems, picture, lookup, history, bounds, TurnInv, TrackInv,
        AccessInv, SwipeTurn, MailTurn, MailPending, OwnPicture
  <2>2. QED
    BY <2>1, TurnTaskStart, TurnTask2, TurnTask3, TurnInterrupt DEF Next
<1>3. IInv /\ PhotoInv /\ [Next]_vars => PhotoInv'
  BY PhotoStep
<1>4. QED
  BY <1>1, <1>2, <1>3, Inductive, PTL DEF Spec

\* get_data_ma's copy of the number, made when Task2 obtains id_mutex, is still
\* the one the reader announced, whatever delayed Task2.
THEOREM DoorForSwipedCard == Spec => []DoorOpensForSwipedCard
<1>1. TurnInv => DoorOpensForSwipedCard
  BY DEF TurnInv, SwipeTurn, DoorOpensForSwipedCard
<1>2. QED
  BY <1>1, TurnInvariant, PTL

\* send_email is called with id[] of the access it is about and with every row of
\* its picture that the sensor sent, whatever Task2 has done since it posted
\* send_email_sem.
THEOREM MailForAccess == Spec => []MailMatchesAccess
<1>1. TurnInv => MailMatchesAccess
  BY DEF TurnInv, MailTurn, MailPending, MailMatchesAccess
<1>2. QED
  BY <1>1, TurnInvariant, PTL
=============================================================================
