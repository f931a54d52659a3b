------------------------ MODULE SecuritySystemProofs ------------------------
(***************************************************************************)
(* Proofs about SecuritySystem for every list of cards, every set of       *)
(* recipients and numbers, every bound, and every combination of           *)
(* failures.                                                               *)
(***************************************************************************)
EXTENDS SecuritySystem, TLAPS

-----------------------------------------------------------------------------
(* The inductive invariant *)

\* A mutex never has a waiting task without an owner, and only Task2 and Task3
\* use mutexes.
MutexShape(m) ==
  /\ m \in Mutex
  /\ m.owner \in {NoTask, "Task2", "Task3"}
  /\ m.wait \subseteq {"Task2", "Task3"}
  /\ m.nest = 0 <=> m.owner = NoTask
  /\ m.owner = NoTask => m.wait = {}
  /\ m.owner \notin m.wait

\* A semaphore with a waiting task has no post left, and has one client.
SemShape(s, client) ==
  /\ s \in Sem
  /\ s.wait \subseteq {client}
  /\ s.wait # {} => s.ctr = 0

ShapeInv ==
  /\ MutexShape(bitmap_mutex) /\ MutexShape(email_mutex)
  /\ MutexShape(id_mutex) /\ MutexShape(id_list_mutex)
  /\ SemShape(magnetic_updated_sem, "Task2")
  /\ SemShape(photo_ready_sem, "Task2")
  /\ SemShape(semProcessNewLine, "TaskStart")
  /\ send_email_sem \in Sem /\ send_email_sem.wait = {}

\* Where Task2 is tells which mutex it is in; where Task3 is tells it up to the
\* sessions.
LockInv ==
  /\ Depth(bitmap_mutex, "Task2") =
       Bit(pc2 \in {"take", "photo_pend", "bitmap_post", "compress", "compress_post"})
  /\ Depth(email_mutex, "Task2") = 0
  /\ Depth(id_mutex, "Task2") = Bit(pc2 \in {"get_first", "get_rest", "get_last", "id_post"})
  /\ Depth(id_list_mutex, "Task2") = Bit(pc2 \in {"search", "list_post"})
  /\ Depth(id_list_mutex, "Task3") = Bit(pc3 \in {"cards_write", "cards_post"})
  /\ LocksCountSessions

\* A task in a pend list is just past the call that put it there.
WaitInv ==
  /\ "Task2" \in bitmap_mutex.wait => pc2 \in {"take", "compress"}
  /\ "Task2" \in id_mutex.wait => pc2 = "get_first"
  /\ "Task2" \in id_list_mutex.wait => pc2 = "search"
  /\ "Task3" \in bitmap_mutex.wait => pc3 = "email_pend"
  /\ "Task3" \in id_mutex.wait => pc3 = "send"
  /\ "Task3" \in id_list_mutex.wait => pc3 = "cards_write"
  /\ "TaskStart" \in semProcessNewLine.wait => pcStart = "line"
  /\ "Task2" \in magnetic_updated_sem.wait => pc2 = "state"
  /\ "Task2" \in photo_ready_sem.wait => pc2 = "bitmap_post"

\* Task2 is between the request of a picture and the end of its wait for it.
Photographing == pc2 \in {"photo_pend", "bitmap_post"}

\* A picture is requested, then taken, then posted once; all the while, and
\* until its last line has been copied, Task2 is photographing.  The line to
\* copy is one of bitmap_matrix.
CameraInv ==
  /\ camera.lines <= FrameLines /\ (LinePending => camera.lines > 0)
  /\ camera.requested => ~LinePending
  /\ camera.requested \/ camera.state = "taking" \/ LinePending => Photographing
  /\ camera.state = "taking" => ~camera.requested
  /\ photo_ready_sem.ctr > 0 =>
       pc2 = "photo_pend" /\ camera.state = "picture" /\ ~camera.requested
  /\ pc2 = "bitmap_post" /\ "Task2" \notin photo_ready_sem.wait =>
       ~camera.requested /\ camera.state # "taking"
  /\ "Task2" \in photo_ready_sem.wait => photo_ready_sem.ctr = 0
  /\ photo_ready_sem.ctr <= 1

\* A number that Task2 holds, or may still find in the reader, has been paid for
\* by a valid swipe of its own.
Claim ==
  \/ pc2 \in {"id_pend", "get_first", "get_rest", "get_last", "id_post", "list_pend",
              "search", "list_post", "disable"}
  \/ reader.state = "NEW_VALID_DATA"

SwipeInv == access + Bit(Claim) <= valid

\* The rows of the requested picture that TaskStart has copied, all but the last
\* one, perhaps, are of this access; so they are until Task2 has encoded them.
PictureBegun ==
  \/ camera.state = "taking" /\ camera.lines > 0
  \/ photo_ready_sem.ctr > 0
  \/ pc2 = "bitmap_post" /\ "Task2" \notin photo_ready_sem.wait

RawRow(r) == bitmap[r] = [kind |-> "raw", of |-> access]

PhotoInv ==
  /\ PictureBegun =>
       /\ camera.lines > 0
       /\ \A r \in 1..camera.lines : (LinePending /\ r = camera.lines) \/ RawRow(r)
  /\ pc2 \in {"compress_pend", "compress"} => OwnPicture("raw", access)

IInv == TypeOK /\ ShapeInv /\ LockInv /\ WaitInv /\ CameraInv /\ SwipeInv

-----------------------------------------------------------------------------
(* Kernel objects.  Depth is kept folded in the rest of the proofs: these   *)
(* lemmas are all they use of a mutex.                                      *)

User == {"Task2", "Task3"}

(* The head of a pend list with one task is that task.                      *)
LEMMA FirstOfOne ==
  ASSUME NEW t \in Task
  PROVE  First({t}) = t
<1>1. Prio[t] \in Nat  BY DEF Prio, Task
<1>2. \A u \in {t} : Prio[t] <= Prio[u]  BY <1>1
<1> QED  BY <1>2, Zenon DEF First

(* A pend takes the caller one level deeper, or makes it ask to be, and     *)
(* leaves everyone else where they are.                                     *)
LEMMA MutexPend ==
  ASSUME NEW m, MutexShape(m), NEW t \in User, t \notin m.wait
  PROVE  LET n == OSMutexPend(m, t) IN
         /\ MutexShape(n)
         /\ Depth(n, t) = Depth(m, t) + 1
         /\ \A u \in User \ {t} : Depth(n, u) = Depth(m, u)
         /\ \A u \in Task \ {t} : u \in n.wait <=> u \in m.wait
<1>1. CASE m.nest = 0
  <2>1. OSMutexPend(m, t) = [owner |-> t, nest |-> 1, wait |-> {}]
    BY <1>1 DEF MutexShape, Mutex, OSMutexPend
  <2> QED  BY <1>1, <2>1 DEF MutexShape, Mutex, Depth, Bit, User, Task, NoTask
<1>2. CASE m.nest # 0 /\ m.owner = t
  BY <1>2 DEF MutexShape, Mutex, OSMutexPend, Depth, Bit, User, Task, NoTask
<1>3. CASE m.nest # 0 /\ m.owner # t
  BY <1>3 DEF MutexShape, Mutex, OSMutexPend, Depth, Bit, User, Task, NoTask
<1> QED  BY <1>1, <1>2, <1>3

(* A post by the owner takes it one level up and leaves everyone else as    *)
(* deep as they were, the task that is handed the mutex included.           *)
LEMMA MutexPost ==
  ASSUME NEW m, MutexShape(m), NEW t \in User, m.owner = t
  PROVE  LET n == OSMutexPost(m, t) IN
         /\ MutexShape(n)
         /\ Depth(n, t) = Depth(m, t) - 1
         /\ \A u \in User \ {t} : Depth(n, u) = Depth(m, u)
         /\ n.wait \subseteq m.wait
<1>1. CASE m.nest > 1
  BY <1>1 DEF MutexShape, Mutex, OSMutexPost, Depth, Bit, User, Task, NoTask
<1>2. CASE m.nest = 1 /\ m.wait = {}
  <2>1. OSMutexPost(m, t) = [owner |-> NoTask, nest |-> 0, wait |-> {}]
    <3>1. OSMutexPost(m, t) = [m EXCEPT !.owner = NoTask, !.nest = 0]
      BY <1>2 DEF OSMutexPost
    <3> QED  BY <1>2, <3>1 DEF MutexShape, Mutex
  <2> QED  BY <1>2, <2>1 DEF MutexShape, Mutex, Depth, Bit, User, Task, NoTask
<1>3. CASE m.nest = 1 /\ m.wait # {}
  <2>1. PICK u \in User : m.wait = {u} /\ u # t
    BY <1>3 DEF MutexShape, User
  <2>2. First(m.wait) = u  BY <2>1, FirstOfOne DEF User, Task
  <2>3. m.wait \ {First(m.wait)} = {}  BY <2>1, <2>2
  <2>4. OSMutexPost(m, t) = [owner |-> u, nest |-> 1, wait |-> {}]
    <3>1. OSMutexPost(m, t) =
            [m EXCEPT !.owner = First(m.wait), !.nest = 1,
                      !.wait = m.wait \ {First(m.wait)}]
      BY <1>3 DEF OSMutexPost
    <3> QED  BY <1>3, <2>2, <2>3, <3>1 DEF MutexShape, Mutex
  <2> QED  BY <1>3, <2>1, <2>4 DEF MutexShape, Mutex, Depth, Bit, User, Task, NoTask
<1> QED  BY <1>1, <1>2, <1>3 DEF MutexShape, Mutex, User, NoTask

(* Whoever is in a mutex and runs owns it; then anyone else who is in it    *)
(* waits for it, at depth one.                                              *)
LEMMA MutexOwner ==
  ASSUME NEW m, MutexShape(m), NEW t \in User, t \notin m.wait, Depth(m, t) > 0
  PROVE  /\ m.owner = t
         /\ \A u \in User \ {t} : Depth(m, u) > 0 => u \in m.wait /\ Depth(m, u) = 1
BY DEF MutexShape, Mutex, Depth, Bit, User, NoTask

(* Depths are natural numbers.                                              *)
LEMMA DepthNat ==
  ASSUME NEW m, MutexShape(m), NEW t \in User
  PROVE  Depth(m, t) \in Nat /\ (t \in m.wait => Depth(m, t) = 1)
BY DEF MutexShape, Mutex, Depth, Bit, User, NoTask

(* A pend on a semaphore takes a post or waits.                             *)
LEMMA SemPend ==
  ASSUME NEW s, NEW c \in Task, SemShape(s, c), c \notin s.wait
  PROVE  LET n == OSSemPend(s, c) IN
         /\ SemShape(n, c)
         /\ IF s.ctr > 0 THEN n.ctr = s.ctr - 1 /\ n.wait = {}
                         ELSE n.ctr = 0 /\ n.wait = {c}
BY DEF SemShape, Sem, OSSemPend

(* A post on a semaphore readies its only client or is counted.             *)
LEMMA SemPost ==
  ASSUME NEW s, NEW c \in Task, SemShape(s, c)
  PROVE  /\ SemShape(OSSemPostAll(s), c) /\ OSSemPost1(s) = OSSemPostAll(s)
         /\ OSSemPostAll(s).wait = {}
         /\ OSSemPostAll(s).ctr = IF s.wait = {} THEN s.ctr + 1 ELSE 0
<1>1. CASE s.wait = {}
  BY <1>1 DEF SemShape, Sem, OSSemPost1, OSSemPostAll
<1>2. CASE s.wait = {c}
  <2>1. First(s.wait) = c  BY <1>2, FirstOfOne
  <2>2. s.wait \ {First(s.wait)} = {}  BY <1>2, <2>1
  <2> QED  BY <1>2, <2>2 DEF SemShape, Sem, OSSemPost1, OSSemPostAll
<1> QED  BY <1>1, <1>2 DEF SemShape

-----------------------------------------------------------------------------
(* The invariant is inductive *)

(* The invariant holds once TaskStart has set the system up.               *)
THEOREM InitIInv == Init => IInv
<1> SUFFICES ASSUME Init PROVE IInv  OBVIOUS
<1>1. MutexShape(NewMutex) /\ \A t \in User : Depth(NewMutex, t) = 0
  BY DEF MutexShape, Mutex, NewMutex, Depth, Bit, Task, NoTask, User
<1>2. \A c \in Task : SemShape(NewSem, c)
  BY DEF SemShape, Sem, NewSem
<1>3. TypeOK
  <2>1. reader \in Reader /\ NullId \in AnyId
    BY DigitAssumption
    DEF Init, ReaderInit, Reader, READING_STATE, Track, Id, BlankId, NullId, AnyId
  <2>2. camera \in Camera /\ bitmap \in [Row -> Pixels]
    BY DEF Init, CameraInit, Camera, Pixels
  <2>3. Cards \in [Slot -> AnyId] /\ slot \in 1..NCards + 1
    BY SystemAssumption DEF Init, MailerInit
  <2>4. NewSem \in Sem /\ NewMutex \in Mutex
    BY <1>1, <1>2 DEF SemShape, MutexShape, Task
  <2> QED  BY <2>1, <2>2, <2>3, <2>4 DEF Init, ReaderInit, CameraInit, MailerInit, TypeOK, Pc2, Pc3
<1>4. ShapeInv
  BY <1>1, <1>2 DEF Init, ReaderInit, CameraInit, MailerInit, ShapeInv, NewSem, Sem, Task
<1>5. LockInv
  BY <1>1 DEF Init, MailerInit, LockInv, LocksCountSessions, Bit, Sending, Posting, User
<1>6. WaitInv /\ CameraInv
  BY FrameAssumption DEF Init, ReaderInit, CameraInit, WaitInv, CameraInv, LinePending, NewSem, NewMutex
<1>7. SwipeInv
  BY DEF Init, ReaderInit, SwipeInv, Claim, Bit
<1> QED  BY <1>3, <1>4, <1>5, <1>6, <1>7 DEF IInv

(* The four ways a task moves in a mutex, as the actions use them: `m' is   *)
(* the mutex before the call and `n' after it.                              *)
LEMMA Pend2 ==
  ASSUME NEW m, NEW n, MutexShape(m), "Task2" \notin m.wait,
         n = OSMutexPend(m, "Task2")
  PROVE  /\ MutexShape(n)
         /\ Depth(n, "Task2") = Depth(m, "Task2") + 1
         /\ Depth(n, "Task3") = Depth(m, "Task3")
         /\ "Task3" \in n.wait => "Task3" \in m.wait
BY MutexPend DEF User, Task

(* See Pend2.                                                               *)
LEMMA Pend3 ==
  ASSUME NEW m, NEW n, MutexShape(m), "Task3" \notin m.wait,
         n = OSMutexPend(m, "Task3")
  PROVE  /\ MutexShape(n)
         /\ Depth(n, "Task3") = Depth(m, "Task3") + 1
         /\ Depth(n, "Task2") = Depth(m, "Task2")
         /\ "Task2" \in n.wait => "Task2" \in m.wait
BY MutexPend DEF User, Task

(* See Pend2.                                                               *)
LEMMA Post2 ==
  ASSUME NEW m, NEW n, MutexShape(m), "Task2" \notin m.wait,
         Depth(m, "Task2") > 0, n = OSMutexPost(m, "Task2")
  PROVE  /\ MutexShape(n)
         /\ Depth(n, "Task2") = Depth(m, "Task2") - 1
         /\ Depth(n, "Task3") = Depth(m, "Task3")
         /\ n.wait \subseteq m.wait
<1>1. m.owner = "Task2"  BY MutexOwner DEF User
<1> QED  BY <1>1, MutexPost DEF User

(* See Pend2.                                                               *)
LEMMA Post3 ==
  ASSUME NEW m, NEW n, MutexShape(m), "Task3" \notin m.wait,
         Depth(m, "Task3") > 0, n = OSMutexPost(m, "Task3")
  PROVE  /\ MutexShape(n)
         /\ Depth(n, "Task3") = Depth(m, "Task3") - 1
         /\ Depth(n, "Task2") = Depth(m, "Task2")
         /\ n.wait \subseteq m.wait
<1>1. m.owner = "Task3"  BY MutexOwner DEF User
<1> QED  BY <1>1, MutexPost DEF User

(* TaskStart preserves the invariant.                                       *)
LEMMA TaskStartStep == IInv /\ TaskStart => IInv'
<1> SUFFICES ASSUME IInv, TaskStart PROVE IInv'  OBVIOUS
<1> USE DEF IInv, TypeOK, ShapeInv, LockInv, LocksCountSessions, Sending, Posting, WaitInv,
            CameraInv, LinePending, Photographing, SwipeInv, Claim, Bit
<1> USE DEF readerVars, tasks, sems, mutexes, picture, lookup, list, mail, mailerVars, door,
            history, bounds, StartReady
<1>1. CASE PendLine
  <2>1. LET n == OSSemPend(semProcessNewLine, "TaskStart") IN
        /\ SemShape(n, "TaskStart")
        /\ IF semProcessNewLine.ctr > 0
             THEN n.ctr = semProcessNewLine.ctr - 1 /\ n.wait = {}
             ELSE n.ctr = 0 /\ n.wait = {"TaskStart"}
    BY <1>1, SemPend DEF PendLine, PendNewLine, Task
  <2> QED  BY <1>1, <2>1 DEF PendLine, PendNewLine, SemShape
<1>2. CASE OV7670_process_new_line
  <2>1. bitmap' \in [Row -> Pixels]
    BY <1>2 DEF OV7670_process_new_line, Pixels
  <2> QED  BY <1>2, <2>1 DEF OV7670_process_new_line
<1> QED  BY <1>1, <1>2 DEF TaskStart

(* Task2 preserves the invariant.  TaskStart is blocked, hence has no line  *)
(* left to copy, and Task2 is in no pend list.                              *)
LEMMA Task2Step == IInv /\ Task2 => IInv'
<1> SUFFICES ASSUME IInv, Task2 PROVE IInv'  OBVIOUS
<1> USE DEF IInv, TypeOK, ShapeInv, LockInv, LocksCountSessions, Sending, Posting, WaitInv,
            CameraInv, LinePending, Photographing, SwipeInv, Claim, Bit
<1> USE DEF readerVars, tasks, sems, mutexes, picture, lookup, list, mail, mailerVars, door,
            history, bounds, StartReady, Ready2, Goto2, Pc2, Task2
<1>1. CASE InitReader
  <2>1. SemShape(magnetic_updated_sem', "Task2") /\ magnetic_updated_sem'.wait = {}
    BY <1>1, SemPost DEF InitReader, init_magnetic, Updated, Task
  <2> QED  BY <1>1, <2>1, DigitAssumption
           DEF InitReader, init_magnetic, SemShape, Reader, READING_STATE, Track,
               BlankId, Id
<1>2. CASE EnableReading
  <2>1. SemShape(magnetic_updated_sem', "Task2") /\ magnetic_updated_sem'.wait = {}
    BY <1>2, SemPost DEF EnableReading, enable_reading, Updated, Task
  <2> QED  BY <1>2, <2>1, DigitAssumption
           DEF EnableReading, enable_reading, SemShape, Reader, READING_STATE, Track,
               BlankId, Id
<1>3. CASE PendCard
  <2>1. SemShape(magnetic_updated_sem', "Task2")
    BY <1>3, SemPend DEF PendCard, pend_updated, Task
  <2> QED  BY <1>3, <2>1 DEF PendCard, pend_updated, SemShape
<1>4. CASE GetState
  BY <1>4 DEF GetState
<1>5. CASE PendId
  <2>1. /\ MutexShape(id_mutex')
        /\ Depth(id_mutex', "Task2") = Depth(id_mutex, "Task2") + 1
        /\ Depth(id_mutex', "Task3") = Depth(id_mutex, "Task3")
        /\ "Task3" \in id_mutex'.wait => "Task3" \in id_mutex.wait
    BY <1>5, Pend2 DEF PendId
  <2> QED  BY <1>5, <2>1 DEF PendId, MutexShape
<1>6. CASE GetFirst
  BY <1>6 DEF GetFirst, get_data, Reader, Id, AnyId, NullId
<1>7. CASE GetRest
  BY <1>7 DEF GetRest, Reader, Id, AnyId
<1>8. CASE PostId
  <2>1. /\ MutexShape(id_mutex')
        /\ Depth(id_mutex', "Task2") = Depth(id_mutex, "Task2") - 1
        /\ Depth(id_mutex', "Task3") = Depth(id_mutex, "Task3")
        /\ id_mutex'.wait \subseteq id_mutex.wait
    BY <1>8, Post2 DEF PostId
  <2> QED  BY <1>8, <2>1 DEF PostId, MutexShape
<1>9. CASE PendList
  <2>1. /\ MutexShape(id_list_mutex')
        /\ Depth(id_list_mutex', "Task2") = Depth(id_list_mutex, "Task2") + 1
        /\ Depth(id_list_mutex', "Task3") = Depth(id_list_mutex, "Task3")
        /\ "Task3" \in id_list_mutex'.wait => "Task3" \in id_list_mutex.wait
    BY <1>9, Pend2 DEF PendList
  <2> QED  BY <1>9, <2>1 DEF PendList, MutexShape
<1>10. CASE Search
  BY <1>10 DEF Search, search_id_in_list
<1>11. CASE PostList
  <2>1. /\ MutexShape(id_list_mutex')
        /\ Depth(id_list_mutex', "Task2") = Depth(id_list_mutex, "Task2") - 1
        /\ Depth(id_list_mutex', "Task3") = Depth(id_list_mutex, "Task3")
        /\ id_list_mutex'.wait \subseteq id_list_mutex.wait
    BY <1>11, Post2 DEF PostList
  <2> QED  BY <1>11, <2>1 DEF PostList, MutexShape
<1>12. CASE DisableReadingState
  <2>1. reader' \in Reader /\ reader'.state = "DISABLED"
    BY <1>12 DEF DisableReadingState, disable_reading_state, Reader, READING_STATE
  <2> QED  BY <1>12, <2>1 DEF DisableReadingState, disable_reading_state
<1>13. CASE PendBitmap
  <2>1. /\ MutexShape(bitmap_mutex')
        /\ Depth(bitmap_mutex', "Task2") = Depth(bitmap_mutex, "Task2") + 1
        /\ Depth(bitmap_mutex', "Task3") = Depth(bitmap_mutex, "Task3")
        /\ "Task3" \in bitmap_mutex'.wait => "Task3" \in bitmap_mutex.wait
    BY <1>13, Pend2 DEF PendBitmap
  <2> QED  BY <1>13, <2>1 DEF PendBitmap, MutexShape
<1>14. CASE OV7670_TakePicture
  BY <1>14 DEF OV7670_TakePicture, RequestPicture, Camera
<1>15. CASE PendPhoto
  <2>1. LET n == OSSemPend(photo_ready_sem, "Task2") IN
        /\ SemShape(n, "Task2")
        /\ IF photo_ready_sem.ctr > 0
             THEN n.ctr = photo_ready_sem.ctr - 1 /\ n.wait = {}
             ELSE n.ctr = 0 /\ n.wait = {"Task2"}
    BY <1>15, SemPend DEF Task
  <2>2. TypeOK' /\ ShapeInv'  BY <1>15, <2>1 DEF PendPhoto, PendPicture, SemShape
  <2>3. LockInv' /\ SwipeInv'  BY <1>15 DEF PendPhoto, PendPicture
  <2>4. WaitInv' /\ CameraInv'  BY <1>15, <2>1 DEF PendPhoto, PendPicture, SemShape, Sem
  <2> QED  BY <2>2, <2>3, <2>4
<1>16. CASE PostBitmap
  <2>1. /\ MutexShape(bitmap_mutex')
        /\ Depth(bitmap_mutex', "Task2") = Depth(bitmap_mutex, "Task2") - 1
        /\ Depth(bitmap_mutex', "Task3") = Depth(bitmap_mutex, "Task3")
        /\ bitmap_mutex'.wait \subseteq bitmap_mutex.wait
    BY <1>16, Post2 DEF PostBitmap
  <2>2. TypeOK' /\ ShapeInv'  BY <1>16, <2>1 DEF PostBitmap, MutexShape
  <2>3. LockInv' /\ SwipeInv'  BY <1>16, <2>1 DEF PostBitmap
  <2>4. WaitInv'  BY <1>16, <2>1 DEF PostBitmap
  <2>5. ~LinePending  BY DEF SemShape, Sem
  <2>6. CameraInv'  BY <1>16, <2>5 DEF PostBitmap, SemShape, Sem
  <2> QED  BY <2>2, <2>3, <2>4, <2>6
<1>17. CASE PendCompress
  <2>1. /\ MutexShape(bitmap_mutex')
        /\ Depth(bitmap_mutex', "Task2") = Depth(bitmap_mutex, "Task2") + 1
        /\ Depth(bitmap_mutex', "Task3") = Depth(bitmap_mutex, "Task3")
        /\ "Task3" \in bitmap_mutex'.wait => "Task3" \in bitmap_mutex.wait
    BY <1>17, Pend2 DEF PendCompress
  <2> QED  BY <1>17, <2>1 DEF PendCompress, MutexShape
<1>18. CASE Compress
  <2>1. \A p \in Pixels : Encoded(p) \in Pixels  BY DEF Encoded, Pixels
  <2>2. bitmap' \in [Row -> Pixels]  BY <1>18, <2>1 DEF Compress
  <2> QED  BY <1>18, <2>2 DEF Compress
<1>19. CASE PostCompress
  <2>1. /\ MutexShape(bitmap_mutex')
        /\ Depth(bitmap_mutex', "Task2") = Depth(bitmap_mutex, "Task2") - 1
        /\ Depth(bitmap_mutex', "Task3") = Depth(bitmap_mutex, "Task3")
        /\ bitmap_mutex'.wait \subseteq bitmap_mutex.wait
    BY <1>19, Post2 DEF PostCompress
  <2> QED  BY <1>19, <2>1 DEF PostCompress, MutexShape
<1>20. CASE PostMail
  <2>1. send_email_sem' \in Sem /\ send_email_sem'.wait = {}
    BY <1>20 DEF PostMail, OSSemPostAll, Sem
  <2> QED  BY <1>20, <2>1 DEF PostMail
<1>21. CASE OpenDoor
  BY <1>21 DEF OpenDoor
<1>22. CASE StartTimer
  BY <1>22 DEF StartTimer
<1>23. CASE \E torn \in OtherDigits : GetLast(torn)
  BY <1>23 DEF GetLast, AnyId
<1>24. CASE DisableReadingFlag
  <2>1. reader' \in Reader /\ reader'.state = reader.state
    BY <1>24 DEF DisableReadingFlag, disable_reading_flag, Reader
  <2> QED  BY <1>24, <2>1 DEF DisableReadingFlag, disable_reading_flag
<1> QED  BY <1>1, <1>2, <1>3, <1>4, <1>5, <1>6, <1>7, <1>8, <1>9, <1>10, <1>11, <1>12,
            <1>13, <1>14, <1>15, <1>16, <1>17, <1>18, <1>19, <1>20, <1>21,
            <1>22, <1>23, <1>24 DEF Task2

(* Task3 preserves the invariant.                                           *)
LEMMA Task3Step == IInv /\ Task3 => IInv'
<1> SUFFICES ASSUME IInv, Task3 PROVE IInv'  OBVIOUS
<1> USE DEF IInv, TypeOK, ShapeInv, LockInv, LocksCountSessions, Sending, Posting, WaitInv,
            CameraInv, LinePending, Photographing, SwipeInv, Claim, Bit
<1> USE DEF readerVars, tasks, sems, mutexes, picture, lookup, list, mail, mailerVars, door,
            history, bounds, StartReady, Ready3, Goto3, Pc3, Task3
<1>1. CASE StartNetwork
  BY <1>1 DEF StartNetwork
<1>2. CASE NoTraffic
  BY <1>2 DEF NoTraffic
<1>3. CASE \E a \in Address : EmailCGIhandler(a)
  <2>1. PICK a \in Address : EmailCGIhandler(a)  BY <1>3
  <2> DEFINE m == OSMutexPend(email_mutex, "Task3")
  <2>a. email_mutex.owner # "Task2"
    BY DEF Depth, MutexShape, Mutex, NoTask
  <2>b. "Task3" \notin m.wait
    BY <2>a DEF OSMutexPend, MutexShape, Mutex, NoTask
  <2>2. /\ MutexShape(m) /\ Depth(m, "Task3") = Depth(email_mutex, "Task3") + 1
        /\ Depth(m, "Task2") = Depth(email_mutex, "Task2")
        /\ "Task3" \notin m.wait
    BY <2>b, Pend3
  <2>3. /\ MutexShape(email_mutex')
        /\ Depth(email_mutex', "Task3") = Depth(email_mutex, "Task3")
        /\ Depth(email_mutex', "Task2") = Depth(email_mutex, "Task2")
    BY <2>1, <2>2, Post3, DepthNat DEF EmailCGIhandler, User
  <2> QED  BY <2>1, <2>3 DEF EmailCGIhandler, MutexShape
<1>4. CASE CardsCGIhandler
  <2>1. /\ MutexShape(id_list_mutex')
        /\ Depth(id_list_mutex', "Task3") = Depth(id_list_mutex, "Task3") + 1
        /\ Depth(id_list_mutex', "Task2") = Depth(id_list_mutex, "Task2")
        /\ "Task2" \in id_list_mutex'.wait => "Task2" \in id_list_mutex.wait
    BY <1>4, Pend3 DEF CardsCGIhandler
  <2> QED  BY <1>4, <2>1 DEF CardsCGIhandler, MutexShape
<1>5. CASE \E v \in Id \cup {NullId} : WriteCard(v)
  <2>1. PICK v \in Id \cup {NullId} : WriteCard(v)  BY <1>5
  <2>2. \A c \in AnyId : Strcpy(c, v) \in AnyId
    BY DEF Strcpy, AnyId, Id, NullId
  <2>3. slot \in Slot /\ slot + 1 \in 1..NCards + 1
    BY <2>1, SystemAssumption DEF WriteCard, Slot
  <2> QED  BY <2>1, <2>2, <2>3 DEF WriteCard
<1>6. CASE AllWritten
  BY <1>6, SystemAssumption DEF AllWritten
<1>7. CASE PostCards
  <2>1. /\ MutexShape(id_list_mutex')
        /\ Depth(id_list_mutex', "Task3") = Depth(id_list_mutex, "Task3") - 1
        /\ Depth(id_list_mutex', "Task2") = Depth(id_list_mutex, "Task2")
        /\ id_list_mutex'.wait \subseteq id_list_mutex.wait
    BY <1>7, Post3 DEF PostCards
  <2> QED  BY <1>7, <2>1 DEF PostCards, MutexShape
<1>8. CASE mySMTPresult
  BY <1>8 DEF mySMTPresult, SendResult
<1>9. CASE ResultPostId
  <2>1. /\ MutexShape(id_mutex')
        /\ Depth(id_mutex', "Task3") = Depth(id_mutex, "Task3") - 1
        /\ Depth(id_mutex', "Task2") = Depth(id_mutex, "Task2")
        /\ id_mutex'.wait \subseteq id_mutex.wait
    BY <1>9, Post3 DEF ResultPostId
  <2> QED  BY <1>9, <2>1 DEF ResultPostId, MutexShape
<1>10. CASE ResultPostEmail
  <2>1. /\ MutexShape(email_mutex')
        /\ Depth(email_mutex', "Task3") = Depth(email_mutex, "Task3") - 1
        /\ Depth(email_mutex', "Task2") = Depth(email_mutex, "Task2")
        /\ email_mutex'.wait \subseteq email_mutex.wait
    BY <1>10, Post3 DEF ResultPostEmail
  <2> QED  BY <1>10, <2>1 DEF ResultPostEmail, MutexShape
<1>11. CASE ResultPostBitmap
  <2>1. /\ MutexShape(bitmap_mutex')
        /\ Depth(bitmap_mutex', "Task3") = Depth(bitmap_mutex, "Task3") - 1
        /\ Depth(bitmap_mutex', "Task2") = Depth(bitmap_mutex, "Task2")
        /\ bitmap_mutex'.wait \subseteq bitmap_mutex.wait
    BY <1>11, Post3 DEF ResultPostBitmap
  <2> QED  BY <1>11, <2>1 DEF ResultPostBitmap, MutexShape
<1>12. CASE PollMail
  <2>1. send_email_sem' \in Sem /\ send_email_sem'.wait = {}
    BY <1>12 DEF PollMail, OSSemPend, Sem
  <2> QED  BY <1>12, <2>1 DEF PollMail
<1>13. CASE SendPendBitmap
  <2>1. /\ MutexShape(bitmap_mutex')
        /\ Depth(bitmap_mutex', "Task3") = Depth(bitmap_mutex, "Task3") + 1
        /\ Depth(bitmap_mutex', "Task2") = Depth(bitmap_mutex, "Task2")
        /\ "Task2" \in bitmap_mutex'.wait => "Task2" \in bitmap_mutex.wait
    BY <1>13, Pend3 DEF SendPendBitmap
  <2> QED  BY <1>13, <2>1 DEF SendPendBitmap, MutexShape
<1>14. CASE SendPendEmail
  <2>1. /\ MutexShape(email_mutex')
        /\ Depth(email_mutex', "Task3") = Depth(email_mutex, "Task3") + 1
        /\ Depth(email_mutex', "Task2") = Depth(email_mutex, "Task2")
        /\ "Task2" \in email_mutex'.wait => "Task2" \in email_mutex.wait
    BY <1>14, Pend3 DEF SendPendEmail
  <2> QED  BY <1>14, <2>1 DEF SendPendEmail, MutexShape
<1>15. CASE SendPendId
  <2>1. /\ MutexShape(id_mutex')
        /\ Depth(id_mutex', "Task3") = Depth(id_mutex, "Task3") + 1
        /\ Depth(id_mutex', "Task2") = Depth(id_mutex, "Task2")
        /\ "Task2" \in id_mutex'.wait => "Task2" \in id_mutex.wait
    BY <1>15, Pend3 DEF SendPendId
  <2> QED  BY <1>15, <2>1 DEF SendPendId, MutexShape
<1>16. CASE SendMail
  BY <1>16 DEF SendMail, SendAccepted, SendRefused
<1> QED  BY <1>1, <1>2, <1>3, <1>4, <1>5, <1>6, <1>7, <1>8, <1>9, <1>10, <1>11, <1>12,
            <1>13, <1>14, <1>15, <1>16 DEF Task3

(* Interrupts preserve the invariant.                                       *)
LEMMA InterruptStep == IInv /\ Interrupt => IInv'
<1> SUFFICES ASSUME IInv, Interrupt PROVE IInv'  OBVIOUS
<1> USE DEF IInv, TypeOK, ShapeInv, LockInv, LocksCountSessions, Sending, Posting, WaitInv,
            CameraInv, LinePending, Photographing, SwipeInv, Claim, Bit
<1> USE DEF readerVars, tasks, sems, mutexes, picture, lookup, list, mail, mailerVars, door,
            history, bounds
<1>1. CASE CardEnters
  <2>1. SemShape(magnetic_updated_sem', "Task2") /\ magnetic_updated_sem'.wait = {}
    BY <1>1, SemPost DEF CardEnters, TrackStart, Updated, Task
  <2>2. reader' \in Reader /\ reader'.state = "READING"
    BY <1>1, DigitAssumption
    DEF CardEnters, TrackStart, Reader, READING_STATE, Track, BlankId, Id
  <2> QED  BY <1>1, <2>1, <2>2 DEF CardEnters, SemShape
<1>2. CASE CardMoves
  <2>1. /\ SemShape(OSSemPost1(magnetic_updated_sem), "Task2")
        /\ OSSemPost1(magnetic_updated_sem).wait = {}
    BY SemPost DEF Task
  <2>2. /\ SemShape(magnetic_updated_sem', "Task2")
        /\ magnetic_updated_sem'.wait \subseteq magnetic_updated_sem.wait
    BY <1>2, <2>1 DEF CardMoves, TrackRead, TrackComplete, TrackFail, TrackUnfinished,
                      TrackLeave, Updated
  <2>3. /\ reader' \in Reader
        /\ reader'.state = "NEW_VALID_DATA" => reader.state = "NEW_VALID_DATA"
    <3> USE DEF Reader, READING_STATE, Track
    <3>1. CASE \E c \in Id : TrackRead(c)  BY <3>1 DEF TrackRead
    <3>2. CASE \E c \in Id : TrackComplete(c)  BY <3>2 DEF TrackComplete
    <3>3. CASE \E announced \in BOOLEAN : TrackFail(announced)  BY <3>3 DEF TrackFail
    <3>4. CASE TrackUnfinished  BY <3>4 DEF TrackUnfinished
    <3>5. CASE TrackLeave  BY <3>5 DEF TrackLeave
    <3> QED  BY <1>2, <3>1, <3>2, <3>3, <3>4, <3>5 DEF CardMoves
  <2> QED  BY <1>2, <2>2, <2>3 DEF CardMoves, SemShape
<1>3. CASE CardAccepted
  <2>1. SemShape(magnetic_updated_sem', "Task2") /\ magnetic_updated_sem'.wait = {}
    BY <1>3, SemPost DEF CardAccepted, TrackValid, Updated, Task
  <2>2. reader' \in Reader /\ reader.content \in AnyId
    BY <1>3 DEF CardAccepted, TrackValid, Reader, READING_STATE, Track, Id, AnyId
  <2> QED  BY <1>3, <2>1, <2>2 DEF CardAccepted, SemShape
<1>4. CASE I2C_finished_callback
  BY <1>4 DEF I2C_finished_callback, Configured, Camera
<1>5. CASE FrameStarts
  BY <1>5, FrameAssumption DEF FrameStarts, FrameStart, Camera
<1>6. CASE LineEnds
  <2>1. SemShape(semProcessNewLine', "TaskStart") /\ semProcessNewLine'.wait = {}
    BY <1>6, SemPost DEF LineEnds, LineEnd, Task
  <2>2. camera' \in Camera /\ camera'.state = camera.state
        /\ camera'.requested = camera.requested
    BY <1>6 DEF LineEnds, LineEnd, Camera
  <2>3. TypeOK' /\ ShapeInv'  BY <1>6, <2>1, <2>2 DEF LineEnds, LineEnd, SemShape
  <2>4. LockInv' /\ SwipeInv'  BY <1>6 DEF LineEnds, LineEnd
  <2>5. WaitInv'  BY <1>6, <2>1, <2>2 DEF LineEnds, LineEnd
  <2>6. CameraInv'
    <3>1. Photographing  BY <1>6 DEF LineEnds, LineEnd
    <3>2. camera'.lines = camera.lines + 1 /\ camera.lines < FrameLines
      BY <1>6 DEF LineEnds, LineEnd, Camera
    <3>3. camera'.lines <= FrameLines /\ camera'.lines > 0
      BY <3>2, FrameAssumption DEF Camera
    <3>4. ~camera.requested /\ photo_ready_sem.ctr = 0
      BY <1>6 DEF LineEnds, LineEnd, SemShape, Sem
    <3> QED  BY <1>6, <2>2, <3>1, <3>3, <3>4 DEF LineEnds, LineEnd
  <2> QED  BY <2>3, <2>4, <2>5, <2>6
<1>7. CASE FrameEnds
  <2>1. /\ SemShape(photo_ready_sem', "Task2") /\ photo_ready_sem'.wait = {}
        /\ photo_ready_sem'.ctr =
             IF photo_ready_sem.wait = {} THEN photo_ready_sem.ctr + 1 ELSE 0
    BY <1>7, SemPost DEF FrameEnds, FrameEnd, Task
  <2>2. camera' \in Camera /\ camera'.state = "picture"
        /\ camera'.requested = camera.requested
    BY <1>7 DEF FrameEnds, FrameEnd, Camera
  <2>3. TypeOK' /\ ShapeInv'  BY <1>7, <2>1, <2>2 DEF FrameEnds, FrameEnd, SemShape
  <2>4. LockInv' /\ SwipeInv'  BY <1>7 DEF FrameEnds, FrameEnd
  <2>5. WaitInv'  BY <1>7, <2>1, <2>2 DEF FrameEnds, FrameEnd
  <2>6. ~camera.requested /\ photo_ready_sem.ctr = 0
    BY <1>7 DEF FrameEnds, FrameEnd, SemShape, Sem
  <2>7. CASE photo_ready_sem.wait = {}
    <3>1. pc2 = "photo_pend"  BY <1>7, <2>7 DEF FrameEnds, FrameEnd
    <3>2. CameraInv'  BY <1>7, <2>1, <2>2, <2>6, <2>7, <3>1 DEF FrameEnds, FrameEnd
    <3> QED  BY <2>3, <2>4, <2>5, <3>2
  <2>8. CASE photo_ready_sem.wait = {"Task2"}
    <3>1. pc2 = "bitmap_post"  BY <1>7, <2>8 DEF FrameEnds, FrameEnd
    <3>2. CameraInv'  BY <1>7, <2>1, <2>2, <2>6, <2>8, <3>1 DEF FrameEnds, FrameEnd
    <3> QED  BY <2>3, <2>4, <2>5, <3>2
  <2> QED  BY <2>7, <2>8 DEF SemShape
<1>8. CASE FrameFails
  <2>1. /\ camera' \in Camera /\ camera'.state = "error" /\ camera'.lines = 0
        /\ camera'.requested = camera.requested
    BY <1>8 DEF FrameFails, FrameFail, Camera
  <2>2. TypeOK' /\ ShapeInv'  BY <1>8, <2>1 DEF FrameFails, FrameFail
  <2>3. LockInv' /\ SwipeInv'  BY <1>8 DEF FrameFails, FrameFail
  <2>4. WaitInv'  BY <1>8 DEF FrameFails, FrameFail
  <2>5. ~LinePending /\ ~camera.requested /\ photo_ready_sem.ctr = 0
    BY <1>8 DEF FrameFails, FrameFail, SemShape, Sem
  <2>6. CameraInv'
    BY <1>8, <2>1, <2>5, FrameAssumption DEF FrameFails, FrameFail
  <2> QED  BY <2>2, <2>3, <2>4, <2>6
<1>9. CASE close_door
  <2>1. TypeOK' /\ ShapeInv'  BY <1>9 DEF close_door
  <2>2. LockInv' /\ WaitInv'  BY <1>9 DEF close_door
  <2>3. CameraInv' /\ SwipeInv'  BY <1>9 DEF close_door
  <2> QED  BY <2>1, <2>2, <2>3
<1> QED  BY <1>1, <1>2, <1>3, <1>4, <1>5, <1>6, <1>7, <1>8, <1>9 DEF Interrupt

(* IInv holds in every reachable state.                                     *)
THEOREM Inductive == Spec => []IInv
<1>1. Init => IInv  BY InitIInv
<1>2. IInv /\ [Next]_vars => IInv'
  <2> SUFFICES ASSUME IInv, [Next]_vars PROVE IInv'  OBVIOUS
  <2>1. CASE TaskStart  BY <2>1, TaskStartStep
  <2>2. CASE Task2  BY <2>2, Task2Step
  <2>3. CASE Task3  BY <2>3, Task3Step
  <2>4. CASE Interrupt  BY <2>4, InterruptStep
  <2>5. CASE UNCHANGED vars
    <3> USE DEF vars, readerVars, tasks, sems, mutexes, picture, lookup, list, mail, mailerVars,
                door, history, bounds
    <3>1. TypeOK' /\ ShapeInv'  BY <2>5 DEF IInv, TypeOK, ShapeInv
    <3>2. LockInv'  BY <2>5 DEF IInv, LockInv, LocksCountSessions
    <3>3. WaitInv'  BY <2>5 DEF IInv, WaitInv
    <3>4. CameraInv'  BY <2>5 DEF IInv, CameraInv, LinePending, Photographing
    <3>5. SwipeInv'  BY <2>5 DEF IInv, SwipeInv, Claim
    <3> QED  BY <3>1, <3>2, <3>3, <3>4, <3>5 DEF IInv
  <2> QED  BY <2>1, <2>2, <2>3, <2>4, <2>5 DEF Next
<1> QED  BY <1>1, <1>2, PTL DEF Spec

-----------------------------------------------------------------------------
(* What follows from it *)

(* Every variable keeps its type, whatever the users, the web pages, the    *)
(* camera and the mail server do.                                           *)
THEOREM TypeCorrect == Spec => []TypeOK
<1>1. IInv => TypeOK  BY DEF IInv
<1> QED  BY <1>1, Inductive, PTL

(* One mySMTPresult releases what one send_email took, however many mail    *)
(* sessions overlap.                                                        *)
THEOREM LocksCorrect == Spec => []LocksCountSessions
<1>1. IInv => LocksCountSessions  BY DEF IInv, LockInv
<1> QED  BY <1>1, Inductive, PTL

(* Task2 and CardsCGIhandler are never in Cards[] together.                 *)
THEOREM ListExclusive == Spec => []ListExclusion
<1>1. IInv => ListExclusion
  <2> SUFFICES ASSUME IInv, InSearch, InCards PROVE FALSE  BY DEF ListExclusion
  <2>1. MutexShape(id_list_mutex) /\ Depth(id_list_mutex, "Task2") = 1
        /\ Depth(id_list_mutex, "Task3") = 1
    BY DEF IInv, ShapeInv, LockInv, Bit, InSearch, InCards
  <2>2. id_list_mutex.owner = "Task2"
    BY <2>1, MutexOwner DEF InSearch, User
  <2>3. id_list_mutex.owner = "Task3"
    BY <2>1, MutexOwner DEF InCards, User
  <2> QED  BY <2>2, <2>3
<1> QED  BY <1>1, Inductive, PTL

(* However often the reader announces itself, a valid swipe opens the door  *)
(* at most once.                                                            *)
THEOREM SwipesPay == Spec => []OneAccessPerSwipe
<1>1. IInv => OneAccessPerSwipe
  BY DEF IInv, TypeOK, SwipeInv, OneAccessPerSwipe, Bit
<1> QED  BY <1>1, Inductive, PTL

(* No picture is announced that nobody asked for.                           *)
THEOREM PhotoFresh == Spec => []NoStalePhoto
<1>1. IInv => NoStalePhoto  BY DEF IInv, CameraInv, NoStalePhoto
<1> QED  BY <1>1, Inductive, PTL

(* If Task2 is in a mutex that every mail session holds, and runs, there is *)
(* no session: Task3 could only be waiting for the mutex, in its first send. *)
LEMMA InsideMeansNoSession ==
  ASSUME IInv, "Task2" \notin id_mutex.wait,
         "Task2" \notin bitmap_mutex.wait
  PROVE  /\ Depth(id_mutex, "Task2") > 0 => sessions = 0
         /\ Depth(bitmap_mutex, "Task2") > 0 => sessions = 0
<1>1. sessions \in Nat /\ failed \in Nat  BY DEF IInv, TypeOK
<1>2. ASSUME Depth(id_mutex, "Task2") > 0, sessions > 0 PROVE FALSE
  <2>1. Depth(id_mutex, "Task3") > 0
    BY <1>1, <1>2 DEF IInv, LockInv, LocksCountSessions, Bit
  <2>2. "Task3" \in id_mutex.wait /\ Depth(id_mutex, "Task3") = 1
    BY <1>2, <2>1, MutexOwner DEF IInv, ShapeInv, User
  <2>3. pc3 = "send"  BY <2>2 DEF IInv, WaitInv
  <2> QED  BY <1>1, <1>2, <2>2, <2>3 DEF IInv, LockInv, LocksCountSessions, Bit
<1>3. ASSUME Depth(bitmap_mutex, "Task2") > 0, sessions > 0 PROVE FALSE
  <2>1. Depth(bitmap_mutex, "Task3") > 0
    BY <1>1, <1>3 DEF IInv, LockInv, LocksCountSessions, Bit
  <2>2. "Task3" \in bitmap_mutex.wait /\ Depth(bitmap_mutex, "Task3") = 1
    BY <1>3, <2>1, MutexOwner DEF IInv, ShapeInv, User
  <2>3. pc3 = "email_pend"  BY <2>2 DEF IInv, WaitInv
  <2> QED  BY <1>1, <1>3, <2>2, <2>3
           DEF IInv, LockInv, LocksCountSessions, Bit, Sending, Posting
<1> QED  BY <1>1, <1>2, <1>3

(* id[] does not change under a mail that quotes it.                        *)
THEOREM IdIsStable == Spec => IdStable
<1>1. IInv /\ [Next]_vars => [sessions > 0 => id' = id]_vars
  <2> SUFFICES ASSUME IInv, Next, sessions > 0, id' # id PROVE FALSE
    OBVIOUS
  <2>1. Task2 /\ (GetFirst \/ GetRest \/ \E torn \in OtherDigits : GetLast(torn))
    <3>1. ~TaskStart
      BY DEF TaskStart, PendLine, OV7670_process_new_line, lookup
    <3>2. ~Interrupt
      BY DEF Interrupt, CardEnters, CardMoves, CardAccepted, I2C_finished_callback,
             FrameStarts, LineEnds, FrameEnds, FrameFails, close_door, lookup
    <3>3. ~Task3
      BY DEF Task3, StartNetwork, NoTraffic, EmailCGIhandler, CardsCGIhandler,
             WriteCard, AllWritten, PostCards, mySMTPresult, ResultPostId,
             ResultPostEmail, ResultPostBitmap, PollMail, SendPendBitmap,
             SendPendEmail, SendPendId, SendMail, lookup
    <3> QED
      BY <3>1, <3>2, <3>3
      DEF Next, Task2, InitReader, EnableReading, PendCard, GetState, PendId, PostId,
          PendList, Search, PostList, DisableReadingState, DisableReadingFlag,
          PendBitmap, OV7670_TakePicture, PendPhoto, PostBitmap, PendCompress, Compress,
          PostCompress, PostMail, OpenDoor, StartTimer, lookup
  <2>2. Depth(id_mutex, "Task2") > 0
    BY <2>1 DEF GetFirst, GetRest, GetLast, Goto2, IInv, LockInv, Bit
  <2>3. "Task2" \notin id_mutex.wait /\ "Task2" \notin bitmap_mutex.wait
    BY <2>1 DEF Task2, Ready2
  <2> QED  BY <2>2, <2>3, InsideMeansNoSession
<1> QED  BY <1>1, Inductive, PTL DEF Spec, IdStable

(* bitmap_matrix does not change under a mail that streams it, although     *)
(* TaskStart takes no mutex to write it.                                    *)
THEOREM BitmapIsStable == Spec => BitmapStable
<1>1. IInv /\ [Next]_vars => [sessions > 0 => bitmap' = bitmap]_vars
  <2> SUFFICES ASSUME IInv, Next, sessions > 0, bitmap' # bitmap PROVE FALSE
    OBVIOUS
  <2>1. OV7670_process_new_line \/ (Task2 /\ Compress)
    <3>1. ~Interrupt
      BY DEF Interrupt, CardEnters, CardMoves, CardAccepted, I2C_finished_callback,
             FrameStarts, LineEnds, FrameEnds, FrameFails, close_door, picture
    <3>2. ~Task3
      BY DEF Task3, StartNetwork, NoTraffic, EmailCGIhandler, CardsCGIhandler,
             WriteCard, AllWritten, PostCards, mySMTPresult, ResultPostId,
             ResultPostEmail, ResultPostBitmap, PollMail, SendPendBitmap,
             SendPendEmail, SendPendId, SendMail, picture
    <3>3. ~PendLine  BY DEF PendLine, picture
    <3> QED
      BY <3>1, <3>2, <3>3
      DEF Next, TaskStart, Task2, InitReader, EnableReading, PendCard, GetState, PendId,
          GetFirst, GetRest, GetLast, PostId, PendList, Search, PostList,
          DisableReadingState, DisableReadingFlag, PendBitmap, OV7670_TakePicture, PendPhoto, PostBitmap, PendCompress,
          PostCompress, PostMail, OpenDoor, StartTimer, picture
  <2>2. CASE OV7670_process_new_line
    <3>1. Photographing
      BY <2>2 DEF OV7670_process_new_line, StartReady, LinePending, IInv, CameraInv
    <3>2. Depth(bitmap_mutex, "Task2") > 0
      BY <3>1 DEF Photographing, IInv, LockInv, Bit
    <3>3. "Task2" \notin id_mutex.wait /\ "Task2" \notin bitmap_mutex.wait
      BY <3>1 DEF Photographing, IInv, WaitInv
    <3> QED  BY <3>2, <3>3, InsideMeansNoSession
  <2>3. CASE Task2 /\ Compress
    <3>1. Depth(bitmap_mutex, "Task2") > 0
      BY <2>3 DEF Compress, Goto2, IInv, LockInv, Bit
    <3>2. "Task2" \notin id_mutex.wait /\ "Task2" \notin bitmap_mutex.wait
      BY <2>3 DEF Task2, Ready2
    <3> QED  BY <3>1, <3>2, InsideMeansNoSession
  <2> QED  BY <2>1, <2>2, <2>3
<1> QED  BY <1>1, Inductive, PTL DEF Spec, BitmapStable

(* PhotoInv is inductive relative to IInv.                                  *)
LEMMA PhotoStep == IInv /\ PhotoInv /\ [Next]_vars => PhotoInv'
<1> SUFFICES ASSUME IInv, PhotoInv, [Next]_vars PROVE PhotoInv'  OBVIOUS
<1> USE DEF IInv, PhotoInv, PictureBegun, RawRow, OwnPicture, LinePending
<1>0. camera \in Camera /\ camera.lines \in Nat  BY DEF TypeOK, Camera
<1>1. CASE PendLine
  <2>1. LET n == OSSemPend(semProcessNewLine, "TaskStart") IN
          semProcessNewLine.ctr > 0 => n.wait = {}
    BY <1>1, SemPend DEF PendLine, PendNewLine, StartReady, ShapeInv, Task
  <2> QED  BY <1>1, <2>1 DEF PendLine, PendNewLine, picture, history
<1>2. CASE OV7670_process_new_line
  <2>1. /\ camera.lines > 0 /\ camera.lines \in Row /\ bitmap \in [Row -> Pixels]
        /\ pc2 \notin {"compress_pend", "compress"}
    BY <1>0, <1>2, FrameAssumption
    DEF OV7670_process_new_line, StartReady, CameraInv, Photographing, Row, TypeOK
  <2>2. RawRow(camera.lines)'
    BY <1>2, <2>1 DEF OV7670_process_new_line, history
  <2>3. \A r \in 1..camera.lines : r # camera.lines /\ RawRow(r) => RawRow(r)'
    BY <1>2, <2>1 DEF OV7670_process_new_line, history
  <2> QED  BY <1>2, <2>1, <2>2, <2>3 DEF OV7670_process_new_line, sems, history
<1>3. CASE Task2
  <2> USE DEF Task2, Goto2, sems, picture, history
  <2>1. CASE DisableReadingState
    <3>1. ~PictureBegun
      BY <2>1 DEF DisableReadingState, CameraInv, Photographing, ShapeInv, SemShape, Sem
    <3> QED  BY <2>1, <3>1 DEF DisableReadingState
  <2>2. CASE OV7670_TakePicture
    BY <2>2 DEF OV7670_TakePicture, RequestPicture, CameraInv, Photographing, TypeOK, Camera
  <2>3. CASE PendPhoto
    <3>1. LET n == OSSemPend(photo_ready_sem, "Task2") IN
          IF photo_ready_sem.ctr > 0 THEN n.ctr = photo_ready_sem.ctr - 1
                                     ELSE n.ctr = 0 /\ n.wait = {"Task2"}
      BY <1>3, <2>3, SemPend DEF PendPhoto, PendPicture, Ready2, ShapeInv, Task
    <3> QED  BY <1>3, <2>3, <3>1 DEF PendPhoto, PendPicture
  <2>4. CASE PostBitmap
    <3>1. ~LinePending
      BY <1>3 DEF StartReady, ShapeInv, SemShape, Sem
    <3>2. OwnPicture("raw", access)
      BY <1>3, <2>4, <3>1 DEF PostBitmap, Ready2
    <3> QED  BY <2>4, <3>2 DEF PostBitmap
  <2>5. CASE PendCompress  BY <2>5 DEF PendCompress
  <2>6. CASE Compress
    BY <2>6 DEF Compress, CameraInv, Photographing, ShapeInv, SemShape, Sem
  <2>7. CASE InitReader \/ EnableReading \/ PendCard \/ GetState \/ PendId \/ GetFirst
             \/ GetRest \/ (\E torn \in OtherDigits : GetLast(torn)) \/ PostId
             \/ PendList \/ Search \/ PostList \/ DisableReadingFlag \/ PendBitmap
             \/ PostCompress \/ PostMail \/ OpenDoor \/ StartTimer
    BY <2>7
    DEF InitReader, EnableReading, PendCard, GetState, PendId, GetFirst, GetRest, GetLast,
        PostId, PendList, Search, PostList, DisableReadingFlag, PendBitmap,
        PostCompress, PostMail, OpenDoor, StartTimer
  <2> QED  BY <1>3, <2>1, <2>2, <2>3, <2>4, <2>5, <2>6, <2>7
<1>4. CASE Task3
  BY <1>4
  DEF Task3, StartNetwork, NoTraffic, EmailCGIhandler, CardsCGIhandler, WriteCard,
      AllWritten, PostCards, mySMTPresult, ResultPostId, ResultPostEmail,
      ResultPostBitmap, PollMail, SendPendBitmap, SendPendEmail, SendPendId, SendMail,
      Goto3, sems, picture, history
<1>5. CASE Interrupt
  <2> USE DEF tasks, sems, picture, history
  <2>1. CASE FrameStarts
    BY <2>1 DEF FrameStarts, FrameStart, CameraInv, Photographing, ShapeInv, SemShape, Sem
  <2>2. CASE LineEnds
    <3>1. LinePending'
      <4>1. pcStart' = "line" \/ semProcessNewLine.wait = {}
        BY <2>2 DEF LineEnds, LineEnd, WaitInv, ShapeInv, SemShape
      <4>2. semProcessNewLine'.wait = {}
            /\ semProcessNewLine'.ctr =
                 IF semProcessNewLine.wait = {} THEN semProcessNewLine.ctr + 1 ELSE 0
        BY <2>2, SemPost DEF LineEnds, LineEnd, ShapeInv, Task
      <4> QED  BY <4>1, <4>2 DEF ShapeInv, SemShape, Sem
    <3>2. pc2 \in {"photo_pend", "bitmap_post"}
      BY <2>2 DEF LineEnds, LineEnd, CameraInv, Photographing
    <3>3. camera'.lines = camera.lines + 1 /\ ~LinePending /\ UNCHANGED <<bitmap, access>>
      BY <1>0, <2>2 DEF LineEnds, LineEnd, Camera
    <3>4. \A r \in 1..camera.lines : RawRow(r)
      BY <1>0, <2>2, <3>3 DEF LineEnds, LineEnd
    <3>5. \A r \in 1..camera'.lines : r = camera'.lines \/ RawRow(r)'
      BY <1>0, <3>3, <3>4
    <3> QED  BY <1>0, <2>2, <3>1, <3>2, <3>3, <3>5 DEF LineEnds, LineEnd
  <2>3. CASE FrameEnds
    <3>1. PictureBegun  BY <2>3 DEF FrameEnds, FrameEnd
    <3>2. camera'.lines = camera.lines /\ pc2 \in {"photo_pend", "bitmap_post"}
      BY <1>0, <2>3 DEF FrameEnds, FrameEnd, Camera, CameraInv, Photographing
    <3> QED  BY <2>3, <3>1, <3>2 DEF FrameEnds, FrameEnd
  <2>4. CASE FrameFails
    <3>1. /\ pc2 \in {"photo_pend", "bitmap_post"} /\ photo_ready_sem.ctr = 0
          /\ "Task2" \in photo_ready_sem.wait \/ pc2 = "photo_pend"
      BY <2>4 DEF FrameFails, FrameFail, CameraInv, Photographing, ShapeInv, SemShape, Sem
    <3>2. camera'.state = "error"  BY <1>0, <2>4 DEF FrameFails, FrameFail, Camera
    <3> QED  BY <2>4, <3>1, <3>2 DEF FrameFails, FrameFail
  <2>5. CASE I2C_finished_callback
    <3>1. camera'.lines = camera.lines /\ camera'.state = "ready"
      BY <1>0, <2>5 DEF I2C_finished_callback, Configured, Camera
    <3> QED  BY <2>5, <3>1 DEF I2C_finished_callback, Configured
  <2>6. CASE CardEnters \/ CardMoves \/ CardAccepted \/ close_door
    BY <2>6 DEF CardEnters, CardMoves, CardAccepted, close_door
  <2> QED  BY <1>5, <2>1, <2>2, <2>3, <2>4, <2>5, <2>6 DEF Interrupt
<1>6. CASE UNCHANGED vars
  BY <1>6 DEF vars, tasks, sems, picture, history
<1> QED  BY <1>1, <1>2, <1>3, <1>4, <1>5, <1>6 DEF Next, TaskStart

(* Task2 encodes the picture of its own access, although bitmap_mutex is    *)
(* free for Task3 between the photograph and the compression.               *)
THEOREM OwnPhoto == Spec => []CompressesOwnPhoto
<1>1. Init => PhotoInv
  BY DEF Init, CameraInit, PhotoInv, PictureBegun, NewSem
<1>2. PhotoInv => CompressesOwnPhoto
  BY DEF PhotoInv, CompressesOwnPhoto
<1> QED  BY <1>1, <1>2, PhotoStep, Inductive, PTL DEF Spec

(* An open door has a timer that will close it.                             *)
THEOREM DoorTimed == Spec => []OpenDoorIsTimed
<1>1. Init => OpenDoorIsTimed  BY DEF Init, OpenDoorIsTimed
<1>2. OpenDoorIsTimed /\ [Next]_vars => OpenDoorIsTimed'
  <2> SUFFICES ASSUME OpenDoorIsTimed, [Next]_vars PROVE OpenDoorIsTimed'  OBVIOUS
  <2> USE DEF OpenDoorIsTimed
  <2>1. CASE TaskStart
    BY <2>1 DEF TaskStart, PendLine, OV7670_process_new_line, door
  <2>2. CASE Task2
    <3> USE DEF Goto2, door
    <3>1. CASE OpenDoor  BY <3>1 DEF OpenDoor
    <3>2. CASE StartTimer  BY <3>2 DEF StartTimer
    <3>3. CASE ~OpenDoor /\ ~StartTimer
      BY <2>2, <3>3
      DEF Task2, InitReader, EnableReading, PendCard, GetState, PendId, GetFirst,
          GetRest, GetLast, PostId, PendList, Search, PostList, DisableReadingState,
          DisableReadingFlag, PendBitmap, OV7670_TakePicture, PendPhoto, PostBitmap,
          PendCompress, Compress, PostCompress, PostMail
    <3> QED  BY <3>1, <3>2, <3>3
  <2>3. CASE Task3
    BY <2>3
    DEF Task3, StartNetwork, NoTraffic, EmailCGIhandler, CardsCGIhandler, WriteCard,
        AllWritten, PostCards, mySMTPresult, ResultPostId, ResultPostEmail,
        ResultPostBitmap, PollMail, SendPendBitmap, SendPendEmail, SendPendId,
        SendMail, Goto3, door
  <2>4. CASE Interrupt
    BY <2>4
    DEF Interrupt, CardEnters, CardMoves, CardAccepted, I2C_finished_callback,
        FrameStarts, LineEnds, FrameEnds, FrameFails, close_door, tasks, door
  <2>5. CASE UNCHANGED vars  BY <2>5 DEF vars, tasks, door
  <2> QED  BY <2>1, <2>2, <2>3, <2>4, <2>5 DEF Next
<1> QED  BY <1>1, <1>2, PTL DEF Spec

\* The reader is inert from the second store of disable_reading until it is
\* enabled again, in whatever state an edge between the two stores left it.
ReaderInv ==
  /\ pc2 = "start" => reader.state = "UNINITIALIZED" /\ ~reader.reading
  /\ pc2 \in {"bitmap_pend", "take", "photo_pend", "bitmap_post", "compress_pend",
             "compress", "compress_post", "send", "green", "timer", "enable"}
       => ~reader.reading
  /\ pc2 # "start" => reader.state # "UNINITIALIZED"

(* ReaderInv is inductive relative to IInv, and what the system does to the *)
(* reader is a step of its contract.                                        *)
LEMMA ReaderStep ==
  IInv /\ ReaderInv /\ [Next]_vars
    => ReaderInv' /\ [ReaderInterrupt \/ ReaderCall]_readerVars
<1> SUFFICES ASSUME IInv, ReaderInv, [Next]_vars
             PROVE  ReaderInv' /\ [ReaderInterrupt \/ ReaderCall]_readerVars
  OBVIOUS
<1> USE DEF ReaderInv
<1>1. CASE TaskStart
  BY <1>1 DEF TaskStart, PendLine, OV7670_process_new_line, readerVars
<1>2. CASE Task2
  <2>1. "Task2" \notin magnetic_updated_sem.wait  BY <1>2 DEF Task2, Ready2
  <2> USE DEF Goto2
  <2>2. CASE InitReader
    BY <2>1, <2>2 DEF InitReader, init_magnetic, ReaderCall
  <2>3. CASE EnableReading
    BY <2>1, <2>3 DEF EnableReading, enable_reading, ReaderCall
  <2>4. CASE PendCard
    BY <2>1, <2>4 DEF PendCard, pend_updated, ReaderCall
  <2>5. CASE DisableReadingState
    BY <2>1, <2>5
    DEF DisableReadingState, disable_reading_state, ReaderCall, IInv, TypeOK, Reader
  <2>6. CASE DisableReadingFlag
    BY <2>1, <2>6
    DEF DisableReadingFlag, disable_reading_flag, ReaderCall, IInv, TypeOK, Reader
  <2>7. CASE /\ ~InitReader /\ ~EnableReading /\ ~PendCard
             /\ ~DisableReadingState /\ ~DisableReadingFlag
    BY <1>2, <2>7
    DEF Task2, GetState, PendId, GetFirst, GetRest, GetLast, PostId, PendList, Search, PostList,
        PendBitmap, OV7670_TakePicture, PendPhoto, PostBitmap, PendCompress, Compress,
        PostCompress, PostMail, OpenDoor, StartTimer, readerVars
  <2> QED  BY <2>2, <2>3, <2>4, <2>5, <2>6, <2>7
<1>3. CASE Task3
  BY <1>3
  DEF Task3, StartNetwork, NoTraffic, EmailCGIhandler, CardsCGIhandler, WriteCard,
      AllWritten, PostCards, mySMTPresult, ResultPostId, ResultPostEmail,
      ResultPostBitmap, PollMail, SendPendBitmap, SendPendEmail, SendPendId, SendMail,
      Goto3, readerVars
<1>4. CASE Interrupt
  <2>1. CASE CardEnters
    BY <2>1 DEF CardEnters, TrackStart, ReaderInterrupt, tasks, IInv, TypeOK, Reader
  <2>2. CASE CardMoves
    <3>1. /\ reader.reading /\ pc2' = pc2
          /\ reader'.state \in {reader.state, "INVALID_DATA"}
      BY <2>2 DEF CardMoves, TrackRead, TrackComplete, TrackFail, TrackUnfinished,
                  TrackLeave, tasks, IInv, TypeOK, Reader
    <3>2. ReaderInterrupt  BY <2>2 DEF CardMoves, ReaderInterrupt
    <3> QED  BY <3>1, <3>2
  <2>3. CASE CardAccepted
    BY <2>3 DEF CardAccepted, TrackValid, ReaderInterrupt, tasks, IInv, TypeOK, Reader
  <2>4. CASE ~CardEnters /\ ~CardMoves /\ ~CardAccepted
    BY <1>4, <2>4
    DEF Interrupt, I2C_finished_callback, FrameStarts, LineEnds, FrameEnds, FrameFails,
        close_door, tasks, readerVars
  <2> QED  BY <2>1, <2>2, <2>3, <2>4
<1>5. CASE UNCHANGED vars  BY <1>5 DEF vars, tasks, readerVars
<1> QED  BY <1>1, <1>2, <1>3, <1>4, <1>5 DEF Next

(* Task2 resets the reader only while the reader's interrupts are inert, so *)
(* the driver's assignments in enable_reading cannot be torn, whatever edge *)
(* came between the two stores of disable_reading.                          *)
THEOREM ReaderClient == Spec => KeepsReaderContract
<1>1. Init => ReaderInv /\ ReaderInit
  BY DEF Init, ReaderInit, ReaderInv
<1> QED  BY <1>1, ReaderStep, Inductive, PTL DEF Spec, KeepsReaderContract, ReaderSpec

(* Task2 asks for a picture only when none is on its way and TaskStart has  *)
(* copied the last line of the one before.                                  *)
THEOREM CameraClient == Spec => KeepsCameraContract
<1>1. Init => CameraInit  BY DEF Init
<1>2. IInv /\ [Next]_vars => [CameraInterrupt \/ CameraCall]_cameraVars
  <2> SUFFICES ASSUME IInv, [Next]_vars
               PROVE  [CameraInterrupt \/ CameraCall]_cameraVars
    OBVIOUS
  <2> USE DEF cameraVars
  <2>1. CASE TaskStart
    BY <2>1
    DEF TaskStart, PendLine, OV7670_process_new_line, StartReady, CameraCall, sems
  <2>2. CASE Task2
    <3>1. "TaskStart" \in semProcessNewLine.wait /\ "Task2" \notin photo_ready_sem.wait
      BY <2>2 DEF Task2, StartReady, Ready2
    <3>2. CASE OV7670_TakePicture
      <4>1. ~camera.requested /\ camera.state # "taking"
        BY <3>2 DEF OV7670_TakePicture, Goto2, IInv, CameraInv, Photographing
      <4> QED  BY <3>1, <3>2, <4>1 DEF OV7670_TakePicture, CameraCall
    <3>3. CASE PendPhoto
      BY <3>1, <3>3 DEF PendPhoto, CameraCall
    <3>4. CASE ~OV7670_TakePicture /\ ~PendPhoto
      BY <2>2, <3>4
      DEF Task2, InitReader, EnableReading, PendCard, GetState, PendId, GetFirst, GetRest, GetLast,
          PostId, PendList, Search, PostList, DisableReadingState, DisableReadingFlag,
          PendBitmap, PostBitmap, PendCompress, Compress, PostCompress, PostMail, OpenDoor, StartTimer, sems,
          picture
    <3> QED  BY <3>2, <3>3, <3>4
  <2>3. CASE Task3
    BY <2>3
    DEF Task3, StartNetwork, NoTraffic, EmailCGIhandler, CardsCGIhandler, WriteCard,
        AllWritten, PostCards, mySMTPresult, ResultPostId, ResultPostEmail,
        ResultPostBitmap, PollMail, SendPendBitmap, SendPendEmail, SendPendId, SendMail,
        sems, picture
  <2>4. CASE Interrupt
    BY <2>4
    DEF Interrupt, CardEnters, CardMoves, CardAccepted, I2C_finished_callback,
        FrameStarts, LineEnds, FrameEnds, FrameFails, close_door, CameraInterrupt, sems,
        picture
  <2>5. CASE UNCHANGED vars  BY <2>5 DEF vars, sems, picture
  <2> QED  BY <2>1, <2>2, <2>3, <2>4, <2>5 DEF Next
<1> QED  BY <1>1, <1>2, Inductive, PTL DEF Spec, KeepsCameraContract, CameraSpec
=============================================================================
