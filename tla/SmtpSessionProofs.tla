------------------------- MODULE SmtpSessionProofs -------------------------
(***************************************************************************)
(* The SMTP client keeps the contract of Mailer and writes the body in     *)
(* order and whole, for every mail, send buffer and timeout.               *)
(***************************************************************************)
EXTENDS SmtpSession, TLAPS

\* The connection refers to the session exactly until the session has
\* reported, and only then is smtp_send_body executing.
ReportInv ==
  /\ arg \in BOOLEAN /\ refused \in BOOLEAN
  /\ pcb = "none" => ~arg /\ results = 0
  /\ pcb # "none" => ~refused
  /\ pcb # "none" => results = (IF arg THEN 0 ELSE 1)
  /\ arg => pcb = "open"
  /\ pc # "idle" => arg

\* A step of the contract, or one that does not concern it.
ContractStep ==
  [M!SendAccepted \/ M!SendRefused \/ M!SendResult]_(M!mailerVars)

\* A step that neither starts nor ends a session is none of the contract's.
LEMMA Quiet ==
  ASSUME UNCHANGED <<pcb, results, refused>>
  PROVE  ContractStep
BY DEF ContractStep, M!mailerVars

\* A session that has not reported ends with its one result.
LEMMA Reports ==
  ASSUME ReportInv, arg, arg' = FALSE, pcb' # "none", results' = results + 1,
         UNCHANGED refused, pc' = "idle"
  PROVE  ReportInv'
<1>1. results = 0 /\ pcb # "none" /\ ~refused /\ refused \in BOOLEAN
  BY Zenon DEF ReportInv
<1>2. results' = 1  BY <1>1
<1>3. ~arg' /\ arg' \in BOOLEAN /\ ~refused' /\ refused' \in BOOLEAN
  BY <1>1, Zenon
<1> QED  BY <1>2, <1>3, Zenon DEF ReportInv

\* To the contract, that is the session's result.
LEMMA ReportsOnce ==
  ASSUME ReportInv, arg, pcb' # "none", results' = results + 1, UNCHANGED refused
  PROVE  ContractStep
BY DEF ReportInv, ContractStep, M!SendResult, M!mailerVars

\* smtp_process, called for a session that has not reported.
LEMMA RespondStep ==
  ASSUME ReportInv, arg, pc = "idle", NEW a, NEW tm, Respond(a, tm)
  PROVE  ReportInv' /\ ContractStep
<1>1. CASE UNCHANGED <<pcb, arg, outcome>>
  BY <1>1, Quiet DEF ReportInv, outcome
<1>2. CASE smtp_close("ERR_SVR_RESP") /\ UNCHANGED pc
  <2>1. arg' = FALSE /\ pcb' = "closed" /\ results' = results + 1 /\ UNCHANGED refused
    BY <1>2 DEF smtp_close, smtp_free
  <2> QED  BY <1>2, <2>1, Reports, ReportsOnce
<1>3. CASE CommandSent(NextState(state, a))
  <2>1. CASE UNCHANGED <<arg, outcome>>
    BY <1>3, <2>1, Quiet DEF CommandSent, ReportInv, outcome
  <2>2. CASE arg' = FALSE /\ smtp_free("OK") /\ UNCHANGED pc
    BY <1>3, <2>2, Reports, ReportsOnce DEF CommandSent, ReportInv, smtp_free
  <2> QED  BY <1>3, <2>1, <2>2 DEF CommandSent
<1> QED  BY <1>1, <1>2, <1>3 DEF Respond

\* The same, called without new data.
LEMMA ContinueStep ==
  ASSUME ReportInv, arg, pc = "idle", NEW tm, Continue(tm)
  PROVE  ReportInv' /\ ContractStep
<1>1. CASE smtp_close("ERR_TIMEOUT") /\ UNCHANGED pc
  <2>1. arg' = FALSE /\ pcb' = "closed" /\ results' = results + 1 /\ UNCHANGED refused
    BY <1>1 DEF smtp_close, smtp_free
  <2> QED  BY <1>1, <2>1, Reports, ReportsOnce
<1>2. CASE UNCHANGED <<pcb, arg, outcome>>
  BY <1>2, Quiet DEF ReportInv, outcome
<1>3. CASE Respond(p, tm)
  BY <1>3, RespondStep
<1> QED  BY <1>1, <1>2, <1>3 DEF Continue

\* Every step keeps ReportInv and is a step of the contract.
LEMMA SmtpStep ==
  ASSUME ReportInv, [Next]_vars
  PROVE  ReportInv' /\ ContractStep
<1>1. CASE Send
  <2>1. CASE pcb' = "open"
    BY <1>1, <2>1
    DEF Send, ReportInv, ContractStep, M!SendAccepted, M!SendRefused, M!mailerVars,
        outcome, dialogue
  <2>2. CASE refused' = TRUE /\ UNCHANGED <<dialogue, results, result>>
    BY <1>1, <2>2
    DEF Send, ReportInv, ContractStep, M!SendRefused, M!mailerVars, dialogue
  <2> QED  BY <1>1, <2>1, <2>2 DEF Send
<1>2. CASE smtp_send_body
  <2>1. UNCHANGED <<pcb, arg, outcome>> /\ arg
    BY <1>2
    DEF smtp_send_body, Resume, Run, Stop, FinishBody, dialogue, ReportInv
  <2> QED  BY <2>1, Quiet DEF ReportInv, outcome
<1>3. CASE sntp_set_system_time
  BY <1>3, Quiet DEF sntp_set_system_time, dialogue, outcome, ReportInv
<1>4. CASE smtp_tcp_poll
  BY <1>4, ContinueStep DEF smtp_tcp_poll
<1>5. CASE smtp_tcp_sent
  <2>1. CASE arg  BY <1>5, <2>1, ContinueStep DEF smtp_tcp_sent
  <2>2. CASE ~arg
    BY <1>5, <2>2, Quiet DEF smtp_tcp_sent, dialogue, outcome, ReportInv
  <2> QED  BY <2>1, <2>2
<1>6. CASE smtp_tcp_recv
  BY <1>6, RespondStep DEF smtp_tcp_recv
<1>7. CASE ClosedByServer
  <2>1. CASE arg
    <3>1. arg' = FALSE /\ pcb' = "closed" /\ results' = results + 1 /\ UNCHANGED refused
      BY <1>7, <2>1 DEF ClosedByServer, smtp_close, smtp_free
    <3>2. pc' = "idle"  BY <1>7 DEF ClosedByServer
    <3> QED  BY <2>1, <3>1, <3>2, Reports, ReportsOnce
  <2>2. CASE ~arg
    BY <1>7, <2>2
    DEF ClosedByServer, outcome, ReportInv, ContractStep, M!mailerVars
  <2> QED  BY <2>1, <2>2
<1>8. CASE smtp_tcp_err
  <2>1. CASE arg
    <3>1. arg' = FALSE /\ pcb' = "gone" /\ results' = results + 1 /\ UNCHANGED refused
      BY <1>8, <2>1 DEF smtp_tcp_err, smtp_free
    <3>2. pc' = "idle"  BY <1>8 DEF smtp_tcp_err
    <3> QED  BY <2>1, <3>1, <3>2, Reports, ReportsOnce
  <2>2. CASE ~arg
    BY <1>8, <2>2
    DEF smtp_tcp_err, outcome, ReportInv, ContractStep, M!mailerVars
  <2> QED  BY <2>1, <2>2
<1>9. CASE UNCHANGED vars
  BY <1>9, Quiet DEF vars, dialogue, outcome, ReportInv
<1> QED
  BY <1>1, <1>2, <1>3, <1>4, <1>5, <1>6, <1>7, <1>8, <1>9 DEF Next

(* However a session ends (confirmed, timed out, an unexpected answer, the  *)
(* connection closed or reset) smtp.c calls mySMTPresult exactly once, and  *)
(* never after smtp_send_mail_bodycback has returned an error.              *)
THEOREM MailerContract == Spec => KeepsMailerContract
<1>1. Init => ReportInv /\ M!MailerInit
  <2> SUFFICES ASSUME Init PROVE ReportInv /\ M!MailerInit
    OBVIOUS
  <2>1. pcb = "none" /\ results = 0 /\ pc = "idle" /\ arg = FALSE /\ refused = FALSE
    BY DEF Init
  <2>2. ReportInv  BY <2>1, Zenon DEF ReportInv
  <2>3. ~refused  BY <2>1, Zenon
  <2>4. M!MailerInit  BY <2>1, <2>3, SMT DEF M!MailerInit
  <2> QED  BY <2>2, <2>4
<1>2. ReportInv /\ [Next]_vars => ReportInv'  BY SmtpStep
<1>3. ReportInv /\ [Next]_vars
        => [M!SendAccepted \/ M!SendRefused \/ M!SendResult]_(M!mailerVars)
  BY SmtpStep DEF ContractStep
<1> QED  BY <1>1, <1>2, <1>3, PTL DEF Spec, KeepsMailerContract, M!MailerSpec

-----------------------------------------------------------------------------
(* The body.  The operators below take the state of the generator as their  *)
(* arguments, so that a chunk that is produced and written in one step can  *)
(* be followed through the state in between.                                *)

\* Follows, for the lengths `ask'.
After(ask, a, b) ==
  \/ b = <<a[1], a[2] + 1>> /\ a[2] < ask[a[1]]
  \/ /\ a[1] < b[1] /\ a[2] = ask[a[1]] /\ b[2] = 1
     /\ \A c \in a[1] + 1..b[1] - 1 : ask[c] = 0

\* What is written ends with the last byte of the chunks before e.
EndsAt(ask, e, a) ==
  a[1] < e /\ a[2] = ask[a[1]] /\ \A c \in a[1] + 1..e - 1 : ask[c] = 0

\* The bytes w are in order, all of them of chunks before e, and the rest of
\* the last chunk, `len' bytes from byte b, comes right after them.
InOrder(ask, e, w, b, len) ==
  /\ \A i \in 1..Len(w) : w[i][1] < e
  /\ w # <<>> => w[1] = <<0, 1>>
  /\ \A i \in 1..Len(w) - 1 : After(ask, w[i], w[i + 1])
  /\ len > 0 => e > 0 /\ b[1] = e - 1 /\ b[2] + len - 1 = ask[e - 1]
  /\ w = <<>> => IF len > 0 THEN b = <<0, 1>> ELSE e = 0
  /\ w # <<>> => IF len > 0 THEN After(ask, w[Len(w)], b) ELSE EndsAt(ask, e, w[Len(w)])

\* Every byte of the chunks before e is in w or in that rest.
Complete(ask, e, w, b, len) ==
  \A c \in 0..e - 1 : \A k \in 1..ask[c] :
    \/ \E i \in 1..Len(w) : w[i] = <<c, k>>
    \/ len > 0 /\ c = e - 1 /\ k >= b[2]

\* The whole mail is in w, in order, and the line that ends it comes last.
Whole(ask, w) ==
  /\ w # <<>> /\ w[1] = <<0, 1>> /\ w[Len(w)] = EndOfBody
  /\ \A i \in 1..Len(w) - 1 : After(ask, w[i], w[i + 1])
  /\ \A c \in Chunk : \A k \in 1..ask[c] : \E i \in 1..Len(w) : w[i] = <<c, k>>

\* smtp_send_bodyh_data appends a piece of the rest.
Piece(b, n) == [i \in 1..n |-> <<b[1], b[2] + i - 1>>]

Ended == state \in {"QUIT", "CLOSED"}

BodyTypes ==
  /\ bdh \in {"SENDING", "STOP"} /\ exposed \in 0..FINISHED /\ body \in Byte
  /\ body_len \in Nat /\ body_len <= 65535 /\ body_sent \in Nat
  /\ wire \in Seq(Byte \cup {EndOfBody}) /\ acked \in 0..Len(wire)
  /\ InFlight <= TcpSndBuf
  /\ time \in Nat /\ asked \in [Chunk -> Nat]

\* Where smtp_send_body is, and what the pause markers mean there.
BodyControl ==
  /\ pc # "idle" => state = "BODY"
  /\ pc = "run" => body_len = 0 /\ bdh = "SENDING"
  /\ bdh = "STOP" => body_len = 0 /\ exposed = FINISHED
  /\ pc = "end" /\ body_sent = body_len => bdh = "STOP"
  /\ result = "OK" => state = "CLOSED"

\* Before the line that ends the mail, and after it.
BodyWritten ==
  /\ ~Ended => /\ wire \in Seq(Byte)
               /\ InOrder(asked, exposed, wire, body, body_len)
               /\ Complete(asked, exposed, wire, body, body_len)
  /\ Ended => body_len = 0 /\ exposed = FINISHED /\ Whole(asked, wire)

\* Only the times may differ in length from what the mail needs.
FullChunks == \A c \in Chunk \ Timed : c < exposed => asked[c] = ChunkLen[c]

BodyInv == BodyTypes /\ BodyControl /\ BodyWritten /\ FullChunks

\* What the provers need to know of the numbers of the chunks.
LEMMA ChunkNumbers ==
  /\ FINISHED \in Nat /\ 0 \in Chunk /\ FINISHED - 1 \in Chunk
  /\ \A c \in Chunk : c \in Nat /\ c < FINISHED /\ c + 1 \in 0..FINISHED
  /\ \A e \in 0..FINISHED :
       /\ e \in Nat /\ \A c \in Nat : c < e => c \in Chunk
       /\ e > 0 => e - 1 \in Chunk
       /\ e < FINISHED => e \in Chunk
BY DEF Chunk, FINISHED

\* A piece appended to what is written.
LEMMA Appended ==
  ASSUME NEW w \in Seq(Byte), NEW b \in Byte, NEW n \in Nat
  PROVE  /\ w \o Piece(b, n) \in Seq(Byte) /\ Len(w \o Piece(b, n)) = Len(w) + n
         /\ \A i \in 1..Len(w) : (w \o Piece(b, n))[i] = w[i]
         /\ \A i \in 1..n : (w \o Piece(b, n))[Len(w) + i] = <<b[1], b[2] + i - 1>>
<1>1. b[1] \in Chunk /\ b[2] \in Nat /\ b = <<b[1], b[2]>>  BY DEF Byte
<1>2. \A i \in 1..n : <<b[1], b[2] + i - 1>> \in Byte  BY <1>1 DEF Byte
<1>3. Piece(b, n) \in Seq(Byte) /\ Len(Piece(b, n)) = n
  BY <1>2 DEF Piece
<1>4. \A i \in 1..n : Piece(b, n)[i] = <<b[1], b[2] + i - 1>>
  BY DEF Piece
<1> HIDE DEF Piece
<1> DEFINE q == Piece(b, n)
<1>5. q \in Seq(Byte) /\ Len(q) = n  BY <1>3
<1> HIDE DEF q
<1>6. /\ w \o q \in Seq(Byte) /\ Len(w \o q) = Len(w) + n
      /\ \A i \in 1..Len(w) : (w \o q)[i] = w[i]
      /\ \A i \in 1..n : (w \o q)[Len(w) + i] = q[i]
  BY <1>5
<1> QED  BY <1>4, <1>6 DEF q

\* Writing n of the `len' bytes that come next keeps the order.
LEMMA WriteKeepsOrder ==
  ASSUME NEW ask \in [Chunk -> Nat], NEW e \in 0..FINISHED,
         NEW w \in Seq(Byte), NEW b \in Byte, NEW len \in Nat,
         NEW n \in 0..len, InOrder(ask, e, w, b, len)
  PROVE  InOrder(ask, e, w \o Piece(b, n), <<b[1], b[2] + n>>, len - n)
<1> DEFINE v == w \o Piece(b, n)
           c == <<b[1], b[2] + n>>
<1>1. b[1] \in Chunk /\ b[2] \in Nat  BY DEF Byte
<1>7. b = <<b[1], b[2]>>  BY DEF Byte
<1>2. /\ v \in Seq(Byte) /\ Len(v) = Len(w) + n
      /\ \A i \in 1..Len(w) : v[i] = w[i]
      /\ \A i \in 1..n : v[Len(w) + i] = <<b[1], b[2] + i - 1>>
  <2>1. n \in Nat  OBVIOUS
  <2> QED  BY <2>1, Appended, Zenon
<1>3. c[1] = b[1] /\ c[2] = b[2] + n  OBVIOUS
<1>4. Len(w) \in Nat /\ n \in Nat /\ len \in Nat /\ n <= len  OBVIOUS
<1>5. CASE n = 0
  <2>1. v = w
    <3>1. Piece(b, n) = <<>>  BY <1>5 DEF Piece
    <3> QED  BY <3>1
  <2>2. c = b  BY <1>1, <1>5, <1>7
  <2>3. len - n = len  BY <1>4, <1>5
  <2> QED  BY <2>1, <2>2, <2>3
<1>6. CASE n > 0
  <2> HIDE DEF v, c
  <2>1. len > 0 /\ e > 0 /\ b[1] = e - 1 /\ b[2] + len - 1 = ask[e - 1]
    BY <1>4, <1>6 DEF InOrder
  <2>2. e \in Nat /\ ask[e - 1] \in Nat  BY <2>1, ChunkNumbers
  <2> DEFINE y == b[2]
             last == ask[e - 1]
  <2>10. y \in Nat /\ last \in Nat /\ y + len - 1 = last  BY <1>1, <2>1, <2>2
  <2>11. b[2] = y /\ ask[e - 1] = last /\ ask[b[1]] = last  BY <2>1
  <2> HIDE DEF y, last
  <2>3. v # <<>> /\ v[Len(v)] = <<b[1], b[2] + n - 1>>
    BY <1>2, <1>4, <1>6
  <2>4. \A i \in 1..Len(v) : v[i][1] < e
    <3> TAKE i \in 1..Len(v)
    <3>1. CASE i <= Len(w)  BY <3>1, <1>2, <1>4 DEF InOrder
    <3>2. CASE i > Len(w)
      <4>1. i - Len(w) \in 1..n /\ i = Len(w) + (i - Len(w))  BY <3>2, <1>2, <1>4
      <4>2. v[i] = <<b[1], b[2] + (i - Len(w)) - 1>>  BY <4>1, <1>2
      <4> QED  BY <4>2, <2>1
    <3> QED  BY <3>1, <3>2, <1>4
  <2>5. v[1] = <<0, 1>>
    <3>1. CASE w = <<>>
      <4>1. Len(w) = 0  BY <3>1
      <4>3. 1 \in 1..n /\ Len(w) + 1 = 1 /\ b[2] + 1 - 1 = b[2]
        BY <4>1, <1>1, <1>4, <1>6
      <4>2. v[1] = <<b[1], b[2]>>  BY <4>3, <1>2
      <4> QED  BY <3>1, <4>2, <2>1, <1>7 DEF InOrder
    <3>2. CASE w # <<>>
      <4>1. 1 \in 1..Len(w)  BY <3>2, <1>4
      <4> QED  BY <3>2, <4>1, <1>2 DEF InOrder
    <3> QED  BY <3>1, <3>2
  <2>6. \A i \in 1..Len(v) - 1 : After(ask, v[i], v[i + 1])
    <3> TAKE i \in 1..Len(v) - 1
    <3>1. CASE i < Len(w)
      <4>1. i \in 1..Len(w) /\ i + 1 \in 1..Len(w) /\ i \in 1..Len(w) - 1
        BY <3>1, <1>4
      <4> QED  BY <4>1, <1>2 DEF InOrder
    <3>2. CASE i = Len(w)
      <4>1. i \in 1..Len(w) /\ w # <<>>  BY <3>2, <1>4
      <4>2. v[i] = w[Len(w)]  BY <3>2, <4>1, <1>2
      <4>3. 1 \in 1..n /\ i + 1 = Len(w) + 1 /\ b[2] + 1 - 1 = b[2]
        BY <3>2, <1>1, <1>4, <1>6
      <4>4. v[i + 1] = <<b[1], b[2]>>  BY <4>3, <1>2
      <4>5. v[i + 1] = b  BY <4>4, <1>7
      <4> QED  BY <4>1, <4>2, <4>5, <2>1 DEF InOrder
    <3>3. CASE i > Len(w)
      <4> DEFINE j == i - Len(w)
      <4>1. j \in 1..n /\ j + 1 \in 1..n /\ i = Len(w) + j /\ i + 1 = Len(w) + (j + 1)
        BY <3>3, <1>2, <1>4
      <4> HIDE DEF j
      <4>2. v[i] = <<b[1], b[2] + j - 1>> /\ v[i + 1] = <<b[1], b[2] + (j + 1) - 1>>
        BY <4>1, <1>2
      <4>3. y + j - 1 < last  BY <4>1, <2>10, <1>4
      <4>4. y + (j + 1) - 1 = (y + j - 1) + 1  BY <4>1, <2>10
      <4> QED  BY <4>2, <4>3, <4>4, <2>11 DEF After
    <3> QED  BY <3>1, <3>2, <3>3, <1>4
  <2>7. len - n > 0 => c[1] = e - 1 /\ c[2] + (len - n) - 1 = ask[e - 1]
    <3>1. (y + n) + (len - n) - 1 = last  BY <2>10, <1>4
    <3> QED  BY <1>3, <2>1, <2>11, <3>1
  <2>8. len - n > 0 => After(ask, v[Len(v)], c)
    <3> HAVE len - n > 0
    <3>1. y + n - 1 < last  BY <1>4, <2>10
    <3>2. y + n = (y + n - 1) + 1  BY <1>4, <2>10
    <3>3. c = <<b[1], y + n>>  BY <2>11 DEF c
    <3> QED  BY <2>3, <2>11, <3>1, <3>2, <3>3 DEF After
  <2>9. ~(len - n > 0) => EndsAt(ask, e, v[Len(v)])
    <3> HAVE ~(len - n > 0)
    <3>1. y + n - 1 = last  BY <1>4, <2>10
    <3>2. (e - 1) + 1..e - 1 = {} /\ e - 1 < e  BY <2>2
    <3> QED  BY <2>1, <2>3, <2>11, <3>1, <3>2 DEF EndsAt
  <2> QED  BY <2>1, <2>3, <2>4, <2>5, <2>6, <2>7, <2>8, <2>9 DEF InOrder, v, c
<1> QED  BY <1>4, <1>5, <1>6

\* It loses no byte either.
LEMMA WriteKeepsAll ==
  ASSUME NEW ask \in [Chunk -> Nat], NEW e \in 0..FINISHED,
         NEW w \in Seq(Byte), NEW b \in Byte, NEW len \in Nat,
         NEW n \in 0..len, InOrder(ask, e, w, b, len), Complete(ask, e, w, b, len)
  PROVE  Complete(ask, e, w \o Piece(b, n), <<b[1], b[2] + n>>, len - n)
<1> DEFINE v == w \o Piece(b, n)
<1> SUFFICES ASSUME NEW c \in 0..e - 1, NEW k \in 1..ask[c],
                    ~(len - n > 0 /\ c = e - 1 /\ k >= b[2] + n)
             PROVE  \E i \in 1..Len(v) : v[i] = <<c, k>>
  BY DEF Complete
<1>1. b[1] \in Chunk /\ b[2] \in Nat  BY DEF Byte
<1>2. /\ v \in Seq(Byte) /\ Len(v) = Len(w) + n
      /\ \A i \in 1..Len(w) : v[i] = w[i]
      /\ \A i \in 1..n : v[Len(w) + i] = <<b[1], b[2] + i - 1>>
  <2>1. n \in Nat  OBVIOUS
  <2> QED  BY <2>1, Appended, Zenon
<1> HIDE DEF v
<1>3. c \in Chunk /\ ask[c] \in Nat /\ k \in Nat
  <2>1. e \in Nat /\ c \in Nat /\ c < e  BY ChunkNumbers
  <2>2. c \in Chunk  BY <2>1, ChunkNumbers
  <2>3. ask[c] \in Nat  BY <2>2
  <2> QED  BY <2>2, <2>3
<1>4. CASE \E i \in 1..Len(w) : w[i] = <<c, k>>
  <2>1. PICK i \in 1..Len(w) : w[i] = <<c, k>>  BY <1>4
  <2>2. Len(w) \in Nat /\ i \in 1..Len(v)  BY <1>2
  <2> QED  BY <2>1, <2>2, <1>2
<1>5. CASE len > 0 /\ c = e - 1 /\ k >= b[2]
  <2>1. b[1] = c /\ b[2] + len - 1 = ask[c]  BY <1>5 DEF InOrder
  <2>2. k < b[2] + n
    <3>1. CASE len - n > 0  BY <3>1, <1>1, <1>3, <1>5
    <3>2. CASE n = len  BY <3>2, <1>1, <1>3, <2>1
    <3> QED  BY <3>1, <3>2
  <2> DEFINE j == k - b[2] + 1
  <2>6. k >= b[2] /\ n \in Nat  BY <1>5
  <2>7. PICK y \in Nat : y = b[2]  BY <1>1
  <2>8. k - y + 1 \in 1..n /\ y + (k - y + 1) - 1 = k  
    <3>1. k >= y /\ k < y + n  BY <2>2, <2>6, <2>7
    <3>2. k \in Nat /\ n \in Nat  BY <1>3, <2>6
    <3> QED  BY <3>1, <3>2
  <2>3. j \in 1..n /\ b[2] + j - 1 = k  BY <2>7, <2>8
  <2> HIDE DEF j
  <2>5. Len(w) \in Nat /\ Len(w) + j \in 1..Len(v)  BY <2>3, <1>2
  <2>4. v[Len(w) + j] = <<c, k>>  BY <2>3, <2>1, <1>2
  <2> QED  BY <2>4, <2>5
<1> QED  BY <1>4, <1>5 DEF Complete

\* The chunk that my_smtp_bodydh_fn produces comes next once the one before
\* it is written.  The first one is never empty.
LEMMA ChunkKeeps ==
  ASSUME NEW ask \in [Chunk -> Nat], NEW e \in Chunk,
         NEW w \in Seq(Byte), NEW b \in Byte, NEW l \in Nat, e = 0 => l > 0,
         InOrder(ask, e, w, b, 0), Complete(ask, e, w, b, 0)
  PROVE  /\ InOrder([ask EXCEPT ![e] = l], e + 1, w, <<e, 1>>, l)
         /\ Complete([ask EXCEPT ![e] = l], e + 1, w, <<e, 1>>, l)
<1> DEFINE new == [ask EXCEPT ![e] = l]
<1>1. new[e] = l /\ \A c \in Chunk : c # e => new[c] = ask[c]  OBVIOUS
<1> HIDE DEF new
<1>2. e \in Nat /\ Len(w) \in Nat  BY ChunkNumbers
<1>11. \A i \in 1..Len(w) : w[i] \in Byte  OBVIOUS
<1>10. \A c \in Nat : c < e => c \in Chunk  BY ChunkNumbers
<1>3. \A i \in 1..Len(w) :
        w[i][1] \in Chunk /\ w[i][1] \in Nat /\ w[i][2] \in Nat /\ w[i][1] < e
  <2>1. \A i \in 1..Len(w) : w[i][1] \in Chunk /\ w[i][2] \in Nat
    BY <1>11 DEF Byte
  <2> QED  BY <2>1, ChunkNumbers DEF InOrder
<1>4. \A i \in 1..Len(w) - 1 : After(new, w[i], w[i + 1])
  <2> TAKE i \in 1..Len(w) - 1
  <2>1. i \in 1..Len(w) /\ i + 1 \in 1..Len(w)  BY <1>2
  <2>2. After(ask, w[i], w[i + 1])  BY DEF InOrder
  <2>3. PICK f, g : f = w[i] /\ g = w[i + 1]  OBVIOUS
  <2>4. /\ f[1] \in Chunk /\ f[1] \in Nat /\ f[1] < e
        /\ g[1] \in Chunk /\ g[1] \in Nat /\ g[1] < e
    BY <2>1, <2>3, <1>3
  <2>5. new[f[1]] = ask[f[1]]  BY <2>4, <1>1, <1>2
  <2>6. \A c \in f[1] + 1..g[1] - 1 : new[c] = ask[c]
    <3> TAKE c \in f[1] + 1..g[1] - 1
    <3>2. PICK x \in Nat, y \in Nat : x = f[1] /\ y = g[1] /\ y < e  BY <2>4
    <3>3. c \in x + 1..y - 1  BY <3>2
    <3>4. y < e  BY <3>2
    <3>1. c \in Nat /\ c < e  BY <3>3, <3>4, <1>2
    <3> QED  BY <3>1, <1>1, <1>2, <1>10
  <2> QED  BY <2>2, <2>3, <2>5, <2>6 DEF After
<1>5. w = <<>> => e = 0  BY DEF InOrder
<1>6. w # <<>> => EndsAt(ask, e, w[Len(w)]) /\ Len(w) \in 1..Len(w)
  BY <1>2 DEF InOrder
<1>7. w # <<>> => IF l > 0 THEN After(new, w[Len(w)], <<e, 1>>)
                  ELSE EndsAt(new, e + 1, w[Len(w)])
  <2> HAVE w # <<>>
  <2> DEFINE a == w[Len(w)]
  <2>1. a[1] \in Chunk /\ a[1] < e /\ a[2] = ask[a[1]] /\ new[a[1]] = ask[a[1]]
    <3>1. a[1] \in Chunk /\ a[1] \in Nat /\ a[1] < e  BY <1>3, <1>6
    <3>2. a[2] = ask[a[1]]  BY <1>6 DEF EndsAt
    <3> QED  BY <3>1, <3>2, <1>1, <1>2
  <2>5. PICK x \in Nat : x = a[1]  BY <2>1, ChunkNumbers
  <2>2. \A c \in x + 1..e - 1 : new[c] = 0
    <3> TAKE c \in x + 1..e - 1
    <3>1. c \in Nat /\ c < e /\ c # e  BY <1>2
    <3>2. ask[c] = 0  BY <1>6, <2>5 DEF EndsAt
    <3> QED  BY <3>1, <3>2, <1>1, <1>10
  <2> HIDE DEF a
  <2>3. CASE l > 0
    <3>1. a[1] < e /\ a[2] = new[a[1]] /\ \A c \in a[1] + 1..e - 1 : new[c] = 0
      BY <2>1, <2>2, <2>5
    <3> QED  BY <2>3, <3>1 DEF After, a
  <2>4. CASE l = 0
    <3>1. \A c \in x + 1..(e + 1) - 1 : new[c] = 0
      <4> TAKE c \in x + 1..(e + 1) - 1
      <4>1. c = e \/ c \in x + 1..e - 1  BY <1>2
      <4> QED  BY <4>1, <1>1, <2>2, <2>4
    <3>2. x < e + 1  BY <2>1, <2>5, <1>2
    <3>3. a[2] = new[a[1]]  BY <2>1
    <3>4. EndsAt(new, e + 1, a)  BY <2>5, <3>1, <3>2, <3>3 DEF EndsAt
    <3> QED  BY <2>4, <3>4 DEF a
  <2> QED  BY <2>3, <2>4
<1>8. InOrder(new, e + 1, w, <<e, 1>>, l)
  <2>1. \A i \in 1..Len(w) : w[i][1] < e + 1  BY <1>2, <1>3
  <2>2. w # <<>> => w[1] = <<0, 1>>  BY DEF InOrder
  <2>3. l > 0 => e + 1 > 0 /\ e = (e + 1) - 1 /\ 1 + l - 1 = new[(e + 1) - 1]
    <3>1. (e + 1) - 1 = e /\ e + 1 > 0 /\ 1 + l - 1 = l  BY <1>2
    <3> QED  BY <3>1, <1>1
  <2>4. w = <<>> => IF l > 0 THEN <<e, 1>> = <<0, 1>> ELSE e + 1 = 0  BY <1>5
  <2> QED  BY <1>4, <1>7, <2>1, <2>2, <2>3, <2>4 DEF InOrder
<1>9. Complete(new, e + 1, w, <<e, 1>>, l)
  <2> SUFFICES ASSUME NEW c \in 0..(e + 1) - 1, NEW k \in 1..new[c]
               PROVE  \/ \E i \in 1..Len(w) : w[i] = <<c, k>>
                      \/ l > 0 /\ c = (e + 1) - 1 /\ k >= 1
    BY DEF Complete
  <2>1. CASE c = e  BY <2>1, <1>1, <1>2
  <2>2. CASE c # e
    <3>1. c \in 0..e - 1 /\ c \in Nat /\ c < e  BY <2>2, <1>2
    <3>2. new[c] = ask[c]  BY <3>1, <1>1, <1>10, <2>2
    <3>3. k \in 1..ask[c]  BY <3>2
    <3>4. ~(0 > 0)  OBVIOUS
    <3> QED  BY <3>1, <3>3, <3>4 DEF Complete
  <2> QED  BY <2>1, <2>2
<1> QED  BY <1>8, <1>9 DEF new

\* The smaller of two numbers.
LEMMA MinOfTwo ==
  ASSUME NEW a \in Int, NEW b \in Int
  PROVE  Min({a, b}) \in {a, b} /\ Min({a, b}) <= a /\ Min({a, b}) <= b
<1>1. \E x \in {a, b} : \A y \in {a, b} : x <= y  OBVIOUS
<1>2. /\ Min({a, b}) \in {a, b}
      /\ \A y \in {a, b} : Min({a, b}) <= y
  BY <1>1, Zenon DEF Min
<1> QED  BY <1>2, Zenon

\* body_sent differs from body_len after a pause, whatever is left.
LEMMA PauseMark ==
  ASSUME NEW n \in Nat, n <= 65535
  PROVE  U16(n - 1) \in Nat /\ U16(n - 1) # n
<1> DEFINE m == n - 1
<1>1. m \in Int /\ m >= 0 - 1 /\ m <= 65534 /\ n = m + 1  OBVIOUS
<1> HIDE DEF m
<1>2. m >= 0 => m % 65536 = m  BY <1>1
<1>3. m < 0 => m % 65536 > 0  BY <1>1
<1>4. m % 65536 \in Nat  BY <1>1
<1>5. m % 65536 # m + 1  BY <1>1, <1>2, <1>3, <1>4
<1> QED  BY <1>1, <1>4, <1>5 DEF U16, m

\* Lengths of the chunks; the first one is not empty.
LEMMA Lengths ==
  /\ \A c \in Chunk : Length(c) \in Nat /\ Length(c) <= 65535
  /\ \A c \in Chunk \ Timed : Length(c) = ChunkLen[c]
  /\ Length(0) > 0
<1>1. /\ \A c \in Chunk : ChunkLen[c] \in Nat /\ ChunkLen[c] > 0 /\ ChunkLen[c] <= 65535
      /\ TimeLen \in Nat /\ TimeLen <= 65535
  BY SizeAssumption
<1>2. 0 \in Chunk /\ 0 \notin Timed  BY DEF Chunk, FINISHED, Timed
<1> QED  BY <1>1, <1>2 DEF Length

\* What TCP takes is part of what it is given and fits into the send buffer.
LEMMA Fits ==
  ASSUME BodyTypes, NEW len \in Nat, NEW n \in Written(len)
  PROVE  n \in 0..len /\ n <= TcpSndBuf - InFlight
<1>1. TcpSndBuf \in Int  BY SizeAssumption
<1>2. InFlight \in Int /\ TcpSndBuf - InFlight \in Nat
  <2>1. Len(wire) \in Nat /\ acked \in Int /\ InFlight <= TcpSndBuf
    BY DEF BodyTypes
  <2> QED  BY <1>1, <2>1 DEF InFlight
<1> DEFINE free == TcpSndBuf - InFlight
           room == Min({len, free})
<1>3. free \in Nat  BY <1>2
<1> HIDE DEF free
<1>4. room \in {len, free} /\ room <= len /\ room <= free  
  <2>1. free \in Int /\ len \in Int  BY <1>3
  <2> QED  BY <2>1, MinOfTwo, Zenon
<1> HIDE DEF room
<1>5. room \in Nat  BY <1>3, <1>4
<1>6. n \in 0..room
  <2>1. Written(len) = IF prompt THEN {room} ELSE 0..room  BY Zenon DEF Written, room, free
  <2>2. Written(len) = {room} \/ Written(len) = 0..room  BY <2>1, Zenon
  <2> QED  BY <2>2, <1>5
<1> QED  BY <1>3, <1>4, <1>5, <1>6 DEF free

\* A write keeps the order and the buffer.  The chunk it is taken from is the
\* last one produced, in this step or an earlier one.
LEMMA WriteStep ==
  ASSUME BodyTypes, wire \in Seq(Byte), UNCHANGED acked,
         NEW ask \in [Chunk -> Nat], NEW e \in 0..FINISHED,
         NEW from \in Byte, NEW len \in Nat, NEW n \in Written(len),
         InOrder(ask, e, wire, from, len), Complete(ask, e, wire, from, len),
         smtp_send_bodyh_data(from, len, n)
  PROVE  /\ n \in 0..len
         /\ wire' \in Seq(Byte) /\ acked' \in 0..Len(wire') /\ InFlight' <= TcpSndBuf
         /\ body' \in Byte /\ body_len' = len - n
         /\ InOrder(ask, e, wire', body', body_len')
         /\ Complete(ask, e, wire', body', body_len')
<1>1. n \in 0..len /\ n <= TcpSndBuf - InFlight  BY Fits
<1>2. /\ wire' = wire \o Piece(from, n) /\ body' = <<from[1], from[2] + n>>
      /\ body_len' = len - n
  BY DEF smtp_send_bodyh_data, Piece
<1>3. PICK w \in Seq(Byte) : w = wire  OBVIOUS
<1>4. InOrder(ask, e, w \o Piece(from, n), <<from[1], from[2] + n>>, len - n)
  BY <1>1, <1>3, WriteKeepsOrder
<1>5. Complete(ask, e, w \o Piece(from, n), <<from[1], from[2] + n>>, len - n)
  BY <1>1, <1>3, WriteKeepsAll
<1>6. n \in Nat  BY <1>1
<1>7. wire' \in Seq(Byte) /\ Len(wire') = Len(wire) + n
  BY <1>2, <1>3, <1>6, Appended
<1>8. acked' \in 0..Len(wire') /\ InFlight' <= TcpSndBuf
  <2>1. acked \in 0..Len(wire) /\ Len(wire) \in Nat /\ TcpSndBuf \in Nat
    BY SizeAssumption DEF BodyTypes
  <2> QED  BY <1>1, <1>6, <1>7, <2>1 DEF InFlight
<1>9. body' \in Byte
  <2>1. from[1] \in Chunk /\ from[2] \in Nat  BY DEF Byte
  <2>2. from[2] + n \in Nat  BY <2>1, <1>6
  <2> QED  BY <1>2, <2>1, <2>2 DEF Byte
<1> QED  BY <1>1, <1>2, <1>3, <1>4, <1>5, <1>7, <1>8, <1>9

\* The session moves on to QUIT only from the body, and from QUIT it closes.
LEMMA Dialogue ==
  ASSUME NEW st, NEW a, NextState(st, a) # st
  PROVE  /\ st # "CLOSED" /\ NextState(st, a) # "QUIT"
         /\ NextState(st, a) = "CLOSED" <=> st = "QUIT"
<1>1. CASE st = "CLOSED"
  <2>1. NextState(st, a) = st  BY <1>1 DEF NextState
  <2> QED  BY <2>1
<1>2. CASE st = "QUIT"
  <2>1. NextState(st, a) = (IF a \in Ok250 THEN "CLOSED" ELSE st)  BY <1>2 DEF NextState
  <2> QED  BY <1>2, <2>1
<1>3. CASE st \notin {"QUIT", "CLOSED"}
  <2>1. NextState(st, a) \in {"HELO", "AUTH_PLAIN", "AUTH_LOGIN_UNAME", "MAIL",
                              "AUTH_LOGIN_PASS", "AUTH_LOGIN", "RCPT", "DATA", "BODY", st}
    BY <1>3 DEF NextState
  <2> QED  BY <1>3, <2>1
<1> QED  BY <1>1, <1>2, <1>3

\* A step of the dialogue, which leaves the body alone.
Talk ==
  /\ \/ state' = state /\ pc' \in {pc, "resume"} /\ (pc' # pc => state = "BODY")
        /\ (result' = "OK" => result = "OK")
     \/ /\ state # "CLOSED" /\ state' # "QUIT" /\ (state' = "CLOSED" <=> state = "QUIT")
        /\ pc' \in {pc, "resume"} /\ (pc' # pc => state' = "BODY")
        /\ result' = "OK" => state' = "CLOSED" \/ result = "OK"

\* smtp_process talks.
LEMMA RespondTalks ==
  ASSUME NEW a, NEW tm, Respond(a, tm)
  PROVE  Talk
<1>1. CASE UNCHANGED <<state, pc, outcome>>
  BY <1>1 DEF Talk, outcome
<1>2. CASE smtp_close("ERR_SVR_RESP") /\ UNCHANGED <<state, pc>>
  BY <1>2 DEF Talk, smtp_close, smtp_free
<1>3. CASE NextState(state, a) # state /\ CommandSent(NextState(state, a))
  <2>1. PICK next : next = NextState(state, a)  OBVIOUS
  <2>2. next # state /\ CommandSent(next)  BY <1>3, <2>1
  <2>3. state # "CLOSED" /\ next # "QUIT" /\ (next = "CLOSED" <=> state = "QUIT")
    BY <2>1, <2>2, Dialogue
  <2>4. state' = next  BY <2>2 DEF CommandSent
  <2>5. CASE next = "BODY"
    BY <2>2, <2>3, <2>4, <2>5 DEF Talk, CommandSent, outcome
  <2>6. CASE next = "CLOSED"
    BY <2>2, <2>3, <2>4, <2>6 DEF Talk, CommandSent
  <2>7. CASE next \notin {"BODY", "CLOSED"}
    BY <2>2, <2>3, <2>4, <2>7 DEF Talk, CommandSent, outcome
  <2> QED  BY <2>5, <2>6, <2>7
<1> QED  BY <1>1, <1>2, <1>3 DEF Respond

\* So does smtp_process without new data.
LEMMA ContinueTalks ==
  ASSUME NEW tm, Continue(tm)
  PROVE  Talk
<1>1. CASE smtp_close("ERR_TIMEOUT") /\ UNCHANGED <<state, pc>>
  BY <1>1 DEF Talk, smtp_close, smtp_free
<1>2. CASE state = "BODY" /\ pc' = "resume" /\ UNCHANGED <<state, outcome>>
  BY <1>2 DEF Talk, outcome
<1>3. CASE Respond(p, tm)  BY <1>3, RespondTalks
<1> QED  BY <1>1, <1>2, <1>3 DEF Continue

\* Outside smtp_send_body nothing is written.
LEMMA TalkKeeps ==
  ASSUME BodyInv, pc = "idle", Talk, UNCHANGED <<generator, body_sent, wire>>,
         acked' \in acked..Len(wire), time' \in Nat
  PROVE  BodyInv'
<1>1. UNCHANGED <<bdh, exposed, body, body_len, asked, body_sent, wire>>
  BY DEF generator
<1>2. Ended' <=> Ended  BY DEF Talk, Ended
<1>3. BodyTypes'
  <2>1. acked \in 0..Len(wire) /\ Len(wire) \in Nat /\ TcpSndBuf \in Nat
        /\ InFlight <= TcpSndBuf
    BY SizeAssumption DEF BodyInv, BodyTypes
  <2>2. acked' \in 0..Len(wire') /\ InFlight' <= TcpSndBuf
    BY <1>1, <2>1 DEF InFlight
  <2> QED  BY <1>1, <2>2 DEF BodyInv, BodyTypes
<1>4. BodyControl'
  BY <1>1 DEF BodyInv, BodyControl, Talk
<1>5. BodyWritten'
  <2>1. CASE Ended
    <3>1. BodyWritten  BY DEF BodyInv
    <3> QED  BY <1>1, <1>2, <2>1, <3>1 DEF BodyWritten
  <2>2. CASE ~Ended
    <3>1. BodyWritten  BY DEF BodyInv
    <3> QED  BY <1>1, <1>2, <2>2, <3>1 DEF BodyWritten
  <2> QED  BY <2>1, <2>2
<1>6. FullChunks'
  BY <1>1 DEF BodyInv, FullChunks
<1> QED  BY <1>3, <1>4, <1>5, <1>6 DEF BodyInv

\* smtp_send_body runs only while the body is being written.
LEMMA Sending ==
  ASSUME BodyInv, pc # "idle"
  PROVE  /\ state = "BODY" /\ ~Ended /\ wire \in Seq(Byte)
         /\ InOrder(asked, exposed, wire, body, body_len)
         /\ Complete(asked, exposed, wire, body, body_len)
<1>1. state = "BODY"  BY DEF BodyInv, BodyControl
<1>2. ~Ended  BY <1>1 DEF Ended
<1> QED  BY <1>1, <1>2 DEF BodyInv, BodyWritten

\* What is written is a sequence of bytes.
LEMMA BytesAreBytes ==
  ASSUME NEW w \in Seq(Byte)
  PROVE  w \in Seq(Byte \cup {EndOfBody})
OBVIOUS

\* A part of the rest is written: what is left of it is paused on.
LEMMA ResumeStep ==
  ASSUME BodyInv, Resume
  PROVE  BodyInv'
<1>1. PICK n \in Written(body_len) :
        /\ smtp_send_bodyh_data(body, body_len, n)
        /\ IF n < body_len
           THEN body_sent' = U16(body_len' - 1) /\ pc' = "end"
           ELSE pc' = (IF bdh = "SENDING" THEN "run" ELSE "stop") /\ UNCHANGED body_sent
  BY DEF Resume
<1>2. UNCHANGED <<state, result, bdh, exposed, asked, acked, time>> /\ pc # "idle"
  BY DEF Resume, dialogue, outcome
<1>3. /\ state = "BODY" /\ ~Ended /\ wire \in Seq(Byte)
      /\ InOrder(asked, exposed, wire, body, body_len)
      /\ Complete(asked, exposed, wire, body, body_len)
  BY <1>2, Sending
<1>4. /\ BodyTypes /\ asked \in [Chunk -> Nat] /\ exposed \in 0..FINISHED
      /\ body \in Byte /\ body_len \in Nat /\ body_len <= 65535 /\ body_sent \in Nat
  BY DEF BodyInv, BodyTypes
<1>5. PICK ask \in [Chunk -> Nat], e \in 0..FINISHED, from \in Byte, len \in Nat :
        ask = asked /\ e = exposed /\ from = body /\ len = body_len
  BY <1>4
<1>6. /\ n \in 0..len
      /\ wire' \in Seq(Byte) /\ acked' \in 0..Len(wire') /\ InFlight' <= TcpSndBuf
      /\ body' \in Byte /\ body_len' = len - n
      /\ InOrder(ask, e, wire', body', body_len')
      /\ Complete(ask, e, wire', body', body_len')
  BY <1>1, <1>2, <1>3, <1>4, <1>5, WriteStep
<1>7. body_len' \in Nat /\ body_len' <= 65535  BY <1>4, <1>5, <1>6
<1>8. body_sent' \in Nat /\ (n < len => body_sent' # body_len')
  <2>1. CASE n < len  BY <1>1, <1>5, <1>7, <2>1, PauseMark
  <2>2. CASE ~(n < len)  BY <1>1, <1>4, <1>5, <2>2
  <2> QED  BY <2>1, <2>2
<1>9. BodyTypes'
  <2>1. wire' \in Seq(Byte \cup {EndOfBody})  BY <1>6, BytesAreBytes
  <2> QED  BY <1>2, <1>4, <1>6, <1>7, <1>8, <2>1 DEF BodyTypes
<1>10. ~(n < len) => body_len' = 0  BY <1>6
<1>11. bdh = "STOP" => len = 0 /\ exposed = FINISHED  BY <1>5 DEF BodyInv, BodyControl
<1>12. bdh = "STOP" => n = 0 /\ body_len' = 0 /\ ~(n < len)  BY <1>6, <1>11
<1>13. bdh \in {"SENDING", "STOP"}  BY DEF BodyInv, BodyTypes
<1>14. BodyControl'
  <2>1. result = "OK" => state = "CLOSED"  BY DEF BodyInv, BodyControl
  <2>2. CASE n < len
    <3>1. pc' = "end"  BY <1>1, <1>5, <2>2
    <3> QED  BY <1>2, <1>3, <1>8, <1>11, <1>12, <1>13, <2>1, <2>2, <3>1 DEF BodyControl
  <2>3. CASE ~(n < len)
    <3>1. pc' = (IF bdh = "SENDING" THEN "run" ELSE "stop")  BY <1>1, <1>5, <2>3
    <3> QED  BY <1>2, <1>3, <1>10, <1>11, <1>13, <2>1, <2>3, <3>1 DEF BodyControl
  <2> QED  BY <2>2, <2>3
<1>15. BodyWritten'
  <2>1. ~Ended'  BY <1>2, <1>3 DEF Ended
  <2> QED  BY <1>2, <1>5, <1>6, <2>1 DEF BodyWritten
<1>16. FullChunks'  BY <1>2 DEF BodyInv, FullChunks
<1> QED  BY <1>9, <1>14, <1>15, <1>16 DEF BodyInv

\* my_smtp_bodydh_fn produces a chunk.
LEMMA NextChunkStep ==
  ASSUME BodyInv, Run, NextChunk
  PROVE  BodyInv'
<1>1. PICK n \in Written(Length(exposed)) :
        /\ smtp_send_bodyh_data(<<exposed, 1>>, Length(exposed), n)
        /\ pc' = IF Length(exposed) > 0 /\ n = Length(exposed) THEN "run" ELSE "stop"
  BY DEF NextChunk
<1>2. /\ UNCHANGED <<state, result, bdh, body_sent, acked, time>> /\ pc = "run"
      /\ exposed < FINISHED /\ exposed' = exposed + 1
      /\ asked' = [asked EXCEPT ![exposed] = Length(exposed)]
  BY DEF Run, NextChunk, dialogue, outcome
<1>3. /\ state = "BODY" /\ ~Ended /\ wire \in Seq(Byte)
      /\ InOrder(asked, exposed, wire, body, body_len)
      /\ Complete(asked, exposed, wire, body, body_len)
  BY <1>2, Sending
<1>4. /\ BodyTypes /\ asked \in [Chunk -> Nat] /\ exposed \in Chunk /\ body \in Byte
      /\ body_sent \in Nat /\ body_len = 0 /\ bdh = "SENDING"
      /\ result = "OK" => state = "CLOSED"
  <2>1. BodyTypes /\ BodyControl  BY DEF BodyInv
  <2>2. exposed \in 0..FINISHED  BY <2>1 DEF BodyTypes
  <2>3. exposed \in Chunk  BY <1>2, <2>2, ChunkNumbers
  <2>4. asked \in [Chunk -> Nat] /\ body \in Byte /\ body_sent \in Nat
    BY <2>1 DEF BodyTypes
  <2>5. body_len = 0 /\ bdh = "SENDING" /\ (result = "OK" => state = "CLOSED")
    BY <1>2, <2>1 DEF BodyControl
  <2> QED  BY <2>1, <2>3, <2>4, <2>5
<1>5. PICK old \in [Chunk -> Nat], e \in Chunk, b \in Byte, w \in Seq(Byte), l \in Nat :
        /\ old = asked /\ e = exposed /\ b = body /\ w = wire
        /\ l = Length(exposed) /\ l <= 65535
  BY <1>3, <1>4, Lengths
<1>6. e = 0 => l > 0  BY <1>5, Lengths
<1>7. InOrder(old, e, w, b, 0) /\ Complete(old, e, w, b, 0)  BY <1>3, <1>4, <1>5
<1> DEFINE ask == [old EXCEPT ![e] = l]
<1>8. InOrder(ask, e + 1, w, <<e, 1>>, l) /\ Complete(ask, e + 1, w, <<e, 1>>, l)
  BY <1>6, <1>7, ChunkKeeps
<1>9. ask \in [Chunk -> Nat] /\ ask[e] = l /\ \A c \in Chunk : c # e => ask[c] = old[c]
  OBVIOUS
<1>10. asked' = ask  BY <1>2, <1>5
<1> HIDE DEF ask
<1>11. e + 1 \in 0..FINISHED /\ e \in Nat  BY ChunkNumbers
<1>12. <<e, 1>> \in Byte  BY DEF Byte
<1>13. PICK f \in 0..FINISHED, from \in Byte : f = e + 1 /\ from = <<e, 1>>
  BY <1>11, <1>12
<1>14. /\ n \in 0..l
       /\ wire' \in Seq(Byte) /\ acked' \in 0..Len(wire') /\ InFlight' <= TcpSndBuf
       /\ body' \in Byte /\ body_len' = l - n
       /\ InOrder(ask, f, wire', body', body_len')
       /\ Complete(ask, f, wire', body', body_len')
  <2>1. InOrder(ask, f, wire, from, l) /\ Complete(ask, f, wire, from, l)
    BY <1>5, <1>8, <1>13
  <2>2. n \in Written(l) /\ smtp_send_bodyh_data(from, l, n)
    BY <1>1, <1>5, <1>13
  <2> QED  BY <1>2, <1>3, <1>4, <1>9, <2>1, <2>2, WriteStep
<1>15. body_len' \in Nat /\ body_len' <= 65535  BY <1>5, <1>14
<1>16. BodyTypes'
  <2>1. wire' \in Seq(Byte \cup {EndOfBody})  BY <1>14, BytesAreBytes
  <2>2. exposed' \in 0..FINISHED  BY <1>2, <1>5, <1>11
  <2>3. bdh \in {"SENDING", "STOP"} /\ time \in Nat  BY <1>4 DEF BodyTypes
  <2> QED  BY <1>2, <1>4, <1>9, <1>10, <1>14, <1>15, <2>1, <2>2, <2>3 DEF BodyTypes
<1>17. BodyControl'
  <2>1. pc' = "run" => body_len' = 0  BY <1>1, <1>5, <1>14
  <2>2. pc' \in {"run", "stop"}  BY <1>1
  <2> QED  BY <1>2, <1>3, <1>4, <2>1, <2>2 DEF BodyControl
<1>18. BodyWritten'
  <2>1. ~Ended'  BY <1>2, <1>3 DEF Ended
  <2>2. exposed' = f  BY <1>2, <1>5, <1>13
  <2>3. /\ InOrder(asked', exposed', wire', body', body_len')
        /\ Complete(asked', exposed', wire', body', body_len')
    BY <1>10, <1>14, <2>2
  <2> QED  BY <1>14, <2>1, <2>3 DEF BodyWritten
<1>19. FullChunks'
  <2> SUFFICES ASSUME NEW c \in Chunk \ Timed, c < exposed' PROVE asked'[c] = ChunkLen[c]
    BY DEF FullChunks
  <2>1. c \in Nat /\ (c = e \/ c < e)  BY <1>2, <1>5, <1>11, ChunkNumbers
  <2>2. CASE c = e  BY <1>5, <1>9, <1>10, <2>2, Lengths
  <2>3. CASE c < e /\ c # e
    <3>1. asked[c] = ChunkLen[c]  BY <1>5, <2>3 DEF BodyInv, FullChunks
    <3> QED  BY <1>5, <1>9, <1>10, <2>3, <3>1
  <2> QED  BY <1>11, <2>1, <2>2, <2>3
<1> QED  BY <1>16, <1>17, <1>18, <1>19 DEF BodyInv

\* When nothing is left, it does not matter where the rest begins.
LEMMA NothingLeft ==
  ASSUME NEW ask, NEW e, NEW w, NEW b, NEW c,
         InOrder(ask, e, w, b, 0), Complete(ask, e, w, b, 0)
  PROVE  InOrder(ask, e, w, c, 0) /\ Complete(ask, e, w, c, 0)
<1>1. ~(0 > 0)  OBVIOUS
<1>2. InOrder(ask, e, w, c, 0)  BY <1>1, Zenon DEF InOrder
<1>3. Complete(ask, e, w, c, 0)  BY <1>1, Zenon DEF Complete
<1> QED  BY <1>2, <1>3

\* It has nothing more.
LEMMA NoMoreChunksStep ==
  ASSUME BodyInv, Run, NoMoreChunks
  PROVE  BodyInv'
<1>1. /\ UNCHANGED <<state, result, exposed, asked, wire, body_sent, acked, time>>
      /\ pc = "run" /\ pc' = "stop" /\ exposed = FINISHED
      /\ bdh' = "STOP" /\ body' = <<FINISHED - 1, 1>> /\ body_len' = 0
  BY DEF Run, NoMoreChunks, dialogue, outcome
<1>2. /\ state = "BODY" /\ ~Ended /\ wire \in Seq(Byte)
      /\ InOrder(asked, exposed, wire, body, body_len)
      /\ Complete(asked, exposed, wire, body, body_len)
  BY <1>1, Sending
<1>3. body_len = 0 /\ (result = "OK" => state = "CLOSED")
  BY <1>1 DEF BodyInv, BodyControl
<1>4. InOrder(asked, exposed, wire, body', 0) /\ Complete(asked, exposed, wire, body', 0)
  <2>1. PICK ask, e, w, b, c :
          ask = asked /\ e = exposed /\ w = wire /\ b = body /\ c = body'
    OBVIOUS
  <2>2. InOrder(ask, e, w, b, 0) /\ Complete(ask, e, w, b, 0)  BY <1>2, <1>3, <2>1
  <2> QED  BY <2>1, <2>2, NothingLeft
<1>5. BodyTypes'
  <2>1. body' \in Byte  BY <1>1, ChunkNumbers DEF Byte
  <2> QED  BY <1>1, <2>1 DEF BodyInv, BodyTypes, InFlight
<1>6. BodyControl'  BY <1>1, <1>2, <1>3 DEF BodyControl
<1>7. BodyWritten'
  <2>1. ~Ended'  BY <1>1, <1>2 DEF Ended
  <2> QED  BY <1>1, <1>2, <1>4, <2>1 DEF BodyWritten
<1>8. FullChunks'  BY <1>1 DEF BodyInv, FullChunks
<1> QED  BY <1>5, <1>6, <1>7, <1>8 DEF BodyInv

\* The end of the handler marks a pause, unless the body is complete.
LEMMA StopStep ==
  ASSUME BodyInv, Stop
  PROVE  BodyInv'
<1>1. /\ UNCHANGED <<state, result, bdh, exposed, body, body_len, asked, wire, acked, time>>
      /\ pc = "stop" /\ pc' = "end"
      /\ body_sent' = IF bdh = "STOP" THEN body_len ELSE U16(body_len - 1)
  BY DEF Stop, dialogue, generator, outcome
<1>2. state = "BODY" /\ ~Ended  BY <1>1, Sending
<1>3. body_len \in Nat /\ body_len <= 65535  BY DEF BodyInv, BodyTypes
<1>4. U16(body_len - 1) \in Nat /\ U16(body_len - 1) # body_len  BY <1>3, PauseMark
<1>5. body_sent' \in Nat  BY <1>1, <1>3, <1>4
<1>6. BodyTypes'
  BY <1>1, <1>5 DEF BodyInv, BodyTypes, InFlight
<1>7. BodyControl'
  BY <1>1, <1>2, <1>4 DEF BodyInv, BodyControl
<1>8. BodyWritten'
  <2>1. ~Ended'  BY <1>1, <1>2 DEF Ended
  <2>2. BodyWritten  BY DEF BodyInv
  <2> QED  BY <1>1, <1>2, <2>1, <2>2 DEF BodyWritten
<1>9. FullChunks'  BY <1>1 DEF BodyInv, FullChunks
<1> QED  BY <1>6, <1>7, <1>8, <1>9 DEF BodyInv

\* The line that ends a mail of which all chunks are written makes it whole.
LEMMA EndMakesWhole ==
  ASSUME NEW ask \in [Chunk -> Nat], NEW w \in Seq(Byte), NEW b,
         InOrder(ask, FINISHED, w, b, 0), Complete(ask, FINISHED, w, b, 0)
  PROVE  Whole(ask, Append(w, EndOfBody))
<1> DEFINE v == Append(w, EndOfBody)
<1>1. Len(w) \in Nat  OBVIOUS
<1>2. w # <<>>  BY DEF InOrder, FINISHED
<1>3. Len(w) \in 1..Len(w)  BY <1>1, <1>2
<1>4. /\ Len(v) = Len(w) + 1 /\ v[Len(w) + 1] = EndOfBody
      /\ \A i \in 1..Len(w) : v[i] = w[i]
  OBVIOUS
<1>5. v # <<>>  BY <1>1, <1>4
<1> HIDE DEF v
<1>6. ~(0 > 0)  OBVIOUS
<1>7. v[1] = <<0, 1>>
  <2>1. 1 \in 1..Len(w)  BY <1>3
  <2>2. w[1] = <<0, 1>>  BY <1>2 DEF InOrder
  <2> QED  BY <1>4, <2>1, <2>2
<1>8. \A i \in 1..Len(v) - 1 : After(ask, v[i], v[i + 1])
  <2> TAKE i \in 1..Len(v) - 1
  <2>1. i \in 1..Len(w)  BY <1>1, <1>4
  <2>2. CASE i = Len(w)
    <3>1. EndsAt(ask, FINISHED, w[Len(w)])  BY <1>2, <1>6, Zenon DEF InOrder
    <3>2. PICK a : a = w[Len(w)]  OBVIOUS
    <3>3. EndOfBody[1] = FINISHED /\ EndOfBody[2] = 1  BY DEF EndOfBody
    <3>4. After(ask, a, EndOfBody)
      BY <3>1, <3>2, <3>3 DEF EndsAt, After
    <3> QED  BY <1>3, <1>4, <2>2, <3>2, <3>4
  <2>3. CASE i # Len(w)
    <3>1. i + 1 \in 1..Len(w) /\ i \in 1..Len(w) - 1  BY <1>1, <2>1, <2>3
    <3>2. After(ask, w[i], w[i + 1])  BY <3>1 DEF InOrder
    <3> QED  BY <1>4, <2>1, <3>1, <3>2
  <2> QED  BY <2>2, <2>3
<1>9. \A c \in Chunk : \A k \in 1..ask[c] : \E i \in 1..Len(v) : v[i] = <<c, k>>
  <2> TAKE c \in Chunk
  <2> TAKE k \in 1..ask[c]
  <2>1. c \in 0..FINISHED - 1  BY DEF Chunk
  <2>2. PICK i \in 1..Len(w) : w[i] = <<c, k>>  BY <1>6, <2>1, Zenon DEF Complete
  <2>3. i \in 1..Len(v)  BY <1>1, <1>4
  <2> QED  BY <1>4, <2>2, <2>3
<1> QED  BY <1>4, <1>5, <1>7, <1>8, <1>9 DEF Whole, v

\* The end of the mail is written when the whole body is.
LEMMA FinishBodyStep ==
  ASSUME BodyInv, FinishBody
  PROVE  BodyInv'
<1>1. /\ UNCHANGED <<result, bdh, exposed, body, body_len, asked, body_sent, acked, time>>
      /\ pc = "end" /\ pc' = "idle"
  BY DEF FinishBody, generator, outcome
<1>2. /\ state = "BODY" /\ ~Ended /\ wire \in Seq(Byte)
      /\ InOrder(asked, exposed, wire, body, body_len)
      /\ Complete(asked, exposed, wire, body, body_len)
  BY <1>1, Sending
<1>3. BodyTypes /\ BodyControl /\ BodyWritten /\ FullChunks  BY DEF BodyInv
<1>4. FullChunks'  BY <1>1, <1>3 DEF FullChunks
<1>5. CASE UNCHANGED <<wire, state>>
  <2>1. BodyTypes'  BY <1>1, <1>3, <1>5 DEF BodyTypes, InFlight
  <2>2. BodyControl'  BY <1>1, <1>3, <1>5 DEF BodyControl
  <2>3. BodyWritten'
    <3>1. ~Ended'  BY <1>2, <1>5 DEF Ended
    <3> QED  BY <1>1, <1>2, <1>5, <3>1 DEF BodyWritten
  <2> QED  BY <1>4, <2>1, <2>2, <2>3 DEF BodyInv
<1>6. CASE /\ body_sent = body_len /\ InFlight < TcpSndBuf
           /\ wire' = Append(wire, EndOfBody) /\ state' = "QUIT"
  <2>1. bdh = "STOP" /\ body_len = 0 /\ exposed = FINISHED
    BY <1>1, <1>3, <1>6 DEF BodyControl
  <2>2. asked \in [Chunk -> Nat] /\ body \in Byte  BY <1>3 DEF BodyTypes
  <2>3. PICK ask \in [Chunk -> Nat], w \in Seq(Byte), b \in Byte :
          ask = asked /\ w = wire /\ b = body
    BY <1>2, <2>2
  <2>4. InOrder(ask, FINISHED, w, b, 0) /\ Complete(ask, FINISHED, w, b, 0)
    BY <1>2, <2>1, <2>3
  <2>5. Whole(ask, Append(w, EndOfBody))  BY <2>4, EndMakesWhole
  <2>6. Whole(asked', wire')  BY <1>1, <1>6, <2>3, <2>5
  <2>7. BodyTypes'
    <3>1. wire' \in Seq(Byte \cup {EndOfBody}) /\ Len(wire') = Len(wire) + 1
      <4>1. w \in Seq(Byte \cup {EndOfBody})  BY BytesAreBytes
      <4>2. /\ Append(w, EndOfBody) \in Seq(Byte \cup {EndOfBody})
            /\ Len(Append(w, EndOfBody)) = Len(w) + 1
        BY <4>1
      <4> QED  BY <1>6, <2>3, <4>2
    <3>2. Len(wire) \in Nat /\ acked \in 0..Len(wire) /\ TcpSndBuf \in Nat
      BY <1>3, SizeAssumption DEF BodyTypes
    <3>3. acked' \in 0..Len(wire') /\ InFlight' <= TcpSndBuf
      BY <1>1, <1>6, <3>1, <3>2 DEF InFlight
    <3> QED  BY <1>1, <1>3, <3>1, <3>3 DEF BodyTypes
  <2>8. BodyControl'
    <3>1. result # "OK"  BY <1>2, <1>3 DEF BodyControl
    <3> QED  BY <1>1, <1>3, <1>6, <2>1, <3>1 DEF BodyControl
  <2>9. BodyWritten'
    <3>1. Ended'  BY <1>6 DEF Ended
    <3> QED  BY <1>1, <2>1, <2>6, <3>1 DEF BodyWritten
  <2> QED  BY <1>4, <2>7, <2>8, <2>9 DEF BodyInv
<1> QED  BY <1>5, <1>6 DEF FinishBody

\* Before send_email nothing is produced and nothing written.
LEMMA BodyInit == ASSUME Init PROVE BodyInv
<1>1. /\ state = "NULL" /\ bdh = "SENDING" /\ exposed = 0 /\ body = <<0, 1>>
      /\ body_len = 0 /\ body_sent = 0 /\ pc = "idle" /\ wire = <<>> /\ acked = 0
      /\ time \in Nat /\ asked = [c \in Chunk |-> 0] /\ result = "none"
  BY DEF Init
<1>2. BodyTypes
  <2>1. body \in Byte  BY <1>1, ChunkNumbers DEF Byte
  <2>2. wire \in Seq(Byte \cup {EndOfBody}) /\ Len(wire) = 0  BY <1>1
  <2>3. exposed \in 0..FINISHED  BY <1>1, ChunkNumbers
  <2>4. InFlight <= TcpSndBuf  BY <1>1, <2>2, SizeAssumption DEF InFlight
  <2> QED  BY <1>1, <2>1, <2>2, <2>3, <2>4 DEF BodyTypes
<1>3. BodyControl  BY <1>1 DEF BodyControl
<1>4. BodyWritten
  <2>1. ~Ended  BY <1>1 DEF Ended
  <2>2. InOrder(asked, exposed, wire, body, body_len)  BY <1>1 DEF InOrder
  <2>3. Complete(asked, exposed, wire, body, body_len)  BY <1>1 DEF Complete
  <2> QED  BY <1>1, <2>1, <2>2, <2>3 DEF BodyWritten
<1>5. FullChunks  BY <1>1, ChunkNumbers DEF FullChunks
<1> QED  BY <1>2, <1>3, <1>4, <1>5 DEF BodyInv

\* Every step keeps BodyInv.
LEMMA BodyStep == ASSUME BodyInv, [Next]_vars PROVE BodyInv'
<1>1. /\ time \in Nat /\ acked \in Nat /\ Len(wire) \in Nat /\ acked <= Len(wire)
      /\ acked \in acked..Len(wire)
  BY DEF BodyInv, BodyTypes
<1>2. CASE Send
  <2>2. UNCHANGED <<state, result, generator, body_sent, wire, acked, time, pc>>
    BY <1>2 DEF Send, dialogue, outcome
  <2>3. BodyTypes /\ BodyControl /\ BodyWritten /\ FullChunks  BY DEF BodyInv
  <2>4. BodyTypes'  BY <2>2, <2>3 DEF BodyTypes, InFlight, generator
  <2>5. BodyControl'  BY <2>2, <2>3 DEF BodyControl, generator
  <2>6. BodyWritten'  BY <2>2, <2>3 DEF BodyWritten, Ended, generator
  <2>7. FullChunks'  BY <2>2, <2>3 DEF FullChunks, generator
  <2> QED  BY <2>4, <2>5, <2>6, <2>7 DEF BodyInv
<1>3. CASE smtp_send_body
  <2>1. CASE Run
    BY <2>1, NextChunkStep, NoMoreChunksStep DEF Run
  <2> QED  BY <1>3, <2>1, ResumeStep, StopStep, FinishBodyStep DEF smtp_send_body
<1>4. CASE sntp_set_system_time
  <2>1. /\ Talk /\ pc = "idle" /\ time' \in Nat
        /\ UNCHANGED <<generator, body_sent, wire, acked>>
    BY <1>1, <1>4 DEF sntp_set_system_time, Talk, dialogue, outcome
  <2> QED  BY <1>1, <2>1, TalkKeeps
<1>5. CASE smtp_tcp_poll
  <2>1. Talk  BY <1>5, ContinueTalks DEF smtp_tcp_poll
  <2>2. pc = "idle" /\ UNCHANGED <<generator, body_sent, wire, acked, time>>
    BY <1>5 DEF smtp_tcp_poll
  <2> QED  BY <1>1, <2>1, <2>2, TalkKeeps
<1>6. CASE smtp_tcp_sent
  <2>1. Talk
    <3>1. CASE arg  BY <1>6, <3>1, ContinueTalks DEF smtp_tcp_sent
    <3>2. CASE ~arg  BY <1>6, <3>2 DEF smtp_tcp_sent, Talk, dialogue, outcome
    <3> QED  BY <3>1, <3>2
  <2>2. /\ pc = "idle" /\ UNCHANGED <<generator, body_sent, wire, time>>
        /\ acked' \in acked..Len(wire)
    BY <1>6 DEF smtp_tcp_sent
  <2> QED  BY <1>1, <2>1, <2>2, TalkKeeps
<1>7. CASE smtp_tcp_recv
  <2>1. Talk  BY <1>7, RespondTalks DEF smtp_tcp_recv
  <2>2. pc = "idle" /\ UNCHANGED <<generator, body_sent, wire, acked, time>>
    BY <1>7 DEF smtp_tcp_recv
  <2> QED  BY <1>1, <2>1, <2>2, TalkKeeps
<1>8. CASE ClosedByServer
  <2>1. Talk
    BY <1>8 DEF ClosedByServer, Talk, smtp_close, smtp_free, outcome
  <2>2. pc = "idle" /\ UNCHANGED <<generator, body_sent, wire, acked, time>>
    BY <1>8 DEF ClosedByServer
  <2> QED  BY <1>1, <2>1, <2>2, TalkKeeps
<1>9. CASE smtp_tcp_err
  <2>1. Talk
    BY <1>9 DEF smtp_tcp_err, Talk, smtp_free, outcome
  <2>2. pc = "idle" /\ UNCHANGED <<generator, body_sent, wire, acked, time>>
    BY <1>9 DEF smtp_tcp_err
  <2> QED  BY <1>1, <2>1, <2>2, TalkKeeps
<1>10. CASE UNCHANGED vars
  <2>1. UNCHANGED <<state, result, generator, body_sent, wire, acked, time, pc>>
    BY <1>10 DEF vars, dialogue, outcome
  <2>2. BodyTypes /\ BodyControl /\ BodyWritten /\ FullChunks  BY DEF BodyInv
  <2>3. BodyTypes'  BY <2>1, <2>2 DEF BodyTypes, InFlight, generator
  <2>4. BodyControl'  BY <2>1, <2>2 DEF BodyControl, generator
  <2>5. BodyWritten'  BY <2>1, <2>2 DEF BodyWritten, Ended, generator
  <2>6. FullChunks'  BY <2>1, <2>2 DEF FullChunks, generator
  <2> QED  BY <2>3, <2>4, <2>5, <2>6 DEF BodyInv
<1> QED
  BY <1>2, <1>3, <1>4, <1>5, <1>6, <1>7, <1>8, <1>9, <1>10 DEF Next

(* What smtp.c has written of a mail, what is left of the chunk in its      *)
(* hands and what the generator has produced fit together, whatever the     *)
(* send buffer takes and however often the body is paused on.               *)
THEOREM BodyInvariant == Spec => []BodyInv
<1>1. Init => BodyInv  BY BodyInit
<1>2. BodyInv /\ [Next]_vars => BodyInv'  BY BodyStep
<1> QED  BY <1>1, <1>2, PTL DEF Spec

(* Partial writes, failed writes and pauses of smtp_send_body neither lose, *)
(* repeat nor reorder a byte, for every mail and every send buffer.         *)
THEOREM MailInOrder == Spec => []BodyInOrder
<1>1. BodyInv => BodyInOrder
  <2> SUFFICES ASSUME BodyInv PROVE BodyInOrder
    OBVIOUS
  <2>1. Leftover = Piece(body, body_len)  BY DEF Leftover, Piece
  <2>2. \A a, b : Follows(a, b) <=> After(asked, a, b)  BY DEF Follows, After
  <2>3. \A a : EndsAt(asked, exposed, a) => IsLast(a)  BY DEF EndsAt, IsLast
  <2>4. /\ asked \in [Chunk -> Nat] /\ exposed \in 0..FINISHED /\ body \in Byte
        /\ body_len \in Nat /\ wire \in Seq(Byte \cup {EndOfBody})
    BY DEF BodyInv, BodyTypes
  <2>5. BodyWritten  BY DEF BodyInv
  <2>6. CASE Ended
    <3>1. body_len = 0 /\ exposed = FINISHED /\ Whole(asked, wire)
      BY <2>5, <2>6 DEF BodyWritten
    <3>2. Piece(body, 0) = <<>>  BY DEF Piece
    <3>3. wire \o <<>> = wire  BY <2>4
    <3>4. wire \o Leftover = wire  BY <2>1, <3>1, <3>2, <3>3
    <3>5. IsLast(EndOfBody)  BY <3>1 DEF IsLast
    <3>6. /\ wire # <<>> /\ wire[1] = <<0, 1>> /\ IsLast(wire[Len(wire)])
          /\ \A i \in 1..Len(wire) - 1 : Follows(wire[i], wire[i + 1])
      BY <2>2, <3>1, <3>5 DEF Whole
    <3> QED  BY <3>4, <3>6 DEF BodyInOrder
  <2>7. CASE ~Ended
    <3>1. wire \in Seq(Byte) /\ InOrder(asked, exposed, wire, body, body_len)
      BY <2>5, <2>7 DEF BodyWritten
    <3>2. PICK ask \in [Chunk -> Nat], e \in 0..FINISHED, w \in Seq(Byte),
               b \in Byte, len \in Nat :
            ask = asked /\ e = exposed /\ w = wire /\ b = body /\ len = body_len
      BY <2>4, <3>1
    <3>3. len \in 0..len /\ len - len = 0  OBVIOUS
    <3>4. InOrder(ask, e, w \o Piece(b, len), <<b[1], b[2] + len>>, 0)
      BY <3>1, <3>2, <3>3, WriteKeepsOrder
    <3>5. PICK mail : mail = wire \o Leftover  OBVIOUS
    <3>6. InOrder(ask, e, mail, <<b[1], b[2] + len>>, 0)
      BY <2>1, <3>2, <3>4, <3>5
    <3>7. ~(0 > 0)  OBVIOUS
    <3>8. mail = <<>> => e = 0  BY <3>6, <3>7, Zenon DEF InOrder
    <3>9. mail # <<>> =>
            /\ mail[1] = <<0, 1>> /\ EndsAt(ask, e, mail[Len(mail)])
            /\ \A i \in 1..Len(mail) - 1 : After(ask, mail[i], mail[i + 1])
      BY <3>6, <3>7, Zenon DEF InOrder
    <3>10. IF mail = <<>> THEN exposed = 0
           ELSE /\ mail[1] = <<0, 1>> /\ IsLast(mail[Len(mail)])
                /\ \A i \in 1..Len(mail) - 1 : Follows(mail[i], mail[i + 1])
      BY <2>2, <2>3, <3>2, <3>8, <3>9
    <3> QED  BY <3>5, <3>10 DEF BodyInOrder
  <2> QED  BY <2>6, <2>7
<1> QED  BY <1>1, BodyInvariant, PTL

(* A mail that smtp.c reports as sent was written whole: no timing of the   *)
(* answers, of the acknowledgements and of the clock ends it early.         *)
THEOREM ReportedMailIsWhole == Spec => []OkMeansWhole
<1>1. BodyInv => OkMeansWhole
  <2> SUFFICES ASSUME BodyInv, result = "OK"
               PROVE  /\ exposed = FINISHED /\ Last(wire) = EndOfBody
                      /\ \A c \in Chunk \ Timed : {c} \X (1..ChunkLen[c]) \subseteq Range(wire)
    BY DEF OkMeansWhole
  <2>1. state = "CLOSED"  BY DEF BodyInv, BodyControl
  <2>2. Ended  BY <2>1 DEF Ended
  <2>3. exposed = FINISHED /\ Whole(asked, wire)  BY <2>2 DEF BodyInv, BodyWritten
  <2>4. Last(wire) = EndOfBody  BY <2>3 DEF Whole, Last
  <2>5. wire \in Seq(Byte \cup {EndOfBody})  BY DEF BodyInv, BodyTypes
  <2>6. \A i \in 1..Len(wire) : wire[i] \in Range(wire)
    <3>1. DOMAIN wire = 1..Len(wire)  BY <2>5
    <3> QED  BY <3>1, Zenon DEF Range
  <2>7. ASSUME NEW c \in Chunk \ Timed, NEW k \in 1..ChunkLen[c]
        PROVE  <<c, k>> \in Range(wire)
    <3>1. c < exposed  BY <2>3, ChunkNumbers
    <3>2. asked[c] = ChunkLen[c]  BY <3>1 DEF BodyInv, FullChunks
    <3>3. PICK i \in 1..Len(wire) : wire[i] = <<c, k>>  BY <2>3, <3>2 DEF Whole
    <3> QED  BY <2>6, <3>3
  <2>8. ASSUME NEW c \in Chunk \ Timed
        PROVE  {c} \X (1..ChunkLen[c]) \subseteq Range(wire)
    <3> SUFFICES ASSUME NEW x \in {c} \X (1..ChunkLen[c]) PROVE x \in Range(wire)
      OBVIOUS
    <3>1. PICK k \in 1..ChunkLen[c] : x = <<c, k>>  OBVIOUS
    <3> QED  BY <2>7, <3>1
  <2> QED  BY <2>3, <2>4, <2>8
<1> QED  BY <1>1, BodyInvariant, PTL
=============================================================================
