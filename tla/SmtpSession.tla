---------------------------- MODULE SmtpSession ----------------------------
(***************************************************************************)
(* One mail: the session of lwIP's SMTP client (smtp.c) that send_email    *)
(* starts, with the body generator of main.c (my_smtp_bodydh_fn) and the   *)
(* clock that SNTP sets.                                                   *)
(*                                                                         *)
(* Everything here runs in Task3: a callback of the TCP connection (poll,  *)
(* sent, recv, err) runs to its end before the next one starts.  The loop  *)
(* of smtp_send_body_data_handler takes one step per chunk; `pc' says      *)
(* where smtp_send_body is, and "idle" that no callback is executing.      *)
(*                                                                         *)
(* A byte of the body is <<chunk, position in the chunk>>.  Commands and   *)
(* answers are their meaning.  SERVER_IP is a numeric address, so          *)
(* dns_gethostbyname answers at once and smtp_dns_found never runs;        *)
(* smtp_tcp_connected changes nothing.                                     *)
(***************************************************************************)
EXTENDS Integers, SequencesExt

CONSTANTS
  ChunkLen,               \* length of each chunk of the body but the two times
  TimeLen,                \* length of a time once it has been set
  TcpSndBuf,              \* TCP_SND_BUF
  SMTP_TIMEOUT, SMTP_TIMEOUT_DATABLOCK, SMTP_TIMEOUT_DATATERM,  \* in polls
  MaxTime                 \* bound: how often SNTP sets the time

\* enum data_states.  The two times come from access_time and access_time_file.
FINISHED == 11
Chunk    == 0..FINISHED - 1
Timed    == {3, 7}

U16(n) == n % 65536

\* Lengths are 16 bits wide; only the two times may be empty.
ASSUME SizeAssumption ==
  /\ ChunkLen \in [Chunk -> Nat \ {0}] /\ \A c \in Chunk : ChunkLen[c] <= 65535
  /\ TimeLen \in 1..31 /\ TcpSndBuf \in Nat \ {0}

ASSUME TimeAssumption ==
  /\ MaxTime \in Nat
  /\ {SMTP_TIMEOUT, SMTP_TIMEOUT_DATABLOCK, SMTP_TIMEOUT_DATATERM}
       \subseteq 1..65535

VARIABLES
  pcb,        \* the connection
  arg,        \* the connection still refers to the session
  state, timer,
  p,          \* the answer received so far
  bdh,        \* bodydh->state
  exposed,    \* bodydh->exposed.state: the chunk to produce next
  body, body_len, body_sent,
  pc,
  wire,       \* the bytes of the body given to TCP, then EndOfBody
  acked,      \* how many of them the server has acknowledged
  time,       \* how often the time has been set; 0: the strings are empty
  prompt,     \* the network and the server do their part, see Owed: never changes
  \* History:
  asked,      \* the length of each chunk when it was produced
  results,    \* calls of the result callback, the last with `result'
  result,
  refused     \* smtp_send_mail_bodycback returned an error

dialogue == <<pcb, arg, state, timer, p>>
generator == <<bdh, exposed, body, body_len, asked>>
outcome  == <<results, result, refused>>
vars     == <<dialogue, generator, body_sent, pc, wire, acked, time, prompt, outcome>>

State == {"NULL", "HELO", "AUTH_PLAIN", "AUTH_LOGIN_UNAME", "AUTH_LOGIN_PASS",
          "AUTH_LOGIN", "MAIL", "RCPT", "DATA", "BODY", "QUIT", "CLOSED"}

\* Complete answers, told apart as smtp_process tells them apart: by the code,
\* and by the keywords that it looks for behind 250 and 334.
Ok250  == {"250", "250_AUTH_PLAIN", "250_AUTH_LOGIN"}
Answer == Ok250 \cup {"220", "235", "334_Username", "334_Password", "354", "other"}

Byte      == Chunk \X Nat
EndOfBody == <<FINISHED, 1>>

InFlight == Len(wire) - acked

TypeOK ==
  /\ pcb \in {"none", "open", "closed", "gone"} /\ arg \in BOOLEAN
  /\ state \in State /\ timer \in 0..65535
  /\ p \in Answer \cup {"none", "partial"}
  /\ bdh \in {"SENDING", "STOP"} /\ exposed \in 0..FINISHED
  /\ body \in Byte \cup {EndOfBody}
  /\ body_len \in 0..65535 /\ body_sent \in 0..65535
  /\ pc \in {"idle", "resume", "run", "stop", "end"}
  /\ wire \in Seq(Byte \cup {EndOfBody}) /\ acked \in 0..Len(wire)
  /\ InFlight <= TcpSndBuf
  /\ time \in 0..MaxTime /\ prompt \in BOOLEAN /\ asked \in [Chunk -> 0..65535]
  /\ results \in Nat /\ refused \in BOOLEAN
  /\ result \in {"none", "OK", "ERR_SVR_RESP", "ERR_CLOSED", "ERR_TIMEOUT"}

\* Before send_email; SNTP may already have set the time.
Init ==
  /\ pcb = "none" /\ arg = FALSE /\ state = "NULL" /\ timer = 0 /\ p = "none"
  /\ bdh = "SENDING" /\ exposed = 0 /\ body = <<0, 1>>
  /\ body_len = 0 /\ body_sent = 0 /\ pc = "idle"
  /\ wire = <<>> /\ acked = 0 /\ time \in {0, 1} \cap 0..MaxTime
  /\ prompt \in BOOLEAN
  /\ asked = [c \in Chunk |-> 0]
  /\ results = 0 /\ result = "none" /\ refused = FALSE

-----------------------------------------------------------------------------
(* Start and end of a session *)

\* smtp_send_mail_bodycback fails for want of memory for the session or the
\* connection, or when connecting fails.
Send ==
  /\ pcb = "none" /\ ~refused
  /\ \/ /\ pcb' = "open" /\ arg' = TRUE /\ timer' = SMTP_TIMEOUT
        /\ UNCHANGED <<state, p, outcome>>
     \/ /\ ~prompt
        /\ refused' = TRUE /\ UNCHANGED <<dialogue, results, result>>
  /\ UNCHANGED <<generator, body_sent, pc, wire, acked, time, prompt>>

smtp_free(r) == results' = results + 1 /\ result' = r /\ UNCHANGED refused

\* The connection no longer refers to the session, is closed, and the session
\* reports.  Closing an open connection does not fail: lwIP retries a FIN it
\* has no memory for by itself.  What TCP has queued is still sent.
smtp_close(r) == arg' = FALSE /\ pcb' = "closed" /\ smtp_free(r)

\* The server has reset the connection, or lwIP has given it up.
smtp_tcp_err ==
  /\ pc = "idle" /\ pcb = "open" /\ ~prompt
  /\ IF arg THEN smtp_free("ERR_CLOSED") ELSE UNCHANGED outcome
  /\ pcb' = "gone" /\ arg' = FALSE
  /\ UNCHANGED <<state, timer, p, generator, body_sent, pc, wire, acked, time, prompt>>

\* smtp_tcp_recv without data: the server has closed its side.
ClosedByServer ==
  /\ pc = "idle" /\ pcb = "open" /\ (prompt => ~arg)
  /\ IF arg THEN smtp_close("ERR_CLOSED")
            ELSE pcb' = "closed" /\ UNCHANGED <<arg, outcome>>
  /\ UNCHANGED <<state, timer, p, generator, body_sent, pc, wire, acked, time, prompt>>

-----------------------------------------------------------------------------
(* smtp_send_body *)

\* What a write of `len' bytes hands to TCP: as much as the send buffer has
\* room for, or nothing when TCP has no memory.  Commands and the header also
\* occupy the buffer.
Written(len) ==
  LET room == Min({len, TcpSndBuf - InFlight})
  IN  IF prompt THEN {room} ELSE 0..room

\* Mutant: the pointer stays at the start of what was written.
SendBodyhStuck(from, len, n) ==
  /\ wire' = wire \o [i \in 1..n |-> <<from[1], from[2] + i - 1>>]
  /\ body' = from
  /\ body_len' = len - n

\* smtp_send_bodyh_data, when TCP takes n bytes.
smtp_send_bodyh_data(from, len, n) ==
  /\ wire' = wire \o [i \in 1..n |-> <<from[1], from[2] + i - 1>>]
  /\ body' = <<from[1], from[2] + n>>
  /\ body_len' = len - n

\* smtp_send_body_data_handler: leftovers of the last chunk go first.
Resume ==
  /\ pc = "resume"
  /\ \E n \in Written(body_len) :
       /\ smtp_send_bodyh_data(body, body_len, n)
       /\ IF n < body_len
          THEN body_sent' = U16(body_len' - 1) /\ pc' = "end"
          ELSE pc' = (IF bdh = "SENDING" THEN "run" ELSE "stop") /\ UNCHANGED body_sent
  /\ UNCHANGED <<dialogue, bdh, exposed, asked, acked, time, prompt, outcome>>

\* The length my_smtp_bodydh_fn announces: strlen for the two times.
Length(c) == IF c \notin Timed THEN ChunkLen[c] ELSE IF time = 0 THEN 0 ELSE TimeLen

\* One turn of the loop: the callback produces a chunk, which is written.
NextChunk ==
  /\ exposed < FINISHED
  /\ exposed' = exposed + 1
  /\ asked' = [asked EXCEPT ![exposed] = Length(exposed)]
  /\ \E n \in Written(Length(exposed)) :
       /\ smtp_send_bodyh_data(<<exposed, 1>>, Length(exposed), n)
       /\ pc' = IF Length(exposed) > 0 /\ n = Length(exposed) THEN "run" ELSE "stop"
  /\ UNCHANGED bdh

\* Mutant: the end of the body is not remembered.
NoMoreChunksForgets ==
  /\ exposed = FINISHED
  /\ body' = <<FINISHED - 1, 1>> /\ body_len' = 0 /\ pc' = "stop"
  /\ UNCHANGED <<bdh, exposed, asked, wire>>

\* The callback has nothing more: it returns BDH_DONE and leaves the length 0
\* and the buffer of the last chunk.
NoMoreChunks ==
  /\ exposed = FINISHED
  /\ bdh' = "STOP" /\ body' = <<FINISHED - 1, 1>> /\ body_len' = 0 /\ pc' = "stop"
  /\ UNCHANGED <<exposed, asked, wire>>

Run ==
  /\ pc = "run"
  /\ NextChunk \/ NoMoreChunks
  /\ UNCHANGED <<dialogue, body_sent, acked, time, prompt, outcome>>

\* Mutant: an empty chunk is taken for the end of the body.
StopOnEmpty ==
  /\ pc = "stop"
  /\ body_sent' = IF bdh = "STOP" \/ body_len = 0 THEN body_len ELSE body_len - 1
  /\ pc' = "end"
  /\ UNCHANGED <<dialogue, generator, wire, acked, time, prompt, outcome>>

\* End of the handler.  body_sent becomes body_len when all is written, and
\* anything else on a pause: 0 - 1 wraps around after an empty chunk.
Stop ==
  /\ pc = "stop"
  /\ body_sent' = IF bdh = "STOP" THEN body_len ELSE U16(body_len - 1)
  /\ pc' = "end"
  /\ UNCHANGED <<dialogue, generator, wire, acked, time, prompt, outcome>>

\* The rest of smtp_send_body: the line that ends the mail, once the body is
\* written.  When TCP does not take it the next call tries again.
FinishBody ==
  /\ pc = "end" /\ pc' = "idle"
  /\ \/ /\ body_sent = body_len /\ InFlight < TcpSndBuf
        /\ wire' = Append(wire, EndOfBody)
        /\ timer' = SMTP_TIMEOUT_DATATERM /\ state' = "QUIT"
     \/ /\ body_sent # body_len \/ InFlight = TcpSndBuf \/ ~prompt
        /\ UNCHANGED <<wire, timer, state>>
  /\ UNCHANGED <<pcb, arg, p, generator, body_sent, acked, time, prompt, outcome>>

-----------------------------------------------------------------------------
(* smtp_process *)

\* The next state, or the same one when the answer is not the expected one.
NextState(st, a) ==
  CASE st = "NULL" /\ a = "220" -> "HELO"
    [] st = "HELO" /\ a = "250_AUTH_PLAIN" -> "AUTH_PLAIN"
    [] st = "HELO" /\ a = "250_AUTH_LOGIN" -> "AUTH_LOGIN_UNAME"
    [] st = "HELO" /\ a = "250" -> "MAIL"
    [] st = "AUTH_LOGIN_UNAME" /\ a = "334_Username" -> "AUTH_LOGIN_PASS"
    [] st = "AUTH_LOGIN_PASS" /\ a = "334_Password" -> "AUTH_LOGIN"
    [] st \in {"AUTH_LOGIN", "AUTH_PLAIN"} /\ a = "235" -> "MAIL"
    [] st = "MAIL" /\ a \in Ok250 -> "RCPT"
    [] st = "RCPT" /\ a \in Ok250 -> "DATA"
    [] st = "DATA" /\ a = "354" -> "BODY"
    [] st = "QUIT" /\ a \in Ok250 -> "CLOSED"
    [] OTHER -> st

\* Mutant: the connection still refers to the session that has ended.
CommandSentKeepsArg(next) ==
  /\ state' = next /\ timer' = SMTP_TIMEOUT /\ p' = "none" /\ UNCHANGED <<pcb, arg>>
  /\ CASE next = "BODY"   -> pc' = "resume" /\ UNCHANGED outcome
       [] next = "CLOSED" -> smtp_free("OK") /\ UNCHANGED pc
       [] OTHER           -> UNCHANGED <<pc, outcome>>

\* The command is written: after the header the body follows at once, after
\* QUIT the session is over and only the connection remains.
CommandSent(next) ==
  /\ state' = next /\ timer' = SMTP_TIMEOUT /\ p' = "none" /\ UNCHANGED pcb
  /\ CASE next = "BODY"   -> pc' = "resume" /\ UNCHANGED <<arg, outcome>>
       [] next = "CLOSED" -> arg' = FALSE /\ smtp_free("OK") /\ UNCHANGED pc
       [] OTHER           -> UNCHANGED <<pc, arg, outcome>>

\* An answer as received so far, `a': incomplete, unexpected, or the expected
\* one, whose command TCP may not take now; then it is kept for the next call.
Respond(a, tm) ==
  \/ /\ a \in {"none", "partial"}
     /\ p' = a /\ timer' = tm /\ UNCHANGED <<pcb, arg, state, pc, outcome>>
  \/ /\ a \in Answer /\ NextState(state, a) = state
     /\ p' = a /\ timer' = tm /\ smtp_close("ERR_SVR_RESP") /\ UNCHANGED <<state, pc>>
  \/ /\ a \in Answer /\ NextState(state, a) # state
     /\ CommandSent(NextState(state, a))
  \/ /\ a \in Answer /\ NextState(state, a) # state /\ ~prompt
     /\ p' = a /\ timer' = tm /\ UNCHANGED <<pcb, arg, state, pc, outcome>>

\* smtp_process without new data: time out, go on with the body, or look
\* again at an answer that is still there.
Continue(tm) ==
  \/ /\ tm = 0
     /\ timer' = tm /\ smtp_close("ERR_TIMEOUT") /\ UNCHANGED <<state, p, pc>>
  \/ /\ tm > 0 /\ state = "BODY"
     /\ timer' = tm /\ pc' = "resume" /\ UNCHANGED <<pcb, arg, state, p, outcome>>
  \/ /\ tm > 0 /\ state # "BODY" /\ Respond(p, tm)

-----------------------------------------------------------------------------
(* Callbacks of the connection.  With no session behind it they do nothing. *)

\* What a prompt network and server still have to do: acknowledge, or answer.
Owed == InFlight > 0 \/ (p \in {"none", "partial"} /\ state # "BODY")

\* Mutant: the timer does not run.
PollWithoutTimer ==
  /\ pc = "idle" /\ pcb = "open" /\ arg
  /\ prompt => ~Owed
  /\ Continue(timer)
  /\ UNCHANGED <<generator, body_sent, wire, acked, time, prompt>>

smtp_tcp_poll ==
  /\ pc = "idle" /\ pcb = "open" /\ arg
  /\ prompt => ~Owed
  /\ Continue(IF timer = 0 THEN 0 ELSE timer - 1)
  /\ UNCHANGED <<generator, body_sent, wire, acked, time, prompt>>

\* The server has acknowledged bytes of the body, or only of commands.
smtp_tcp_sent ==
  /\ pc = "idle" /\ pcb \in {"open", "closed"}
  /\ acked' \in acked..Len(wire) /\ (prompt => acked' > acked)
  /\ IF arg THEN Continue(timer) ELSE UNCHANGED <<dialogue, pc, outcome>>
  /\ UNCHANGED <<generator, body_sent, wire, time, prompt>>

\* Data from the server, appended to what is there.  Fewer than three
\* characters, or no code at the start, are discarded ("none"); the code of a
\* complete answer does not change by what follows it.
smtp_tcp_recv ==
  /\ pc = "idle" /\ pcb = "open" /\ arg
  /\ \E a \in Answer \cup {"none", "partial"} :
       /\ p \in Answer => a = p
       /\ p = "partial" => a # "none"
       /\ prompt => /\ a # "none" /\ state # "BODY" /\ p \notin Answer
                    /\ a \in Answer => NextState(state, a) # state
       /\ Respond(a, timer)
  /\ UNCHANGED <<generator, body_sent, wire, acked, time, prompt>>

\* sntp_set_system_time writes both times.
sntp_set_system_time ==
  /\ pc = "idle" /\ time < MaxTime /\ time' = time + 1
  /\ UNCHANGED <<dialogue, generator, body_sent, pc, wire, acked, prompt, outcome>>

smtp_send_body == Resume \/ Run \/ Stop \/ FinishBody

Next ==
  \/ Send \/ smtp_send_body \/ sntp_set_system_time
  \/ smtp_tcp_poll \/ smtp_tcp_sent \/ smtp_tcp_recv
  \/ ClosedByServer \/ smtp_tcp_err

\* A callback that has started runs to its end, and lwIP's timer calls poll
\* however many other callbacks there are.  A prompt server acknowledges what
\* it gets and answers every command; nothing is assumed of any other.
Fairness ==
  /\ WF_vars(smtp_send_body) /\ SF_vars(smtp_tcp_poll)
  /\ WF_vars(prompt /\ smtp_tcp_sent) /\ WF_vars(prompt /\ smtp_tcp_recv)

Spec == Init /\ [][Next]_vars /\ Fairness

-----------------------------------------------------------------------------
(* Safety *)

\* What is still to be written of the last chunk produced.
Leftover == [i \in 1..body_len |-> <<body[1], body[2] + i - 1>>]

\* Byte b comes right after byte a in the mail: in the same chunk, or at the
\* start of the next one that is not empty.
Follows(a, b) ==
  \/ b = <<a[1], a[2] + 1>> /\ a[2] < asked[a[1]]
  \/ /\ a[1] < b[1] /\ a[2] = asked[a[1]] /\ b[2] = 1
     /\ \A c \in a[1] + 1..b[1] - 1 : asked[c] = 0

\* Byte a is the last of the chunks produced so far.
IsLast(a) ==
  \/ a = EndOfBody /\ exposed = FINISHED
  \/ a[1] < exposed /\ a[2] = asked[a[1]] /\ \A c \in a[1] + 1..exposed - 1 : asked[c] = 0

(* Partial writes, failed writes and pauses of the generator neither lose,  *)
(* repeat nor reorder a byte of the mail, and the line that ends it comes   *)
(* last and once: from the first byte to the last one produced, each byte   *)
(* follows the one before.                                                  *)
BodyInOrder ==
  LET mail == wire \o Leftover IN
  IF mail = <<>> THEN exposed = 0
  ELSE /\ mail[1] = <<0, 1>> /\ IsLast(mail[Len(mail)])
       /\ \A i \in 1..Len(mail) - 1 : Follows(mail[i], mail[i + 1])

(* A session reports OK only if every chunk of the mail was written, and    *)
(* the line that ends it.                                                   *)
OkMeansWhole ==
  result = "OK" =>
    /\ exposed = FINISHED /\ Last(wire) = EndOfBody
    /\ \A c \in Chunk \ Timed : {c} \X (1..ChunkLen[c]) \subseteq Range(wire)

M == INSTANCE Mailer WITH
       sessions <- (IF pcb = "none" THEN 0 ELSE 1) - results,
       failed   <- IF refused THEN 1 ELSE 0

(* The client keeps the contract that SecuritySystem relies on: exactly one *)
(* result for an accepted mail, none for a refused one.  So mySMTPresult    *)
(* gives back the mutexes of send_email once, however the session ends.     *)
KeepsMailerContract == M!MailerSpec

(* Every session ends, whatever the server does or fails to do.             *)
SessionEnds == arg ~> ~arg

(* With a prompt server the mail gets through: neither the full send buffer *)
(* nor the empty time strings before the first SNTP answer stall the body   *)
(* until the session times out.                                             *)
Delivered == prompt /\ arg ~> result = "OK"

-----------------------------------------------------------------------------
(* What a comment of the code demands and the model refutes. *)

(* Memory written without copying does not change until TCP has the         *)
(* acknowledgement: here, the two times.                                    *)
TimeKeptUntilAcked ==
  [][time' # time => \A i \in acked + 1..Len(wire) : wire[i][1] \notin Timed]_vars
=============================================================================
