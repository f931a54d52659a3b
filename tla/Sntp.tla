-------------------------------- MODULE Sntp --------------------------------
(***************************************************************************)
(* lwIP's SNTP client (sntp.c) as the application configures it: it polls  *)
(* one server, whose name is resolved before every request, and checks     *)
(* nothing of an answer but its form (SNTP_CHECK_RESPONSE is 0).           *)
(*                                                                         *)
(* The client goes from one handler to the next through the timeouts it    *)
(* sets: sntp_request and sntp_try_next_server, which is sntp_retry since  *)
(* there is one server.  The list of timeouts (timeouts.c) may hold one    *)
(* more than once; sys_untimeout removes the first.  The delays are left   *)
(* open.  Answers of the time server may be late or duplicated.            *)
(***************************************************************************)
EXTENDS Naturals

CONSTANTS MaxQueries,      \* bound: DNS queries at a time; one more is refused
          SpareTimeouts    \* elements of the timeout pool that lwIP's own leave

ASSUME SntpAssumption ==
  MaxQueries \in Nat \ {0} /\ SpareTimeouts \in Nat \ {0}

VARIABLES sntp,     \* pending timeouts and DNS queries
          ntp       \* the datagram on the network

sntpVars == <<sntp, ntp>>

SntpInit ==
  /\ sntp = [pcb |-> FALSE, request |-> 0, retry |-> 0, dns |-> 0]
  /\ ntp = "none"

\* sys_untimeout and sys_timeout, which forgets the timeout when the pool is
\* empty.
Untimeout(s, handler)  == [s EXCEPT ![handler] = IF @ > 0 THEN @ - 1 ELSE 0]
Timeout(s, handler)    ==
  IF s.request + s.retry < SpareTimeouts THEN [s EXCEPT ![handler] = @ + 1] ELSE s
Retimeout(s, handler)  == Timeout(Untimeout(s, handler), handler)

\* Static flag of sntp_example_init and sntp_pcb; the first request is delayed.
sntp_init ==
  /\ sntp' = IF sntp.pcb THEN sntp ELSE [Timeout(sntp, "request") EXCEPT !.pcb = TRUE]
  /\ UNCHANGED ntp

\* A datagram leaves only when the interface has an address.  Without memory for
\* it, the request is repeated later.
sntp_send_request(s, up, memory) ==
  IF memory THEN /\ sntp' = Retimeout(s, "retry")
                 /\ ntp' = IF up THEN "request" ELSE ntp
            ELSE sntp' = Retimeout(s, "request") /\ UNCHANGED ntp

sntp_retry(s) == sntp' = Retimeout(s, "request") /\ UNCHANGED ntp

\* The timeout sntp_request: the name is cached, ...
sntp_request_cached(up, memory) ==
  /\ sntp.request > 0
  /\ sntp_send_request(Untimeout(sntp, "request"), up, memory)

\* ... asked for, ...
sntp_request_query ==
  /\ sntp.request > 0 /\ sntp.dns < MaxQueries
  /\ sntp' = [Untimeout(sntp, "request") EXCEPT !.dns = @ + 1]
  /\ UNCHANGED ntp

\* ... or cannot be had.
sntp_request_fails ==
  /\ sntp.request > 0
  /\ sntp' = Retimeout(Untimeout(sntp, "request"), "retry")
  /\ UNCHANGED ntp

sntp_try_next_server ==
  /\ sntp.retry > 0
  /\ sntp_retry(Untimeout(sntp, "retry"))

\* The DNS client answers every query, after its own retries if need be.
sntp_dns_found(up, memory) ==
  /\ sntp.dns > 0
  /\ sntp_send_request([sntp EXCEPT !.dns = @ - 1], up, memory)

sntp_dns_failed ==
  /\ sntp.dns > 0
  /\ sntp_retry([sntp EXCEPT !.dns = @ - 1])

-----------------------------------------------------------------------------
(* Answers.  They carry nothing that tells them apart and are handled      *)
(* whenever they come: one is here an answer to any request before it.  A  *)
(* duplicate stays behind.                                                 *)

\* Mutant: the next request is set beside the one that may be set already.
AfterAnswerTwice(s) == Timeout(Untimeout(s, "retry"), "request")

AfterAnswer(s) == Retimeout(Untimeout(s, "retry"), "request")

\* The time is set (sntp_process), and asked for again SNTP_UPDATE_DELAY later.
sntp_recv_time(up) ==
  /\ ntp = "time" /\ up
  /\ sntp' = AfterAnswer(sntp)
  /\ ntp' \in {ntp, "none"}

\* Kiss-of-death: a second thought about this server.
sntp_recv_kod(up) ==
  /\ ntp = "kod" /\ up
  /\ sntp_retry(sntp)

TimeServer(answer) ==
  /\ ntp = "request" /\ ntp' = answer
  /\ UNCHANGED sntp

LoseNtp ==
  /\ ntp # "none" /\ ntp' = "none"
  /\ UNCHANGED sntp
=============================================================================
