------------------------------- MODULE Mailer -------------------------------
(***************************************************************************)
(* What the SMTP client (lwIP's smtp.c) promises send_email: a send is     *)
(* refused at once, or starts a session that later calls the result        *)
(* callback exactly once.                                                  *)
(***************************************************************************)
EXTENDS Naturals

VARIABLES sessions,   \* sends accepted whose result is still to come
          failed      \* sends that returned an error, which have no result

mailerVars == <<sessions, failed>>

MailerInit == sessions = 0 /\ failed = 0

SendAccepted == sessions' = sessions + 1 /\ UNCHANGED failed

SendRefused == failed' = failed + 1 /\ UNCHANGED sessions

\* A session ends, well or badly, and calls the result callback.
SendResult == sessions > 0 /\ sessions' = sessions - 1 /\ UNCHANGED failed

(* A result comes once for every accepted send and never for a refused one. *)
MailerSpec ==
  MailerInit /\ [][SendAccepted \/ SendRefused \/ SendResult]_mailerVars
=============================================================================
