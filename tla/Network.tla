------------------------------- MODULE Network -------------------------------
(***************************************************************************)
(* How the device gets its address and the time of day: the part of Task3  *)
(* that runs lwIP's DHCP and SNTP clients.  Each turn of its loop handles  *)
(* the frames that have come and the timeouts that are due, and then looks *)
(* at the DHCP state (print_dhcp_state): the first time it finds BOUND, it *)
(* starts the SNTP client.                                                 *)
(***************************************************************************)
EXTENDS Dhcp, Sntp

vars == <<dhcpVars, faults, sntpVars>>

Init == DhcpInit /\ SntpInit

Up == netif # NoAddr

dhcpIdle == UNCHANGED <<dhcpVars, faults>>
sntpIdle == UNCHANGED sntpVars

\* dhcp_last_state only keeps the message from being printed again.
print_dhcp_state ==
  /\ dhcp.state = "BOUND" /\ ~sntp.pcb
  /\ sntp_init /\ dhcpIdle

Start    == dhcp_start /\ sntpIdle
Offer    == dhcp_recv_offer /\ sntpIdle
Ack      == dhcp_recv_ack /\ sntpIdle
Nak      == dhcp_recv_nak /\ sntpIdle
FineTmr  == dhcp_fine_tmr /\ sntpIdle
Minute   == dhcp_coarse_tmr /\ sntpIdle
Offers   == ServerOffers /\ sntpIdle
Grants   == ServerGrants /\ sntpIdle
Refuses  == ServerRefuses /\ sntpIdle
Expires  == (\E r \in replies : Late(r) /\ LoseReply(r)) /\ sntpIdle
Loses    == (LoseRequest \/ \E r \in replies : LoseReply(r)) /\ sntpIdle

Sends(memory) ==
  (sntp_request_cached(Up, memory) \/ sntp_dns_found(Up, memory)) /\ dhcpIdle
Queries  == sntp_request_query /\ dhcpIdle
NoName   == sntp_request_fails /\ dhcpIdle
Retries  == sntp_try_next_server /\ dhcpIdle
NotFound == sntp_dns_failed /\ dhcpIdle
SetsTime == sntp_recv_time(Up) /\ dhcpIdle
Kod      == sntp_recv_kod(Up) /\ dhcpIdle
Tells(answer) == TimeServer(answer) /\ dhcpIdle
LosesNtp == LoseNtp /\ dhcpIdle

Next ==
  \/ print_dhcp_state \/ Start \/ Offer \/ Ack \/ Nak \/ FineTmr \/ Minute
  \/ Offers \/ Grants \/ Refuses \/ Expires \/ Loses
  \/ Sends(TRUE) \/ Sends(FALSE) \/ Queries \/ NoName \/ Retries \/ NotFound
  \/ SetsTime \/ Kod \/ Tells("time") \/ Tells("kod") \/ LosesNtp

Spec == Init /\ [][Next]_vars

\* Task3 goes round its loop and time passes.  No datagram of DHCP is lost each
\* time it is sent.
FairSpec ==
  /\ Spec
  /\ WF_vars(Start) /\ WF_vars(FineTmr) /\ WF_vars(Minute) /\ WF_vars(Expires)
  /\ SF_vars(Offers) /\ SF_vars(Grants) /\ SF_vars(Offer) /\ SF_vars(Ack)

-----------------------------------------------------------------------------

\* The interface has an address only while DHCP vouches for it and a lease the
\* server granted has not run out, whatever is lost, late, refused or repeated.
AddressHasLease ==
  Up => dhcp_supplied_address /\ granted[netif] <= Lease

\* Once started, the SNTP client waits for a timeout or for a name, so that it
\* goes on, and sets no timeout twice, so that a late or repeated answer does not
\* leave it with two chains of requests.
SntpChain ==
  sntp.pcb => /\ sntp.request <= 1 /\ sntp.retry <= 1
              /\ sntp.request + sntp.retry + sntp.dns >= 1

\* The device gets an address, and gets one again whenever it has lost it.
AddressComesBack == []<>Up
=============================================================================
