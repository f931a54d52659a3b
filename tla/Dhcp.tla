-------------------------------- MODULE Dhcp --------------------------------
(***************************************************************************)
(* lwIP's DHCP client (dhcp.c) with its server and the datagrams between   *)
(* them, which may be lost, delayed and duplicated.                        *)
(*                                                                         *)
(* Each handler is one step.  request_timeout is kept as armed or not: how *)
(* long a back-off lasts is left open.  The lease is counted in coarse     *)
(* timer ticks of a minute, as in the code; an ACK does not live for over  *)
(* a minute.  tries is only compared with 0 and 5 and stops at ManyTries.  *)
(* A transaction id, xid, is fresh when it changes: a reply is either of   *)
(* the last one or old.                                                    *)
(*                                                                         *)
(* The link is up from the start and its changes are not reported, so      *)
(* there is no INIT and no REBOOTING; addresses are not probed (no         *)
(* CHECKING) and the server always names itself.                           *)
(***************************************************************************)
EXTENDS Naturals, FiniteSets

CONSTANTS Addr,                        \* addresses the server may offer
          LeaseSecs, T1Secs, T2Secs,   \* the times of a lease, in seconds
          MaxReplies,                  \* bound: datagrams to the client at a time
          MaxFaults                    \* bound: refusals and failed allocations

ASSUME DhcpAssumption ==
  /\ {LeaseSecs, T1Secs, T2Secs, MaxReplies, MaxFaults} \subseteq Nat

NoAddr == "0.0.0.0"
NoMsg  == [type |-> "none", addr |-> NoAddr]

ManyTries == 6
DHCP_COARSE_TIMER_SECS == 60

VARIABLES dhcp,       \* struct dhcp
          netif,      \* the address of the interface
          request,    \* the client's datagram on its way to the server
          replies,    \* the server's datagrams
          granted,    \* history: ticks since the server last granted an address
          faults      \* refusals and failed allocations so far

dhcpVars == <<dhcp, netif, request, replies, granted>>

\* memset
Cleared == [state |-> "OFF", tries |-> 0, request_timeout |-> FALSE,
            xid |-> "zero", offered |-> NoAddr,
            t0 |-> 0, t1 |-> 0, t2 |-> 0, t2_timeout |-> 0, lease_used |-> 0]

Ticks(secs) ==
  LET n == (secs + DHCP_COARSE_TIMER_SECS \div 2) \div DHCP_COARSE_TIMER_SECS
  IN IF n > 65535 THEN 65535 ELSE IF n = 0 THEN 1 ELSE n

Lease == Ticks(LeaseSecs)

DhcpInit ==
  /\ dhcp = Cleared /\ netif = NoAddr
  /\ request = NoMsg /\ replies = {}
  /\ granted = [a \in Addr |-> Lease + 1]
  /\ faults = 0

Fault == faults < MaxFaults /\ faults' = faults + 1

-----------------------------------------------------------------------------
(* Sending *)

dhcp_set_state(d, state) ==
  IF d.state = state THEN d
  ELSE [d EXCEPT !.state = state, !.tries = 0, !.request_timeout = FALSE]

\* Mutant: no timeout is set for the answer.
NextTryUnarmed(d) ==
  [d EXCEPT !.tries = IF @ < ManyTries THEN @ + 1 ELSE @]

NextTry(d) ==
  [d EXCEPT !.tries = IF @ < ManyTries THEN @ + 1 ELSE @, !.request_timeout = TRUE]

\* dhcp_create_msg and what follows it.  A request keeps the transaction id;
\* another message takes a new one on its first try.  Without memory nothing is
\* sent, and the next try comes all the same.
Send(d, type, addr) ==
  \/ /\ LET new == type # "REQUEST" /\ d.tries = 0 IN
        /\ dhcp' = NextTry(IF type # "REQUEST" THEN [d EXCEPT !.xid = "current"] ELSE d)
        /\ request' = [type |-> type, addr |-> addr]
        /\ replies' = {[r EXCEPT !.old = @ \/ new] : r \in replies}
     /\ UNCHANGED faults
  \/ /\ Fault
     /\ dhcp' = NextTry(d)
     /\ UNCHANGED <<request, replies>>

dhcp_discover(d) ==
  Send([dhcp_set_state(d, "SELECTING") EXCEPT !.offered = NoAddr], "DISCOVER", NoAddr)

dhcp_select(d) == Send(dhcp_set_state(d, "REQUESTING"), "REQUEST", d.offered)
dhcp_renew(d)  == Send(dhcp_set_state(d, "RENEWING"), "REQUEST", netif)
dhcp_rebind(d) == Send(dhcp_set_state(d, "REBINDING"), "REQUEST", netif)

dhcp_start ==
  /\ dhcp.state = "OFF"
  /\ dhcp_discover(Cleared)
  /\ UNCHANGED <<netif, granted>>

dhcp_supplied_address == dhcp.state \in {"BOUND", "RENEWING", "REBINDING"}

\* dhcp_release_and_stop and dhcp_start.  The message that releases the address
\* changes nothing here.
Restart ==
  /\ netif' = IF dhcp_supplied_address THEN NoAddr ELSE netif
  /\ dhcp_discover(Cleared)

-----------------------------------------------------------------------------
(* Receiving *)

dhcp_handle_offer(r) ==
  /\ dhcp_select([dhcp EXCEPT !.request_timeout = FALSE, !.offered = r.addr])
  /\ UNCHANGED netif

\* t1_timeout, which no one reads, is left out, and so are the infinite times of
\* 0xffffffff seconds, for which dhcp_bind sets no timer: every lease expires.
dhcp_bind(d) ==
  [dhcp_set_state(d, "BOUND") EXCEPT
     !.lease_used = 0,
     !.t0 = Lease, !.t1 = Ticks(T1Secs), !.t2 = Ticks(T2Secs), !.t2_timeout = Ticks(T2Secs)]

\* dhcp_handle_ack and dhcp_bind.
dhcp_handle_ack(r) ==
  /\ dhcp' = dhcp_bind([dhcp EXCEPT !.offered = r.addr])
  /\ netif' = r.addr
  /\ UNCHANGED <<request, faults>>

\* Mutant: the address stays with the interface.
dhcp_handle_nak_keeps ==
  /\ netif' = netif
  /\ dhcp_discover(dhcp_set_state(dhcp, "BACKING_OFF"))

dhcp_handle_nak ==
  /\ netif' = NoAddr
  /\ dhcp_discover(dhcp_set_state(dhcp, "BACKING_OFF"))

Asking == {"REQUESTING", "REBINDING", "RENEWING"}

\* dhcp_recv: a reply of an old transaction or in another state is dropped.
Accepted(r, type, states) ==
  r.type = type /\ ~r.old /\ dhcp.xid = "current" /\ dhcp.state \in states

dhcp_recv_offer ==
  /\ \E r \in replies : Accepted(r, "OFFER", {"SELECTING"}) /\ dhcp_handle_offer(r)
  /\ UNCHANGED granted

dhcp_recv_ack ==
  /\ \E r \in replies : Accepted(r, "ACK", Asking) /\ dhcp_handle_ack(r)
  /\ UNCHANGED <<replies, granted>>

dhcp_recv_nak ==
  /\ \E r \in replies : Accepted(r, "NAK", Asking)
  /\ dhcp_handle_nak
  /\ UNCHANGED granted

-----------------------------------------------------------------------------
(* Timers *)

\* dhcp_fine_tmr, when request_timeout runs out, and dhcp_timeout.
dhcp_fine_tmr ==
  LET d == [dhcp EXCEPT !.request_timeout = FALSE] IN
  /\ dhcp.request_timeout
  /\ \/ /\ d.state = "SELECTING"
        /\ dhcp_discover(d) /\ UNCHANGED netif
     \/ /\ d.state = "REQUESTING" /\ d.tries <= 5
        /\ dhcp_select(d) /\ UNCHANGED netif
     \/ /\ d.state = "REQUESTING" /\ d.tries > 5
        /\ Restart
     \/ /\ d.state \notin {"SELECTING", "REQUESTING"}
        /\ dhcp' = d /\ UNCHANGED <<netif, request, replies, faults>>
  /\ UNCHANGED granted

\* How far half the way to `limit' is, if it is a tick at least.
HalfWay(d, limit) ==
  IF limit >= d.lease_used + 2 THEN (limit - d.lease_used) \div 2 ELSE 0

dhcp_t1_timeout(d) ==
  IF d.state \in {"REQUESTING", "BOUND", "RENEWING"}
  THEN dhcp_renew([d EXCEPT !.t1 = HalfWay(d, d.t2_timeout)])
  ELSE dhcp' = d /\ UNCHANGED <<request, replies, faults>>

dhcp_t2_timeout(d) ==
  IF d.state \in {"REQUESTING", "BOUND", "RENEWING", "REBINDING"}
  THEN dhcp_rebind([d EXCEPT !.t2 = HalfWay(d, d.t0)])
  ELSE dhcp' = d /\ UNCHANGED <<request, replies, faults>>

Less1(n) == IF n > 0 THEN n - 1 ELSE 0

\* An ACK that is about to have seen two ticks, and so a minute.
Late(r) == r.type = "ACK" /\ granted[r.addr] > 0

\* A minute passes.
dhcp_coarse_tmr ==
  LET used == IF dhcp.t0 > 0 THEN dhcp.lease_used + 1 ELSE dhcp.lease_used
      d1   == [dhcp EXCEPT !.lease_used = used, !.t2 = Less1(@)]
      d2   == [d1 EXCEPT !.t1 = Less1(@)]
      over == dhcp.t0 > 0 /\ used = dhcp.t0
  IN /\ dhcp.state # "OFF" /\ ~\E r \in replies : Late(r)
     /\ granted' = [a \in Addr |-> IF granted[a] > Lease THEN granted[a] ELSE granted[a] + 1]
     /\ \/ over /\ Restart
        \/ ~over /\ dhcp.t2 = 1 /\ dhcp_t2_timeout(d1) /\ UNCHANGED netif
        \/ ~over /\ dhcp.t2 # 1 /\ dhcp.t1 = 1 /\ dhcp_t1_timeout(d2) /\ UNCHANGED netif
        \/ /\ ~over /\ dhcp.t2 # 1 /\ dhcp.t1 # 1
           /\ dhcp' = d2 /\ UNCHANGED <<netif, request, replies, faults>>

-----------------------------------------------------------------------------
(* The server and the network *)

\* The network holds MaxReplies of them and loses others.
Reply(type, addr) ==
  /\ \E kept \in SUBSET replies :
       /\ Cardinality(kept) < MaxReplies
       /\ replies' = kept \cup {[type |-> type, addr |-> addr, old |-> FALSE]}
  /\ request' = NoMsg

ServerOffers ==
  /\ request.type = "DISCOVER"
  /\ \E a \in Addr : Reply("OFFER", a)
  /\ UNCHANGED <<dhcp, netif, granted, faults>>

ServerGrants ==
  /\ request.type = "REQUEST" /\ request.addr # NoAddr
  /\ Reply("ACK", request.addr)
  /\ granted' = [granted EXCEPT ![request.addr] = 0]
  /\ UNCHANGED <<dhcp, netif, faults>>

ServerRefuses ==
  /\ request.type = "REQUEST"
  /\ Reply("NAK", request.addr)
  /\ Fault
  /\ UNCHANGED <<dhcp, netif, granted>>

LoseRequest ==
  /\ request # NoMsg /\ request' = NoMsg
  /\ UNCHANGED <<dhcp, netif, replies, granted, faults>>

\* A reply that is not lost stays, to be delivered again.
LoseReply(r) ==
  /\ replies' = replies \ {r}
  /\ UNCHANGED <<dhcp, netif, request, granted, faults>>
=============================================================================
