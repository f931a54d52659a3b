---------------------------- MODULE NetworkProofs ----------------------------
(***************************************************************************)
(* AddressHasLease and SntpChain for any set of addresses, any times of a  *)
(* lease and any number of datagrams, faults, DNS queries and timeouts.    *)
(***************************************************************************)
EXTENDS Network, TLAPS

States == {"OFF", "SELECTING", "REQUESTING", "BOUND", "RENEWING", "REBINDING",
           "BACKING_OFF"}

MaybeAddr == Addr \cup {NoAddr}

DhcpRecord ==
  [state: States, tries: Nat, request_timeout: BOOLEAN, xid: {"zero", "current"},
   offered: MaybeAddr, t0: Nat, t1: Nat, t2: Nat, t2_timeout: Nat, lease_used: Nat]

ReplyRecord == [type: {"OFFER", "ACK", "NAK"}, addr: MaybeAddr, old: BOOLEAN]

DhcpType ==
  /\ dhcp \in DhcpRecord /\ netif \in MaybeAddr
  /\ request \in [type: {"none", "DISCOVER", "REQUEST"}, addr: MaybeAddr]
  /\ replies \subseteq ReplyRecord
  /\ granted \in [Addr -> Nat] /\ faults \in Nat

\* Every ACK on the network, old ones too, is of a grant at most a tick ago.
AckIsFresh ==
  \A r \in replies : r.type = "ACK" => r.addr \in Addr /\ granted[r.addr] <= 1

\* The client counts the lease at most a tick behind the server, and has not come
\* to its end.
LeaseCounted ==
  Up => /\ dhcp_supplied_address
        /\ dhcp.t0 = Lease /\ dhcp.lease_used < Lease
        /\ granted[netif] <= dhcp.lease_used + 1

LeaseInv == DhcpType /\ AckIsFresh /\ LeaseCounted

\* One timeout of each kind at most.
SntpRecord == [pcb: BOOLEAN, request: {0, 1}, retry: {0, 1}, dns: Nat]

\* Timeouts and queries belong to a client that has been started, as do the
\* datagrams.  dns is only bounded by MaxQueries.
ChainInv ==
  /\ sntp \in SntpRecord
  /\ sntp.pcb => sntp.request + sntp.retry + sntp.dns >= 1
  /\ ~sntp.pcb => sntp.request = 0 /\ sntp.retry = 0 /\ sntp.dns = 0 /\ ntp = "none"

NetworkInv == LeaseInv /\ ChainInv

-----------------------------------------------------------------------------
(* What the helpers return *)

\* A time of a lease is a tick at least: a lease of no seconds lasts a tick too.
LEMMA TicksPositive == ASSUME NEW secs \in Nat PROVE Ticks(secs) \in Nat \ {0}
BY DEF Ticks, DHCP_COARSE_TIMER_SECS

\* A server leases addresses for some time.
LEMMA LeasePositive == Lease \in Nat \ {0}
BY TicksPositive, DhcpAssumption DEF Lease

\* A record of the client with its state set.
LEMMA StateSet ==
  ASSUME NEW d \in DhcpRecord, NEW state \in States
  PROVE  LET e == dhcp_set_state(d, state) IN
         /\ e \in DhcpRecord /\ e.state = state
         /\ e.t0 = d.t0 /\ e.lease_used = d.lease_used
BY DEF dhcp_set_state, DhcpRecord

\* The replies still on the network say what they said, though some may be of an
\* older transaction now.
RepliesKept ==
  /\ replies' \subseteq ReplyRecord
  /\ \A r \in replies' : \E q \in replies : r.type = q.type /\ r.addr = q.addr

\* Sending, with memory or without, keeps the state and the lease.
LEMMA Sending ==
  ASSUME DhcpType, NEW d \in DhcpRecord, NEW type \in {"DISCOVER", "REQUEST"},
         NEW addr \in MaybeAddr, Send(d, type, addr)
  PROVE  /\ dhcp' \in DhcpRecord /\ dhcp'.state = d.state
         /\ dhcp'.t0 = d.t0 /\ dhcp'.lease_used = d.lease_used
         /\ request' \in [type: {"none", "DISCOVER", "REQUEST"}, addr: MaybeAddr]
         /\ RepliesKept /\ faults' \in Nat
<1>1. ASSUME NEW e \in DhcpRecord
      PROVE  /\ NextTry(e) \in DhcpRecord /\ NextTry(e).state = e.state
             /\ NextTry(e).t0 = e.t0 /\ NextTry(e).lease_used = e.lease_used
  <2> DEFINE n == IF e.tries < ManyTries THEN e.tries + 1 ELSE e.tries
  <2>1. n \in Nat
    BY DEF ManyTries, DhcpRecord
  <2>2. NextTry(e) = [e EXCEPT !.tries = n, !.request_timeout = TRUE]
    BY DEF NextTry
  <2> HIDE DEF n
  <2>3. QED
    BY <2>1, <2>2 DEF DhcpRecord
<1>2. LET e == [d EXCEPT !.xid = "current"]
      IN e \in DhcpRecord /\ e.state = d.state /\ e.t0 = d.t0 /\ e.lease_used = d.lease_used
  BY DEF DhcpRecord
<1>3. CASE \E new \in BOOLEAN :
             /\ dhcp' = NextTry(IF type # "REQUEST" THEN [d EXCEPT !.xid = "current"] ELSE d)
             /\ request' = [type |-> type, addr |-> addr]
             /\ replies' = {[r EXCEPT !.old = @ \/ new] : r \in replies}
             /\ UNCHANGED faults
  <2>1. PICK new \in BOOLEAN : replies' = {[r EXCEPT !.old = @ \/ new] : r \in replies}
    BY <1>3
  <2>2. ASSUME NEW r \in replies
        PROVE  LET q == [r EXCEPT !.old = @ \/ new]
               IN q \in ReplyRecord /\ q.type = r.type /\ q.addr = r.addr
    BY DEF DhcpType, ReplyRecord
  <2>3. RepliesKept
    BY <2>1, <2>2 DEF RepliesKept
  <2>4. /\ dhcp' \in DhcpRecord /\ dhcp'.state = d.state
        /\ dhcp'.t0 = d.t0 /\ dhcp'.lease_used = d.lease_used
    <3>1. CASE type = "REQUEST"
      BY <1>1, <1>3, <3>1
    <3>2. CASE type # "REQUEST"
      BY <1>1, <1>2, <1>3, <3>2
    <3>3. QED
      BY <3>1, <3>2
  <2>5. QED
    BY <1>3, <2>3, <2>4 DEF DhcpType
<1>4. CASE Fault /\ dhcp' = NextTry(d) /\ UNCHANGED <<request, replies>>
  BY <1>1, <1>4 DEF DhcpType, Fault, RepliesKept
<1>5. QED
  BY <1>3, <1>4 DEF Send

\* dhcp_discover: the client waits for offers, and has sent at most a DISCOVER.
LEMMA Discovering ==
  ASSUME DhcpType, NEW d \in DhcpRecord, dhcp_discover(d)
  PROVE  /\ dhcp' \in DhcpRecord /\ dhcp'.state = "SELECTING"
         /\ request' \in [type: {"none", "DISCOVER", "REQUEST"}, addr: MaybeAddr]
         /\ RepliesKept /\ faults' \in Nat
<1> DEFINE e == [dhcp_set_state(d, "SELECTING") EXCEPT !.offered = NoAddr]
<1>1. e \in DhcpRecord /\ e.state = "SELECTING"
  <2>1. dhcp_set_state(d, "SELECTING") \in DhcpRecord
        /\ dhcp_set_state(d, "SELECTING").state = "SELECTING"
    BY StateSet DEF States
  <2>2. QED
    BY <2>1 DEF DhcpRecord, MaybeAddr
<1>2. Send(e, "DISCOVER", NoAddr) /\ NoAddr \in MaybeAddr
  BY DEF dhcp_discover, MaybeAddr
<1>3. QED
  BY <1>1, <1>2, Sending

\* dhcp_select, dhcp_renew and dhcp_rebind.
LEMMA Requesting ==
  ASSUME DhcpType, NEW d \in DhcpRecord, NEW state \in States,
         NEW addr \in MaybeAddr, Send(dhcp_set_state(d, state), "REQUEST", addr)
  PROVE  /\ dhcp' \in DhcpRecord /\ dhcp'.state = state
         /\ dhcp'.t0 = d.t0 /\ dhcp'.lease_used = d.lease_used
         /\ request' \in [type: {"none", "DISCOVER", "REQUEST"}, addr: MaybeAddr]
         /\ RepliesKept /\ faults' \in Nat
BY StateSet, Sending

\* A cleared client is a client.
LEMMA ClearedIsRecord == Cleared \in DhcpRecord
BY DEF Cleared, DhcpRecord, States, MaybeAddr

\* Without a tick of the clock or a grant, the ACKs stay as fresh as they were.
LEMMA FreshKept ==
  ASSUME AckIsFresh, RepliesKept, UNCHANGED granted
  PROVE  AckIsFresh'
BY DEF AckIsFresh, RepliesKept

-----------------------------------------------------------------------------
(* The lease: one lemma per action of the client *)

\* A step that leaves the interface without an address, or as it was with its
\* lease, and grants nothing.
LEMMA LeaseKept ==
  ASSUME LeaseInv, UNCHANGED granted, dhcp' \in DhcpRecord, netif' \in MaybeAddr,
         request' \in [type: {"none", "DISCOVER", "REQUEST"}, addr: MaybeAddr],
         RepliesKept, faults' \in Nat,
         \/ netif' = NoAddr
         \/ /\ UNCHANGED netif
            /\ dhcp_supplied_address => dhcp_supplied_address'
            /\ dhcp'.t0 = dhcp.t0 /\ dhcp'.lease_used = dhcp.lease_used
  PROVE  LeaseInv'
<1>1. DhcpType'
  BY DEF LeaseInv, DhcpType, RepliesKept
<1>2. AckIsFresh'
  BY FreshKept DEF LeaseInv
<1>3. LeaseCounted'
  BY DEF LeaseInv, LeaseCounted, Up
<1>4. QED
  BY <1>1, <1>2, <1>3 DEF LeaseInv

\* Where DHCP does not vouch for an address the interface has none.
LEMMA UnsuppliedIsDown ==
  ASSUME LeaseInv, ~dhcp_supplied_address PROVE netif = NoAddr
BY DEF LeaseInv, LeaseCounted, Up

\* dhcp_start.
LEMMA StartKeeps == LeaseInv /\ dhcp_start => LeaseInv'
<1> SUFFICES ASSUME LeaseInv, dhcp_start PROVE LeaseInv'
  OBVIOUS
<1>1. netif = NoAddr /\ netif' = NoAddr
  BY UnsuppliedIsDown DEF dhcp_start, dhcp_supplied_address
<1>2. DhcpType
  BY DEF LeaseInv
<1>3. QED
  BY <1>1, <1>2, ClearedIsRecord, Discovering, LeaseKept DEF dhcp_start, MaybeAddr

\* An offer is requested, and gives no address yet.
LEMMA OfferKeeps == LeaseInv /\ dhcp_recv_offer => LeaseInv'
<1> SUFFICES ASSUME LeaseInv, dhcp_recv_offer PROVE LeaseInv'
  OBVIOUS
<1>1. PICK r \in replies : Accepted(r, "OFFER", {"SELECTING"}) /\ dhcp_handle_offer(r)
  BY DEF dhcp_recv_offer
<1>2. DhcpType
  BY DEF LeaseInv
<1>3. netif = NoAddr /\ netif' = NoAddr
  BY <1>1, UnsuppliedIsDown DEF Accepted, dhcp_handle_offer, dhcp_supplied_address
<1> DEFINE d == [dhcp EXCEPT !.request_timeout = FALSE, !.offered = r.addr]
<1>4. r.addr \in MaybeAddr
  BY <1>2 DEF DhcpType, ReplyRecord
<1>5. d \in DhcpRecord /\ d.offered \in MaybeAddr
  BY <1>2, <1>4 DEF DhcpType, DhcpRecord
<1>6. Send(dhcp_set_state(d, "REQUESTING"), "REQUEST", d.offered)
  BY <1>1 DEF dhcp_handle_offer, dhcp_select
<1> HIDE DEF d
<1>7. QED
  BY <1>2, <1>3, <1>5, <1>6, Requesting, LeaseKept
  DEF dhcp_recv_offer, MaybeAddr, States

\* The lease counts from nothing, and the server granted it a tick ago at most.
LEMMA AckKeeps == LeaseInv /\ dhcp_recv_ack => LeaseInv'
<1> SUFFICES ASSUME LeaseInv, dhcp_recv_ack PROVE LeaseInv'
  OBVIOUS
<1>1. PICK r \in replies : Accepted(r, "ACK", Asking) /\ dhcp_handle_ack(r)
  BY DEF dhcp_recv_ack
<1>2. DhcpType /\ AckIsFresh
  BY DEF LeaseInv
<1>3. r.type = "ACK" /\ r.addr \in Addr /\ granted[r.addr] <= 1 /\ granted[r.addr] \in Nat
  BY <1>1, <1>2 DEF Accepted, AckIsFresh, DhcpType
<1> DEFINE d == [dhcp EXCEPT !.offered = r.addr]
<1>4. d \in DhcpRecord
  BY <1>2, <1>3 DEF DhcpType, DhcpRecord, MaybeAddr
<1> HIDE DEF d
<1>5. /\ dhcp_bind(d) \in DhcpRecord /\ dhcp_bind(d).state = "BOUND"
      /\ dhcp_bind(d).t0 = Lease /\ dhcp_bind(d).lease_used = 0
  <2>1. dhcp_set_state(d, "BOUND") \in DhcpRecord
        /\ dhcp_set_state(d, "BOUND").state = "BOUND"
    BY <1>4, StateSet DEF States
  <2>2. Ticks(T1Secs) \in Nat /\ Ticks(T2Secs) \in Nat /\ Lease \in Nat
    BY TicksPositive, LeasePositive, DhcpAssumption
  <2>3. QED
    BY <2>1, <2>2 DEF dhcp_bind, DhcpRecord
<1>6. dhcp' = dhcp_bind(d) /\ netif' = r.addr /\ UNCHANGED <<request, faults, replies, granted>>
  BY <1>1 DEF dhcp_handle_ack, dhcp_recv_ack, d
<1>7. DhcpType'
  BY <1>2, <1>3, <1>5, <1>6 DEF DhcpType, MaybeAddr
<1>8. AckIsFresh'
  BY <1>2, <1>6 DEF AckIsFresh
<1>9. LeaseCounted'
  BY <1>3, <1>5, <1>6, LeasePositive DEF LeaseCounted, dhcp_supplied_address
<1>10. QED
  BY <1>7, <1>8, <1>9 DEF LeaseInv

\* A refusal takes the address away.
LEMMA NakKeeps == LeaseInv /\ dhcp_recv_nak => LeaseInv'
<1> SUFFICES ASSUME LeaseInv, dhcp_recv_nak PROVE LeaseInv'
  OBVIOUS
<1>1. DhcpType /\ dhcp \in DhcpRecord
  BY DEF LeaseInv, DhcpType
<1>2. dhcp_set_state(dhcp, "BACKING_OFF") \in DhcpRecord
  BY <1>1, StateSet DEF States
<1>3. /\ netif' = NoAddr /\ UNCHANGED granted
      /\ dhcp_discover(dhcp_set_state(dhcp, "BACKING_OFF"))
  BY DEF dhcp_recv_nak, dhcp_handle_nak
<1>4. QED
  BY <1>1, <1>2, <1>3, Discovering, LeaseKept DEF MaybeAddr

\* dhcp_release_and_stop takes the address away if DHCP vouches for it; otherwise
\* there is none.
LEMMA RestartClears ==
  ASSUME LeaseInv, Restart
  PROVE  /\ netif' = NoAddr /\ dhcp' \in DhcpRecord
         /\ request' \in [type: {"none", "DISCOVER", "REQUEST"}, addr: MaybeAddr]
         /\ RepliesKept /\ faults' \in Nat
<1>1. netif' = NoAddr
  BY UnsuppliedIsDown DEF Restart
<1>2. DhcpType /\ dhcp_discover(Cleared)
  BY DEF LeaseInv, Restart
<1>3. QED
  BY <1>1, <1>2, ClearedIsRecord, Discovering

\* The fine timer repeats a request or gives it up.
LEMMA FineKeeps == LeaseInv /\ dhcp_fine_tmr => LeaseInv'
<1> SUFFICES ASSUME LeaseInv, dhcp_fine_tmr PROVE LeaseInv'
  OBVIOUS
<1> DEFINE d == [dhcp EXCEPT !.request_timeout = FALSE]
<1>1. DhcpType /\ netif \in MaybeAddr /\ UNCHANGED granted
  BY DEF LeaseInv, DhcpType, dhcp_fine_tmr
<1>2. /\ d \in DhcpRecord /\ d.state = dhcp.state /\ d.offered \in MaybeAddr
      /\ d.t0 = dhcp.t0 /\ d.lease_used = dhcp.lease_used
  BY <1>1 DEF DhcpType, DhcpRecord
<1>3. CASE d.state = "SELECTING" /\ dhcp_discover(d) /\ UNCHANGED netif
  <2>1. netif = NoAddr
    BY <1>2, <1>3, UnsuppliedIsDown DEF dhcp_supplied_address
  <2>2. QED
    BY <1>1, <1>2, <1>3, <2>1, Discovering, LeaseKept
<1>4. CASE d.state = "REQUESTING" /\ dhcp_select(d) /\ UNCHANGED netif
  <2>1. netif = NoAddr
    BY <1>2, <1>4, UnsuppliedIsDown DEF dhcp_supplied_address
  <2>2. Send(dhcp_set_state(d, "REQUESTING"), "REQUEST", d.offered)
    BY <1>4 DEF dhcp_select
  <2> HIDE DEF d
  <2>3. QED
    BY <1>1, <1>2, <1>4, <2>1, <2>2, Requesting, LeaseKept DEF States
<1>5. CASE Restart
  BY <1>1, <1>5, RestartClears, LeaseKept DEF MaybeAddr
<1>6. CASE dhcp' = d /\ UNCHANGED <<netif, request, replies, faults>>
  BY <1>1, <1>2, <1>6, LeaseKept DEF DhcpType, RepliesKept, dhcp_supplied_address
<1>7. QED
  BY <1>3, <1>4, <1>5, <1>6 DEF dhcp_fine_tmr

\* Renewing and rebinding keep an address and the count of its lease.
LEMMA RenewOrRebind ==
  ASSUME LeaseInv, NEW d \in DhcpRecord, d.state = dhcp.state,
         dhcp_t1_timeout(d) \/ dhcp_t2_timeout(d)
  PROVE  /\ dhcp' \in DhcpRecord /\ dhcp'.t0 = d.t0 /\ dhcp'.lease_used = d.lease_used
         /\ request' \in [type: {"none", "DISCOVER", "REQUEST"}, addr: MaybeAddr]
         /\ RepliesKept /\ faults' \in Nat
         /\ dhcp_supplied_address => dhcp_supplied_address'
<1>1. DhcpType /\ netif \in MaybeAddr
  BY DEF LeaseInv, DhcpType
<1>2. ASSUME NEW limit \in Nat PROVE HalfWay(d, limit) \in Nat
  BY <1>2 DEF HalfWay, DhcpRecord
<1>3. CASE dhcp' = d /\ UNCHANGED <<request, replies, faults>>
  BY <1>1, <1>3 DEF DhcpType, RepliesKept, dhcp_supplied_address
<1>4. CASE dhcp_renew([d EXCEPT !.t1 = HalfWay(d, d.t2_timeout)])
  <2> DEFINE e == [d EXCEPT !.t1 = HalfWay(d, d.t2_timeout)]
  <2>1. HalfWay(d, d.t2_timeout) \in Nat
    BY <1>2 DEF DhcpRecord
  <2>2. e \in DhcpRecord /\ e.t0 = d.t0 /\ e.lease_used = d.lease_used
    BY <2>1 DEF DhcpRecord
  <2>3. Send(dhcp_set_state(e, "RENEWING"), "REQUEST", netif)
    BY <1>4 DEF dhcp_renew
  <2> HIDE DEF e
  <2>4. QED
    BY <1>1, <2>2, <2>3, Requesting DEF States, dhcp_supplied_address
<1>5. CASE dhcp_rebind([d EXCEPT !.t2 = HalfWay(d, d.t0)])
  <2> DEFINE e == [d EXCEPT !.t2 = HalfWay(d, d.t0)]
  <2>1. HalfWay(d, d.t0) \in Nat
    BY <1>2 DEF DhcpRecord
  <2>2. e \in DhcpRecord /\ e.t0 = d.t0 /\ e.lease_used = d.lease_used
    BY <2>1 DEF DhcpRecord
  <2>3. Send(dhcp_set_state(e, "REBINDING"), "REQUEST", netif)
    BY <1>5 DEF dhcp_rebind
  <2> HIDE DEF e
  <2>4. QED
    BY <1>1, <2>2, <2>3, Requesting DEF States, dhcp_supplied_address
<1>6. QED
  BY <1>3, <1>4, <1>5 DEF dhcp_t1_timeout, dhcp_t2_timeout

\* The client and the server count the minute together; at the end of the lease
\* the client gives the address up in the same tick.
LEMMA CoarseKeeps == LeaseInv /\ dhcp_coarse_tmr => LeaseInv'
<1> SUFFICES ASSUME LeaseInv, dhcp_coarse_tmr PROVE LeaseInv'
  OBVIOUS
<1> DEFINE used == IF dhcp.t0 > 0 THEN dhcp.lease_used + 1 ELSE dhcp.lease_used
           d1   == [dhcp EXCEPT !.lease_used = used, !.t2 = Less1(@)]
           d2   == [d1 EXCEPT !.t1 = Less1(@)]
           over == dhcp.t0 > 0 /\ used = dhcp.t0
<1>1. DhcpType /\ AckIsFresh /\ LeaseCounted /\ dhcp \in DhcpRecord /\ netif \in MaybeAddr
  BY DEF LeaseInv, DhcpType
<1>2. \A r \in replies : r.type = "ACK" => r.addr \in Addr /\ granted[r.addr] = 0
  BY <1>1 DEF dhcp_coarse_tmr, Late, AckIsFresh, DhcpType
<1>3. /\ granted' \in [Addr -> Nat]
      /\ \A a \in Addr : granted'[a] <= granted[a] + 1
  BY <1>1, LeasePositive DEF dhcp_coarse_tmr, DhcpType
<1>4. used \in Nat /\ Less1(dhcp.t1) \in Nat /\ Less1(dhcp.t2) \in Nat
  BY <1>1 DEF DhcpRecord, Less1
<1>5. d1 \in DhcpRecord /\ d1.state = dhcp.state /\ d1.t0 = dhcp.t0
      /\ d1.lease_used = used /\ d1.t1 = dhcp.t1
  <2> HIDE DEF used
  <2>1. QED
    BY <1>1, <1>4 DEF DhcpRecord
<1>6. d2 \in DhcpRecord /\ d2.state = dhcp.state /\ d2.t0 = dhcp.t0
      /\ d2.lease_used = used
  <2> HIDE DEF used, d1
  <2>1. QED
    BY <1>4, <1>5 DEF DhcpRecord, d2
<1>7. /\ \/ netif' = NoAddr
         \/ /\ UNCHANGED netif /\ ~over
            /\ dhcp'.t0 = dhcp.t0 /\ dhcp'.lease_used = used
            /\ dhcp_supplied_address => dhcp_supplied_address'
      /\ dhcp' \in DhcpRecord /\ faults' \in Nat /\ RepliesKept
      /\ request' \in [type: {"none", "DISCOVER", "REQUEST"}, addr: MaybeAddr]
  <2>1. CASE over /\ Restart
    BY <2>1, RestartClears
  <2>2. CASE ~over /\ dhcp_t2_timeout(d1) /\ UNCHANGED netif
    BY <1>5, <2>2, RenewOrRebind
  <2>3. CASE ~over /\ dhcp_t1_timeout(d2) /\ UNCHANGED netif
    BY <1>6, <2>3, RenewOrRebind
  <2>4. CASE ~over /\ dhcp' = d2 /\ UNCHANGED <<netif, request, replies, faults>>
    BY <1>1, <1>6, <2>4 DEF dhcp_supplied_address, DhcpType, RepliesKept
  <2>5. QED
    BY <2>1, <2>2, <2>3, <2>4 DEF dhcp_coarse_tmr
<1>8. DhcpType'
  BY <1>1, <1>3, <1>7 DEF DhcpType, RepliesKept, MaybeAddr
<1>9. AckIsFresh'
  <2> SUFFICES ASSUME NEW r \in replies', r.type = "ACK"
               PROVE  r.addr \in Addr /\ granted'[r.addr] <= 1
    BY DEF AckIsFresh
  <2>1. r.addr \in Addr /\ granted[r.addr] = 0
    BY <1>2, <1>7 DEF RepliesKept
  <2>2. QED
    BY <1>3, <2>1
<1>10. LeaseCounted'
  <2> SUFFICES ASSUME Up' PROVE LeaseCounted'
    BY DEF LeaseCounted
  <2>1. /\ UNCHANGED netif /\ Up /\ ~over /\ dhcp'.t0 = dhcp.t0 /\ dhcp'.lease_used = used
        /\ dhcp_supplied_address => dhcp_supplied_address'
    BY <1>7 DEF Up
  <2>2. /\ dhcp_supplied_address /\ dhcp.t0 = Lease /\ dhcp.lease_used < Lease
        /\ granted[netif] <= dhcp.lease_used + 1 /\ netif \in Addr
    BY <1>1, <2>1 DEF LeaseCounted, Up, MaybeAddr
  <2>3. used = dhcp.lease_used + 1 /\ used < Lease
    BY <1>1, <2>1, <2>2, LeasePositive DEF DhcpRecord
  <2>4. granted'[netif] <= used + 1
    BY <1>1, <1>3, <2>2, <2>3 DEF DhcpType, DhcpRecord
  <2>5. QED
    BY <2>1, <2>2, <2>3, <2>4 DEF LeaseCounted
<1>11. QED
  BY <1>8, <1>9, <1>10 DEF LeaseInv

-----------------------------------------------------------------------------
(* The lease: the server and the network *)

\* A reply the server adds, an ACK only where `fresh' holds of its address.
LEMMA Replying ==
  ASSUME LeaseInv, NEW type \in {"OFFER", "ACK", "NAK"}, NEW addr \in MaybeAddr,
         Reply(type, addr), UNCHANGED <<dhcp, netif>>, faults' \in Nat,
         granted' \in [Addr -> Nat], \A a \in Addr : granted'[a] <= granted[a],
         type = "ACK" => addr \in Addr /\ granted'[addr] <= 1
  PROVE  LeaseInv'
<1>1. PICK kept \in SUBSET replies :
        replies' = kept \cup {[type |-> type, addr |-> addr, old |-> FALSE]}
  BY DEF Reply
<1>2. DhcpType'
  <2>1. replies' \subseteq ReplyRecord
    <3>1. [type |-> type, addr |-> addr, old |-> FALSE] \in ReplyRecord
      BY Zenon DEF ReplyRecord
    <3>2. QED
      BY <1>1, <3>1 DEF LeaseInv, DhcpType
  <2>2. request' \in [type: {"none", "DISCOVER", "REQUEST"}, addr: MaybeAddr]
    BY DEF Reply, NoMsg, MaybeAddr
  <2>3. QED
    BY <2>1, <2>2 DEF LeaseInv, DhcpType
<1>3. AckIsFresh'
  <2> SUFFICES ASSUME NEW r \in replies', r.type = "ACK"
               PROVE  r.addr \in Addr /\ granted'[r.addr] <= 1
    BY DEF AckIsFresh
  <2>1. CASE r \in replies
    <3>1. r.addr \in Addr /\ granted[r.addr] <= 1 /\ granted[r.addr] \in Nat
      BY <2>1 DEF LeaseInv, AckIsFresh, DhcpType
    <3>2. QED
      BY <3>1
  <2>2. CASE r = [type |-> type, addr |-> addr, old |-> FALSE]
    BY <2>2
  <2>3. QED
    BY <1>1, <2>1, <2>2
<1>4. LeaseCounted'
  <2> SUFFICES ASSUME Up PROVE LeaseCounted'
    BY DEF LeaseCounted, Up
  <2>1. /\ dhcp_supplied_address /\ dhcp.t0 = Lease /\ dhcp.lease_used < Lease
        /\ granted[netif] <= dhcp.lease_used + 1 /\ netif \in Addr
    BY DEF LeaseInv, LeaseCounted, DhcpType, Up, MaybeAddr
  <2>2. granted'[netif] <= dhcp.lease_used + 1
    <3>1. granted[netif] \in Nat /\ granted'[netif] \in Nat /\ dhcp.lease_used \in Nat
      BY <2>1 DEF LeaseInv, DhcpType, DhcpRecord
    <3>2. QED
      BY <2>1, <3>1
  <2>3. QED
    BY <2>1, <2>2 DEF LeaseCounted, dhcp_supplied_address
<1>5. QED
  BY <1>2, <1>3, <1>4 DEF LeaseInv

\* The server answers with leases it grants.
LEMMA ServerKeeps ==
  LeaseInv /\ (ServerOffers \/ ServerGrants \/ ServerRefuses) => LeaseInv'
<1> SUFFICES ASSUME LeaseInv, ServerOffers \/ ServerGrants \/ ServerRefuses
             PROVE  LeaseInv'
  OBVIOUS
<1>1. /\ DhcpType /\ request.addr \in MaybeAddr /\ granted \in [Addr -> Nat]
      /\ faults \in Nat /\ \A a \in Addr : granted[a] \in Nat
  BY DEF LeaseInv, DhcpType
<1>2. CASE ServerOffers
  BY <1>1, <1>2, Replying DEF ServerOffers, MaybeAddr
<1>3. CASE ServerGrants
  <2>1. request.addr \in Addr
    BY <1>1, <1>3 DEF ServerGrants, MaybeAddr
  <2>2. /\ granted' \in [Addr -> Nat] /\ granted'[request.addr] = 0
        /\ \A a \in Addr : granted'[a] <= granted[a]
    BY <1>1, <1>3, <2>1 DEF ServerGrants
  <2>3. QED
    BY <1>1, <1>3, <2>1, <2>2, Replying DEF ServerGrants
<1>4. CASE ServerRefuses
  BY <1>1, <1>4, Replying DEF ServerRefuses, Fault
<1>5. QED
  BY <1>2, <1>3, <1>4

\* A datagram is lost.
LEMMA LossKeeps ==
  LeaseInv /\ (LoseRequest \/ \E r \in replies : LoseReply(r)) => LeaseInv'
<1> SUFFICES ASSUME LeaseInv, LoseRequest \/ \E r \in replies : LoseReply(r)
             PROVE  LeaseInv'
  OBVIOUS
<1>1. DhcpType
  BY DEF LeaseInv
<1>2. RepliesKept /\ UNCHANGED <<dhcp, netif, granted, faults>>
  BY <1>1 DEF LoseRequest, LoseReply, RepliesKept, DhcpType
<1>3. request' \in [type: {"none", "DISCOVER", "REQUEST"}, addr: MaybeAddr]
  BY <1>1 DEF LoseRequest, LoseReply, NoMsg, MaybeAddr, DhcpType
<1>4. QED
  BY <1>1, <1>2, <1>3, LeaseKept DEF DhcpType, dhcp_supplied_address

-----------------------------------------------------------------------------
(* The timeouts of the SNTP client *)

\* A timeout is only forgotten where the other one holds the last element.
LEMMA TimeoutKeeps ==
  ASSUME NEW s \in SntpRecord, NEW handler \in {"request", "retry"},
         handler = "request" => s.request = 0, handler = "retry" => s.retry = 0
  PROVE  LET t == Timeout(s, handler) IN
         /\ t \in SntpRecord /\ t.pcb = s.pcb /\ t.dns = s.dns
         /\ t.request + t.retry >= 1
BY SntpAssumption DEF Timeout, SntpRecord

\* Setting a timeout in place of the one that may be set already.
LEMMA RetimeoutKeeps ==
  ASSUME NEW s \in SntpRecord, NEW handler \in {"request", "retry"}
  PROVE  LET t == Retimeout(s, handler) IN
         /\ t \in SntpRecord /\ t.pcb = s.pcb /\ t.dns = s.dns
         /\ t.request + t.retry >= 1
<1> DEFINE u == Untimeout(s, handler)
<1>1. /\ u \in SntpRecord /\ u.pcb = s.pcb /\ u.dns = s.dns
      /\ handler = "request" => u.request = 0
      /\ handler = "retry" => u.retry = 0
  BY DEF Untimeout, SntpRecord
<1> HIDE DEF u
<1>2. QED
  BY <1>1, TimeoutKeeps DEF Retimeout, u

\* Every handler of the client ends with a timeout or a query of its own making.
LEMMA SntpRetryKeeps ==
  ASSUME NEW s \in SntpRecord, s.pcb, NEW handler \in {"request", "retry"},
         sntp' = Retimeout(s, handler)
  PROVE  ChainInv'
<1>1. /\ sntp' \in SntpRecord /\ sntp'.pcb /\ sntp'.dns \in Nat
      /\ sntp'.request + sntp'.retry >= 1
  BY RetimeoutKeeps DEF SntpRecord
<1>2. sntp'.request \in Nat /\ sntp'.retry \in Nat
  BY <1>1 DEF SntpRecord
<1>3. QED
  BY <1>1, <1>2 DEF ChainInv, SntpRecord

\* A request over SNTP schedules the next one.
LEMMA SendRequestKeeps ==
  ASSUME NEW s \in SntpRecord, s.pcb, NEW up, NEW memory \in BOOLEAN,
         sntp_send_request(s, up, memory)
  PROVE  ChainInv'
BY SntpRetryKeeps DEF sntp_send_request

\* Removing a timeout leaves the others as they are.
LEMMA UntimeoutIsRecord ==
  ASSUME NEW s \in SntpRecord, NEW handler \in {"request", "retry"}
  PROVE  LET t == Untimeout(s, handler)
         IN t \in SntpRecord /\ t.pcb = s.pcb /\ t.dns = s.dns
BY DEF Untimeout, SntpRecord

SntpStep ==
  \/ sntp_init
  \/ \E memory \in BOOLEAN : sntp_request_cached(Up, memory) \/ sntp_dns_found(Up, memory)
  \/ sntp_request_query \/ sntp_request_fails \/ sntp_try_next_server
  \/ sntp_dns_failed \/ sntp_recv_time(Up) \/ sntp_recv_kod(Up)
  \/ TimeServer("time") \/ TimeServer("kod") \/ LoseNtp

\* Every step of SNTP leaves one timeout or one request in progress.
LEMMA SntpStepKeeps == ChainInv /\ SntpStep => ChainInv'
<1> SUFFICES ASSUME ChainInv, SntpStep PROVE ChainInv'
  OBVIOUS
<1>1. sntp \in SntpRecord /\ sntp.request \in {0, 1} /\ sntp.retry \in {0, 1} /\ sntp.dns \in Nat
  BY DEF ChainInv, SntpRecord
<1>2. sntp.request > 0 \/ sntp.retry > 0 \/ sntp.dns > 0 \/ ntp # "none" => sntp.pcb
  BY <1>1 DEF ChainInv
<1>3. ASSUME sntp.dns > 0
      PROVE  LET s == [sntp EXCEPT !.dns = @ - 1] IN s \in SntpRecord /\ s.pcb = sntp.pcb
  BY <1>1, <1>3 DEF SntpRecord
<1>4. CASE sntp_init
  <2>1. CASE sntp.pcb
    BY <1>4, <2>1 DEF sntp_init, ChainInv
  <2>2. CASE ~sntp.pcb
    <3>1. sntp.request = 0 /\ sntp.retry = 0 /\ sntp.dns = 0
      BY <2>2 DEF ChainInv
    <3> DEFINE t == Timeout(sntp, "request")
    <3>2. t \in SntpRecord /\ t.dns \in Nat /\ t.request + t.retry >= 1
      BY <1>1, <3>1, TimeoutKeeps
    <3>3. sntp' = [t EXCEPT !.pcb = TRUE]
      BY <1>4, <2>2 DEF sntp_init
    <3> HIDE DEF t
    <3>4. /\ sntp' \in SntpRecord /\ sntp'.pcb /\ sntp'.request = t.request
          /\ sntp'.retry = t.retry /\ sntp'.dns = t.dns
      BY <3>2, <3>3 DEF SntpRecord
    <3>5. QED
      BY <3>2, <3>4 DEF ChainInv, SntpRecord
  <2>3. QED
    BY <2>1, <2>2
<1>5. ASSUME NEW memory \in BOOLEAN, sntp_request_cached(Up, memory)
      PROVE  ChainInv'
  BY <1>1, <1>2, <1>5, UntimeoutIsRecord, SendRequestKeeps DEF sntp_request_cached
<1>6. ASSUME NEW memory \in BOOLEAN, sntp_dns_found(Up, memory)
      PROVE  ChainInv'
  BY <1>2, <1>3, <1>6, SendRequestKeeps DEF sntp_dns_found
<1>7. CASE sntp_request_query
  <2> DEFINE s == Untimeout(sntp, "request")
  <2>1. s \in SntpRecord /\ s.pcb /\ s.dns \in Nat
    BY <1>1, <1>2, <1>7, UntimeoutIsRecord DEF sntp_request_query
  <2>2. sntp' = [s EXCEPT !.dns = @ + 1]
    BY <1>7 DEF sntp_request_query
  <2> HIDE DEF s
  <2>3. sntp' \in SntpRecord /\ sntp'.pcb /\ sntp'.dns >= 1
    BY <2>1, <2>2 DEF SntpRecord
  <2>4. QED
    BY <2>3 DEF ChainInv, SntpRecord
<1>8. CASE sntp_request_fails
  BY <1>1, <1>2, <1>8, UntimeoutIsRecord, SntpRetryKeeps DEF sntp_request_fails
<1>9. CASE sntp_try_next_server
  BY <1>1, <1>2, <1>9, UntimeoutIsRecord, SntpRetryKeeps DEF sntp_try_next_server, sntp_retry
<1>10. CASE sntp_dns_failed
  BY <1>2, <1>3, <1>10, SntpRetryKeeps DEF sntp_dns_failed, sntp_retry
<1>11. CASE sntp_recv_time(Up)
  BY <1>1, <1>2, <1>11, UntimeoutIsRecord, SntpRetryKeeps DEF sntp_recv_time, AfterAnswer
<1>12. CASE sntp_recv_kod(Up)
  BY <1>1, <1>2, <1>12, SntpRetryKeeps DEF sntp_recv_kod, sntp_retry
<1>13. CASE TimeServer("time") \/ TimeServer("kod") \/ LoseNtp
  BY <1>2, <1>13 DEF TimeServer, LoseNtp, ChainInv
<1>14. QED
  BY <1>4, <1>5, <1>6, <1>7, <1>8, <1>9, <1>10, <1>11, <1>12, <1>13 DEF SntpStep

-----------------------------------------------------------------------------
(* The theorems *)

\* The strengthening of AddressHasLease and SntpChain that every step keeps.
THEOREM NetworkInvariant == Spec => []NetworkInv
<1>1. Init => NetworkInv
  <2> SUFFICES ASSUME Init PROVE NetworkInv
    OBVIOUS
  <2>1. DhcpType
    BY ClearedIsRecord, LeasePositive
    DEF Init, DhcpInit, DhcpType, NoMsg, MaybeAddr
  <2>2. AckIsFresh /\ LeaseCounted
    BY DEF Init, DhcpInit, AckIsFresh, LeaseCounted, Up
  <2>3. ChainInv
    <3>1. sntp \in SntpRecord
      BY DEF Init, SntpInit, SntpRecord
    <3>2. ~sntp.pcb /\ sntp.request = 0 /\ sntp.retry = 0 /\ sntp.dns = 0 /\ ntp = "none"
      BY DEF Init, SntpInit
    <3>3. QED
      BY <3>1, <3>2 DEF ChainInv
  <2>4. QED
    BY <2>1, <2>2, <2>3 DEF NetworkInv, LeaseInv
<1>2. NetworkInv /\ [Next]_vars => NetworkInv'
  <2> SUFFICES ASSUME LeaseInv, ChainInv, [Next]_vars PROVE LeaseInv' /\ ChainInv'
    BY DEF NetworkInv
  <2>1. ASSUME dhcpIdle PROVE LeaseInv'
    BY <2>1 DEF dhcpIdle, dhcpVars, LeaseInv, DhcpType, AckIsFresh, LeaseCounted, Up,
                dhcp_supplied_address
  <2>2. ASSUME sntpIdle PROVE ChainInv'
    BY <2>2 DEF sntpIdle, sntpVars, ChainInv
  <2>3. CASE Start \/ Offer \/ Ack \/ Nak \/ FineTmr \/ Minute
    BY <2>2, <2>3, StartKeeps, OfferKeeps, AckKeeps, NakKeeps, FineKeeps, CoarseKeeps
    DEF Start, Offer, Ack, Nak, FineTmr, Minute
  <2>4. CASE Offers \/ Grants \/ Refuses \/ Expires \/ Loses
    BY <2>2, <2>4, ServerKeeps, LossKeeps DEF Offers, Grants, Refuses, Expires, Loses
  <2>5. CASE SntpStep /\ dhcpIdle
    BY <2>1, <2>5, SntpStepKeeps
  <2>6. CASE UNCHANGED vars
    BY <2>1, <2>2, <2>6 DEF vars, dhcpIdle, sntpIdle
  <2>7. \/ print_dhcp_state \/ Sends(TRUE) \/ Sends(FALSE) \/ Queries \/ NoName \/ Retries
        \/ NotFound \/ SetsTime \/ Kod \/ Tells("time") \/ Tells("kod") \/ LosesNtp
        => SntpStep /\ dhcpIdle
    BY DEF print_dhcp_state, Sends, Queries, NoName, Retries, NotFound, SetsTime, Kod,
           Tells, LosesNtp, SntpStep
  <2>8. QED
    BY <2>3, <2>4, <2>5, <2>6, <2>7 DEF Next
<1>3. QED
  BY <1>1, <1>2, PTL DEF Spec

\* dhcp.c: the interface never holds an address whose lease has run out or that
\* was refused, for any addresses, lease times, losses, duplicates and faults.
THEOREM AddressAlwaysLeased == Spec => []AddressHasLease
<1>1. NetworkInv => AddressHasLease
  <2> SUFFICES ASSUME NetworkInv, Up
               PROVE  dhcp_supplied_address /\ granted[netif] <= Lease
    BY DEF AddressHasLease
  <2>1. /\ dhcp_supplied_address /\ dhcp.lease_used < Lease
        /\ granted[netif] <= dhcp.lease_used + 1 /\ netif \in Addr
    BY DEF NetworkInv, LeaseInv, LeaseCounted, DhcpType, Up, MaybeAddr
  <2>2. dhcp.lease_used \in Nat /\ granted[netif] \in Nat /\ Lease \in Nat
    BY <2>1, LeasePositive DEF NetworkInv, LeaseInv, DhcpType, DhcpRecord
  <2>3. QED
    BY <2>1, <2>2
<1>2. QED
  BY <1>1, NetworkInvariant, PTL

\* sntp.c: whatever answers come late, twice or never, and however few timeouts
\* the pool has to spare, the client has one chain of requests and never loses it.
THEOREM SntpChainNeverBreaks == Spec => []SntpChain
<1>1. NetworkInv => SntpChain
  BY DEF NetworkInv, ChainInv, SntpChain, SntpRecord
<1>2. QED
  BY <1>1, NetworkInvariant, PTL
=============================================================================
