---------------------------- MODULE NalPortLogic ----------------------------
(***************************************************************************)
(* pPortAndResetLogic of hss.cpp (lines 282-596): the NAL process that     *)
(* keeps the UDP and TCP listen ports of the role, and the FMC listen      *)
(* port, open in the UDP and TCP offload engines (UOE, TOE), and that      *)
(* reacts to the role being decoupled or layer 4 being disabled.           *)
(*                                                                         *)
(* One invocation is one action, PortLogic, that runs the code's blocks in *)
(* order on a record st of the process's static variables.  The ports the  *)
(* role asks for are a bitmap over PortBits relative ports (the code uses *)
(* ap_uint<32>; every value here stays below 2^PortBits, so arithmetic    *)
(* modulo 2^PortBits gives the same bits).  The MMIO inputs, the config   *)
(* updates, pUdpLsn/pUdpCls with the UOE, pTcpLsn with the TOE, and the   *)
(* session table that reads the mark requests are environment.  Listen    *)
(* requests and feedbacks carry ghost fields naming the request.           *)
(***************************************************************************)
EXTENDS Naturals, Sequences, Bitwise

CONSTANTS
  PortBits,    \* relative ports 0 .. PortBits-1 in pi_udp/tcp_rx_ports
  MinPort,     \* NAL_RX_MIN_PORT
  FmcPorts,    \* values piMMIO_FmcLsnPort takes
  StabTime,    \* the reset value of mmio_stabilize_counter
  Depth,       \* depth of each FIFO
  MaxEnvOps,   \* bound: input changes and config updates in a run
  MaxNacks     \* bound: listen requests the offload engines refuse

VARIABLES
  st,          \* the static variables of pPortAndResetLogic
  in,          \* the MMIO inputs
  cfgQ,        \* sConfigUpdate
  udpOpenQ,    \* sUdpPortsToOpen
  udpCloseQ,   \* sUdpPortsToClose
  udpFbQ,      \* sUdpPortsOpenFeedback
  tcpOpenQ,    \* sTcpPortsToOpen
  tcpFbQ,      \* sTcpPortsOpenFeedback
  markQ,       \* sMarkToDel_unpriv
  clsStart,    \* *start_tcp_cls_fsm written in the last invocation
  cacheInval,  \* *detected_cache_invalidation written in the last invocation
  uoeOpen,     \* environment: UDP ports the UOE has open
  toeListen,   \* environment: TCP ports the TOE listens on
  envOps,      \* environment: input changes and config updates so far
  nacks        \* environment: refused listen requests so far

plVars  == <<st, cfgQ, udpOpenQ, udpCloseQ, udpFbQ, tcpOpenQ, tcpFbQ, markQ,
             clsStart, cacheInval>>
envVars == <<in, uoeOpen, toeListen, envOps, nacks>>
vars    == <<plVars, envVars>>

Bitmap == 0 .. 2 ^ PortBits - 1
Bit(n, i) == (n \div 2 ^ i) % 2

\* Lines 309-337: the reset values.
StInit ==
  [processed_FMC_listen_port    |-> 0,
   fmc_port_opened              |-> FALSE,
   tcp_rx_ports_processed       |-> 0,
   pr_was_done_flag             |-> FALSE,
   udp_rx_ports_processed       |-> 0,
   wait_for_udp_port_open       |-> FALSE,
   wait_for_tcp_port_open       |-> FALSE,
   need_write_sMarkToDel_unpriv |-> FALSE,
   mmio_stabilize_counter       |-> StabTime,
   new_relative_port_to_req_udp |-> 0,
   new_relative_port_to_req_tcp |-> 0]

Inputs ==
  [layer_4_enabled : {0, 1}, layer_7_enabled : {0, 1},
   role_decoupled : {0, 1}, piNTS_ready : {0, 1},
   piMMIO_FmcLsnPort : FmcPorts,
   pi_udp_rx_ports : Bitmap, pi_tcp_rx_ports : Bitmap]

Init ==
  /\ st = StInit
  /\ in \in Inputs
  /\ cfgQ = <<>> /\ udpOpenQ = <<>> /\ udpCloseQ = <<>> /\ udpFbQ = <<>>
  /\ tcpOpenQ = <<>> /\ tcpFbQ = <<>> /\ markQ = <<>>
  /\ clsStart = FALSE /\ cacheInval = FALSE
  /\ uoeOpen = {} /\ toeListen = {}
  /\ envOps = 0 /\ nacks = 0

-----------------------------------------------------------------------------
(***************************************************************************)
(* getRightmostBitPos, nal.cpp lines 67-84: one_hot = num & -num, then the *)
(* number of right shifts until one_hot <= 1.  It returns 0 for 0 as for 1.*)
(***************************************************************************)
OneHot(num) == num & ((2 ^ PortBits - num) % 2 ^ PortBits)

RECURSIVE ShiftCount(_)
ShiftCount(oneHot) == IF oneHot <= 1 THEN 0 ELSE 1 + ShiftCount(oneHot \div 2)

\* Fault variant: the shift loop is run on num itself, not on num & -num.
getRightmostBitPosNoOneHot(num) == ShiftCount(num)

getRightmostBitPos(num) == ShiftCount(OneHot(num))

\* Line 422-423: x &= ~(1 << p), on PortBits bits.
ClearBit(x, p) == x & ((2 ^ PortBits - 1) - 2 ^ p)

(***************************************************************************)
(* Lines 417-426: the close loop.  It writes a close request for the      *)
(* rightmost port and clears its bit while the rightmost bit position is  *)
(* not 0.                                                                  *)
(***************************************************************************)
RECURSIVE CloseLoop(_)
CloseLoop(ports) ==
  LET p == getRightmostBitPos(ports) IN
  IF p = 0 THEN <<>>
  ELSE <<MinPort + p>> \o CloseLoop(ClearBit(ports, p))

-----------------------------------------------------------------------------
\* Lines 344-363: one config update restores a processed port value.
CfgApplied(s) ==
  IF cfgQ = <<>> THEN s
  ELSE LET ca == Head(cfgQ) IN
       CASE ca.config_addr = "SAVED_FMC_PORTS"
              -> [s EXCEPT !.processed_FMC_listen_port = ca.update_value % 2 ^ 16]
         [] ca.config_addr = "SAVED_UDP_PORTS"
              -> [s EXCEPT !.udp_rx_ports_processed = ca.update_value]
         [] ca.config_addr = "SAVED_TCP_PORTS"
              -> [s EXCEPT !.tcp_rx_ports_processed = ca.update_value]
         [] OTHER -> s

\* Lines 386-404: layer 4 disabled forgets every processed port.
Layer4Reset(s) ==
  IF in.layer_4_enabled = 1 THEN s
  ELSE [s EXCEPT !.processed_FMC_listen_port = 0,
                 !.udp_rx_ports_processed = 0,
                 !.tcp_rx_ports_processed = 0,
                 !.need_write_sMarkToDel_unpriv = FALSE]

RoleDown == in.layer_7_enabled = 0 \/ in.role_decoupled = 1
NtsUp    == in.layer_4_enabled = 1 /\ in.piNTS_ready = 1

(***************************************************************************)
(* Lines 406-460: the role is down.  With the NTS up, the UDP ports are   *)
(* closed by the close loop and, if TCP ports were open, a mark for       *)
(* deletion is owed and the close FSM is started (or, during a partial     *)
(* reconfiguration, remembered); then both bitmaps are cleared.           *)
(***************************************************************************)
TcpSessionsOwned(s) == RoleDown /\ NtsUp /\ s.tcp_rx_ports_processed > 0

Closes(s) ==
  IF RoleDown /\ NtsUp /\ s.udp_rx_ports_processed > 0
    THEN CloseLoop(s.udp_rx_ports_processed) ELSE <<>>

RoleDownApplied(s) ==
  IF ~RoleDown THEN s
  ELSE [s EXCEPT !.udp_rx_ports_processed = 0,
                 !.tcp_rx_ports_processed = 0,
                 !.need_write_sMarkToDel_unpriv = @ \/ TcpSessionsOwned(s),
                 !.pr_was_done_flag = @ \/ in.role_decoupled = 1]

\* Lines 461-473: after a partial reconfiguration the close FSM is started.
PrDoneApplied(s) ==
  IF s.pr_was_done_flag /\ in.role_decoupled = 0
    THEN [s EXCEPT !.pr_was_done_flag = FALSE] ELSE s

(***************************************************************************)
(* Lines 481-513: UDP.  While the processed ports differ from the role's  *)
(* and nothing is awaited, ask for the rightmost missing port; else, when *)
(* the awaited feedback is there, record the port if it was opened.       *)
(***************************************************************************)
UdpAsk(s) ==
  /\ NtsUp
  /\ s.udp_rx_ports_processed # in.pi_udp_rx_ports
  /\ in.layer_7_enabled = 1 /\ in.role_decoupled = 0
  /\ ~s.wait_for_udp_port_open
  /\ Len(udpOpenQ) < Depth

\* Fault variant: the difference taken with & instead of ^.
UdpDiffAnd(s) ==
  LET p == s.udp_rx_ports_processed IN p & (p | in.pi_udp_rx_ports)

UdpDiff(s) ==
  LET p == s.udp_rx_ports_processed IN p ^^ (p | in.pi_udp_rx_ports)

UdpRequest(s) == UdpAsk(s) /\ UdpDiff(s) # 0

UdpFeedback(s) ==
  NtsUp /\ ~UdpAsk(s) /\ s.wait_for_udp_port_open /\ udpFbQ # <<>>

\* Fault variant: an opened port is added to the bitmap, not or-ed in.
UdpAppliedAddsBit(s) ==
  CASE UdpRequest(s)
         -> [s EXCEPT !.wait_for_udp_port_open = TRUE,
                      !.new_relative_port_to_req_udp = getRightmostBitPos(UdpDiff(s))]
    [] UdpFeedback(s)
         -> [s EXCEPT !.udp_rx_ports_processed =
                        IF Head(udpFbQ).ok
                          THEN @ + 2 ^ s.new_relative_port_to_req_udp ELSE @,
                      !.wait_for_udp_port_open = FALSE]
    [] OTHER -> s

UdpApplied(s) ==
  CASE UdpRequest(s)
         -> [s EXCEPT !.wait_for_udp_port_open = TRUE,
                      !.new_relative_port_to_req_udp = getRightmostBitPos(UdpDiff(s))]
    [] UdpFeedback(s)
         -> [s EXCEPT !.udp_rx_ports_processed =
                        IF Head(udpFbQ).ok
                          THEN @ | 2 ^ s.new_relative_port_to_req_udp ELSE @,
                      !.wait_for_udp_port_open = FALSE]
    [] OTHER -> s

(***************************************************************************)
(* Lines 515-580: TCP, an else-if chain.  A changed FMC port is asked for *)
(* once mmio_stabilize_counter has run down; else a missing role port is  *)
(* asked for; else the feedback is taken as the FMC port's while          *)
(* fmc_port_opened is FALSE, and as the role port's otherwise.             *)
(***************************************************************************)
FmcAsk(s) ==
  /\ NtsUp
  /\ s.processed_FMC_listen_port # in.piMMIO_FmcLsnPort
  /\ ~s.wait_for_tcp_port_open
  /\ Len(tcpOpenQ) < Depth

FmcRequest(s) == FmcAsk(s) /\ s.mmio_stabilize_counter = 0

TcpAsk(s) ==
  /\ NtsUp /\ ~FmcAsk(s)
  /\ s.tcp_rx_ports_processed # in.pi_tcp_rx_ports
  /\ in.layer_7_enabled = 1 /\ in.role_decoupled = 0
  /\ ~s.wait_for_tcp_port_open
  /\ Len(tcpOpenQ) < Depth

TcpDiff(s) ==
  LET p == s.tcp_rx_ports_processed IN p ^^ (p | in.pi_tcp_rx_ports)

TcpRequest(s) == TcpAsk(s) /\ TcpDiff(s) # 0

FmcFeedback(s) ==
  /\ NtsUp /\ ~FmcAsk(s) /\ ~TcpAsk(s)
  /\ s.wait_for_tcp_port_open /\ ~s.fmc_port_opened /\ tcpFbQ # <<>>

TcpFeedback(s) ==
  /\ NtsUp /\ ~FmcAsk(s) /\ ~TcpAsk(s) /\ ~FmcFeedback(s)
  /\ s.wait_for_tcp_port_open /\ tcpFbQ # <<>>

\* Fault variant: a role request leaves new_relative_port_to_req_tcp as it was.
TcpAppliedStaleRel(s) ==
  CASE FmcRequest(s)
         -> [s EXCEPT !.fmc_port_opened = FALSE,
                      !.mmio_stabilize_counter = StabTime,
                      !.wait_for_tcp_port_open = TRUE]
    [] FmcAsk(s) /\ s.mmio_stabilize_counter # 0
         -> [s EXCEPT !.mmio_stabilize_counter = @ - 1]
    [] TcpRequest(s)
         -> [s EXCEPT !.wait_for_tcp_port_open = TRUE]
    [] FmcFeedback(s)
         -> [s EXCEPT !.processed_FMC_listen_port =
                        IF Head(tcpFbQ).ok THEN in.piMMIO_FmcLsnPort ELSE @,
                      !.fmc_port_opened = @ \/ Head(tcpFbQ).ok,
                      !.wait_for_tcp_port_open = FALSE]
    [] TcpFeedback(s)
         -> [s EXCEPT !.tcp_rx_ports_processed =
                        IF Head(tcpFbQ).ok
                          THEN @ | 2 ^ s.new_relative_port_to_req_tcp ELSE @,
                      !.wait_for_tcp_port_open = FALSE]
    [] OTHER -> s

TcpApplied(s) ==
  CASE FmcRequest(s)
         -> [s EXCEPT !.fmc_port_opened = FALSE,
                      !.mmio_stabilize_counter = StabTime,
                      !.wait_for_tcp_port_open = TRUE]
    [] FmcAsk(s) /\ s.mmio_stabilize_counter # 0
         -> [s EXCEPT !.mmio_stabilize_counter = @ - 1]
    [] TcpRequest(s)
         -> [s EXCEPT !.new_relative_port_to_req_tcp = getRightmostBitPos(TcpDiff(s)),
                      !.wait_for_tcp_port_open = TRUE]
    [] FmcFeedback(s)
         -> [s EXCEPT !.processed_FMC_listen_port =
                        IF Head(tcpFbQ).ok THEN in.piMMIO_FmcLsnPort ELSE @,
                      !.fmc_port_opened = @ \/ Head(tcpFbQ).ok,
                      !.wait_for_tcp_port_open = FALSE]
    [] TcpFeedback(s)
         -> [s EXCEPT !.tcp_rx_ports_processed =
                        IF Head(tcpFbQ).ok
                          THEN @ | 2 ^ s.new_relative_port_to_req_tcp ELSE @,
                      !.wait_for_tcp_port_open = FALSE]
    [] OTHER -> s

\* Lines 584-588: the owed mark for deletion is written when there is room.
MarkWritten(s) == s.need_write_sMarkToDel_unpriv /\ Len(markQ) < Depth

MarkApplied(s) ==
  IF MarkWritten(s) THEN [s EXCEPT !.need_write_sMarkToDel_unpriv = FALSE] ELSE s

(***************************************************************************)
(* One invocation of pPortAndResetLogic, lines 303-596: the blocks above  *)
(* in the code's order, each on the statics the previous one left.  The    *)
(* close loop's writes are blocking, so the invocation waits for room for  *)
(* all of them.  The status outputs (lines 591-593) copy the bitmaps and   *)
(* are not kept.  Each stage is bound once, as a value, with \E over a     *)
(* singleton.                                                              *)
(***************************************************************************)
AfterReset == Layer4Reset(CfgApplied(st))
BeforeUdp  == PrDoneApplied(RoleDownApplied(AfterReset))
BeforeTcp  == UdpApplied(BeforeUdp)

PortLogic ==
  \E s1 \in {AfterReset} : \E s3 \in {RoleDownApplied(s1)} :
  \E s4 \in {PrDoneApplied(s3)} : \E s5 \in {UdpApplied(s4)} :
  \E s6 \in {TcpApplied(s5)} :
  /\ Len(udpCloseQ) + Len(Closes(s1)) <= Depth
  /\ st' = MarkApplied(s6)
  /\ cfgQ' = IF cfgQ # <<>> THEN Tail(cfgQ) ELSE cfgQ
  /\ udpCloseQ' = udpCloseQ \o Closes(s1)
  /\ udpOpenQ' =
       IF UdpRequest(s4)
         THEN Append(udpOpenQ, MinPort + getRightmostBitPos(UdpDiff(s4)))
         ELSE udpOpenQ
  /\ udpFbQ' = IF UdpFeedback(s4) THEN Tail(udpFbQ) ELSE udpFbQ
  /\ tcpOpenQ' =
       CASE FmcRequest(s5)
              -> Append(tcpOpenQ, [port |-> in.piMMIO_FmcLsnPort, origin |-> "FMC"])
         [] TcpRequest(s5)
              -> Append(tcpOpenQ, [port   |-> MinPort + getRightmostBitPos(TcpDiff(s5)),
                                   origin |-> "ROLE"])
         [] OTHER -> tcpOpenQ
  /\ tcpFbQ' = IF FmcFeedback(s5) \/ TcpFeedback(s5) THEN Tail(tcpFbQ) ELSE tcpFbQ
  /\ markQ' = IF MarkWritten(s6) THEN Append(markQ, TRUE) ELSE markQ
  /\ clsStart' = ((TcpSessionsOwned(s1) /\ in.role_decoupled = 0)
                  \/ (s3.pr_was_done_flag /\ in.role_decoupled = 0))
  /\ cacheInval' = (in.layer_4_enabled = 0 \/ (RoleDown /\ in.role_decoupled = 0))
  /\ UNCHANGED envVars

-----------------------------------------------------------------------------
(***************************************************************************)
(* Environment.  The MMIO inputs change one at a time; disabling layer 4   *)
(* holds the NTS in reset, which forgets every open port.  The host's      *)
(* saved ports arrive as config updates.                                   *)
(***************************************************************************)
Flags == {"layer_4_enabled", "layer_7_enabled", "role_decoupled", "piNTS_ready"}

ChangeInput ==
  /\ envOps < MaxEnvOps
  /\ \/ \E f \in Flags : in' = [in EXCEPT ![f] = 1 - @]
     \/ \E p \in FmcPorts \ {in.piMMIO_FmcLsnPort} :
          in' = [in EXCEPT !.piMMIO_FmcLsnPort = p]
     \/ \E f \in {"pi_udp_rx_ports", "pi_tcp_rx_ports"}, b \in Bitmap :
          b # in[f] /\ in' = [in EXCEPT ![f] = b]
  /\ envOps' = envOps + 1
  /\ IF in'.layer_4_enabled = 0
       THEN uoeOpen' = {} /\ toeListen' = {}
       ELSE UNCHANGED <<uoeOpen, toeListen>>
  /\ UNCHANGED <<plVars, nacks>>

SendConfig ==
  /\ envOps < MaxEnvOps
  /\ Len(cfgQ) < Depth
  /\ \/ \E v \in FmcPorts :
          cfgQ' = Append(cfgQ, [config_addr |-> "SAVED_FMC_PORTS", update_value |-> v])
     \/ \E a \in {"SAVED_UDP_PORTS", "SAVED_TCP_PORTS"}, v \in Bitmap :
          cfgQ' = Append(cfgQ, [config_addr |-> a, update_value |-> v])
  /\ envOps' = envOps + 1
  /\ UNCHANGED <<st, udpOpenQ, udpCloseQ, udpFbQ, tcpOpenQ, tcpFbQ, markQ,
                 clsStart, cacheInval, in, uoeOpen, toeListen, nacks>>

\* An offload engine answers a listen request; it may refuse MaxNacks times.
Answer(ok) == ok \/ nacks < MaxNacks
Refused(ok) == nacks' = IF ok THEN nacks ELSE nacks + 1

\* pUdpLsn and the UOE.
UoeListen ==
  /\ NtsUp /\ udpOpenQ # <<>> /\ Len(udpFbQ) < Depth
  /\ \E ok \in BOOLEAN :
       /\ Answer(ok) /\ Refused(ok)
       /\ udpFbQ' = Append(udpFbQ, [ok |-> ok, port |-> Head(udpOpenQ)])
       /\ uoeOpen' = IF ok THEN uoeOpen \cup {Head(udpOpenQ)} ELSE uoeOpen
  /\ udpOpenQ' = Tail(udpOpenQ)
  /\ UNCHANGED <<st, cfgQ, udpCloseQ, tcpOpenQ, tcpFbQ, markQ, clsStart,
                 cacheInval, in, toeListen, envOps>>

\* pUdpCls and the UOE.
UoeClose ==
  /\ NtsUp /\ udpCloseQ # <<>>
  /\ uoeOpen' = uoeOpen \ {Head(udpCloseQ)}
  /\ udpCloseQ' = Tail(udpCloseQ)
  /\ UNCHANGED <<st, cfgQ, udpOpenQ, udpFbQ, tcpOpenQ, tcpFbQ, markQ, clsStart,
                 cacheInval, in, toeListen, envOps, nacks>>

\* pTcpLsn and the TOE.
ToeListen ==
  /\ NtsUp /\ tcpOpenQ # <<>> /\ Len(tcpFbQ) < Depth
  /\ \E ok \in BOOLEAN :
       /\ Answer(ok) /\ Refused(ok)
       /\ tcpFbQ' = Append(tcpFbQ, [ok     |-> ok, port |-> Head(tcpOpenQ).port,
                                  origin |-> Head(tcpOpenQ).origin])
       /\ toeListen' = IF ok THEN toeListen \cup {Head(tcpOpenQ).port}
                       ELSE toeListen
  /\ tcpOpenQ' = Tail(tcpOpenQ)
  /\ UNCHANGED <<st, cfgQ, udpOpenQ, udpCloseQ, udpFbQ, markQ, clsStart,
                 cacheInval, in, uoeOpen, envOps>>

\* pTcpAgency reads the mark requests.
TableReadsMark ==
  /\ markQ # <<>>
  /\ markQ' = Tail(markQ)
  /\ UNCHANGED <<st, cfgQ, udpOpenQ, udpCloseQ, udpFbQ, tcpOpenQ, tcpFbQ,
                 clsStart, cacheInval, envVars>>

Environment == ChangeInput \/ SendConfig \/ UoeListen \/ UoeClose \/ ToeListen
               \/ TableReadsMark

Next == PortLogic \/ Environment

(***************************************************************************)
(* pPortAndResetLogic runs on every clock; pUdpLsn, pUdpCls, pTcpLsn and  *)
(* the table serve their FIFOs.  The MMIO inputs need not change.         *)
(***************************************************************************)
Spec ==
  /\ Init /\ [][Next]_vars
  /\ WF_vars(PortLogic)
  /\ WF_vars(UoeListen) /\ WF_vars(UoeClose) /\ WF_vars(ToeListen)
  /\ WF_vars(TableReadsMark)

-----------------------------------------------------------------------------
TypeOK ==
  /\ st.udp_rx_ports_processed \in Bitmap
  /\ st.tcp_rx_ports_processed \in Bitmap
  /\ st.processed_FMC_listen_port \in {0} \cup FmcPorts
  /\ st.mmio_stabilize_counter \in 0 .. StabTime
  /\ st.new_relative_port_to_req_udp \in 0 .. PortBits - 1
  /\ st.new_relative_port_to_req_tcp \in 0 .. PortBits - 1
  /\ in \in Inputs

\* The lowest set bit of n > 0, by its definition.
LowestSetBit(n) == CHOOSE i \in 0 .. PortBits - 1 :
                     Bit(n, i) = 1 /\ \A j \in 0 .. i - 1 : Bit(n, j) = 0

(***************************************************************************)
(* getRightmostBitPos (nal.cpp 67-84) returns the position of the lowest   *)
(* set bit: the two's-complement one-hot and the shift loop agree with the *)
(* definition on every non-zero bitmap the process applies it to, the UDP  *)
(* and TCP differences and the processed UDP ports of the close loop.     *)
(***************************************************************************)
BitPosCorrect ==
  \A n \in {UdpDiff(st), TcpDiff(st), st.udp_rx_ports_processed} \ {0} :
    getRightmostBitPos(n) = LowestSetBit(n)

(***************************************************************************)
(* One port request in flight per offload engine, and it is the one the    *)
(* statics record: while wait_for_udp_port_open is set, exactly one UDP    *)
(* request or its feedback is between pPortAndResetLogic and the UOE, and  *)
(* it is for MinPort + new_relative_port_to_req_udp, the bit a positive    *)
(* feedback will set; with the flag clear there is none.  For TCP the same *)
(* holds of wait_for_tcp_port_open, and a role request is for             *)
(* MinPort + new_relative_port_to_req_tcp.                                 *)
(***************************************************************************)
UdpInFlight == [i \in 1 .. Len(udpOpenQ) |-> udpOpenQ[i]]
               \o [i \in 1 .. Len(udpFbQ) |-> udpFbQ[i].port]
TcpInFlight == [i \in 1 .. Len(tcpOpenQ) |-> tcpOpenQ[i]]
               \o [i \in 1 .. Len(tcpFbQ) |-> [port   |-> tcpFbQ[i].port,
                                                origin |-> tcpFbQ[i].origin]]

InFlightMatchesRecord ==
  /\ UdpInFlight = IF st.wait_for_udp_port_open
                     THEN <<MinPort + st.new_relative_port_to_req_udp>> ELSE <<>>
  /\ Len(TcpInFlight) = IF st.wait_for_tcp_port_open THEN 1 ELSE 0
  /\ \A i \in DOMAIN TcpInFlight :
       TcpInFlight[i].origin = "ROLE"
         => TcpInFlight[i].port = MinPort + st.new_relative_port_to_req_tcp

(***************************************************************************)
(* The requested ports get opened: once the MMIO inputs have settled with  *)
(* the NTS up and the role running, the processed bitmaps come to cover    *)
(* every port the role asks for, and the processed FMC port to equal the   *)
(* MMIO one; refused requests are retried.  Once envOps reaches MaxEnvOps  *)
(* the inputs no longer change.                                            *)
(***************************************************************************)
RoleUp == NtsUp /\ in.layer_7_enabled = 1 /\ in.role_decoupled = 0

Served ==
  /\ (st.udp_rx_ports_processed | in.pi_udp_rx_ports) = st.udp_rx_ports_processed
  /\ (st.tcp_rx_ports_processed | in.pi_tcp_rx_ports) = st.tcp_rx_ports_processed
  /\ st.processed_FMC_listen_port = in.piMMIO_FmcLsnPort

RequestedPortsOpen == (RoleUp /\ envOps = MaxEnvOps) ~> Served
=============================================================================
