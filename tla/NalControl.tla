------------------------------ MODULE NalControl ------------------------------
(***************************************************************************)
(* The control plane of the NAL: axi4liteProcessing of hss.cpp, which     *)
(* sweeps the host's ctrlLink memory (config words, status words and the  *)
(* Message Routing Table, MRT) one address per invocation and serves the  *)
(* MRT lookups; pStatusMemory of nal.cpp, which keeps the counters and    *)
(* the status words and publishes changed words one at a time; and        *)
(* eventFifoMerge, which merges the four internal event FIFOs.            *)
(*                                                                         *)
(* They are connected as nal_main connects them: eventFifoMerge feeds     *)
(* pStatusMemory through merged_fifo, axi4liteProcessing sends rank       *)
(* updates to pStatusMemory (sToStatusProc) and pStatusMemory sends       *)
(* status updates back (sStatusUpdate).  The process that forwards        *)
(* mrt_version_processed into mrt_version_update, the port logic, the     *)
(* rank receivers, the lookup clients, the event producers and the host  *)
(* are environment.                                                        *)
(***************************************************************************)
EXTENDS Naturals, Sequences

CONSTANTS
  MrtSize,          \* MAX_MRT_SIZE
  NumConfig,        \* NUMBER_CONFIG_WORDS
  NumStatus,        \* NUMBER_STATUS_WORDS
  CfgOwnRank,       \* NAL_CONFIG_OWN_RANK
  CfgMrtVersion,    \* NAL_CONFIG_MRT_VERSION
  CfgSavedPorts,    \* NAL_CONFIG_SAVED_{FMC,TCP,UDP}_PORTS
  StOwnRank,        \* NAL_STATUS_OWN_RANK
  StMrtVersion,     \* NAL_STATUS_MRT_VERSION
  StUdpPorts,       \* NAL_STATUS_OPEN_UDP_PORTS
  StPacketCntRx,    \* NAL_STATUS_PACKET_CNT_RX
  IpChannels,       \* the sGetIpReq_* clients
  NidChannels,      \* the sGetNidReq_* clients
  InvalidNid,       \* INVALID_MRT_VALUE
  Values,           \* non-zero values the host, the port logic and clients use
  Depth,            \* depth of every FIFO
  Budget            \* bound: environment operations of each kind in a run

ASSUME CfgSavedPorts \subseteq 0 .. NumConfig - 1
ASSUME NumConfig <= MrtSize + 1 /\ NumStatus <= MrtSize + 1

VARIABLES
  layer4,        \* *layer_4_enabled
  roleUp,        \* *layer_7_enabled = 1 and *role_decoupled = 0
  ctrlLink,      \* the host's AXI4-Lite memory
  a,             \* the statics of axi4liteProcessing
  mrtVersionProcessed,  \* *mrt_version_processed
  m,             \* the statics of pStatusMemory
  evQ,           \* internal_event_fifo_0 .. _3
  mergedQ,       \* merged_fifo
  statusQ,       \* sStatusUpdate
  portLogicQ,    \* sToPortLogic
  udpRxQ,        \* sToUdpRx
  tcpRxQ,        \* sToTcpRx
  statusProcQ,   \* sToStatusProc
  versionQ,      \* mrt_version_update
  portUpdQ,      \* sNalPortUpdate
  ipReq, ipRep,  \* sGetIpReq_* / sGetIpRep_*
  nidReq, nidRep,\* sGetNidReq_* / sGetNidRep_*
  versionSent,   \* the last mrt_version_processed forwarded
  used           \* environment operations done so far, by kind

vars == <<layer4, roleUp, ctrlLink, a, mrtVersionProcessed, m, evQ, mergedQ,
          statusQ, portLogicQ, udpRxQ, tcpRxQ, statusProcQ, versionQ, portUpdQ,
          ipReq, ipRep, nidReq, nidRep, versionSent, used>>

Kinds == {"host", "layer4", "role", "event", "port", "lookup"}
Mrt == 0 .. MrtSize - 1
ConfigWords == 0 .. NumConfig - 1
StatusWords == 0 .. NumStatus - 1
MrtBase == NumConfig + NumStatus      \* first MRT word of ctrlLink
CtrlAddr == 0 .. MrtBase + MrtSize - 1
EvFifos == 0 .. 3
Zeros(S) == [i \in S |-> 0]
W16(x) == x % 2^16                   \* ap_uint<16> new_word

Init ==
  /\ layer4 = 1 /\ roleUp = TRUE
  /\ ctrlLink = Zeros(CtrlAddr)
  /\ a = [tableCopyVariable |-> 0, tables_initialized |-> FALSE,
          localMRT |-> Zeros(Mrt), config |-> Zeros(ConfigWords),
          status |-> Zeros(StatusWords)]
  /\ mrtVersionProcessed = 0
  /\ m = [tables_initialized |-> FALSE, packet_count_RX |-> 0,
          own_rank |-> 0, status |-> Zeros(StatusWords),
          old_status |-> Zeros(StatusWords), status_update_i |-> 0]
  /\ evQ = [i \in EvFifos |-> <<>>] /\ mergedQ = <<>>
  /\ statusQ = <<>> /\ portLogicQ = <<>> /\ udpRxQ = <<>> /\ tcpRxQ = <<>>
  /\ statusProcQ = <<>> /\ versionQ = <<>> /\ portUpdQ = <<>>
  /\ ipReq = [c \in IpChannels |-> <<>>] /\ ipRep = ipReq
  /\ nidReq = [c \in NidChannels |-> <<>>] /\ nidRep = nidReq
  /\ versionSent = 0
  /\ used = [k \in Kinds |-> 0]

NodeIdOf(x) == x % 2^8               \* NodeId is ap_uint<8>
Min(S) == CHOOSE i \in S : \A j \in S : i <= j

-----------------------------------------------------------------------------
(***************************************************************************)
(* axi4liteProcessing, hss.cpp 60-279.                                     *)
(***************************************************************************)

\* selectConfigUpdatePropagation, lines 45-57: 3 to the own-rank
\* receivers, 2 to the port logic, 0 nowhere.
\* Fault variant: the own-rank case is missing from the switch.
selectConfigUpdatePropagationNoRank(addr) ==
  CASE addr \in CfgSavedPorts -> 2
    [] OTHER                  -> 0

selectConfigUpdatePropagation(addr) ==
  CASE addr = CfgOwnRank      -> 3
    [] addr \in CfgSavedPorts -> 2
    [] OTHER                  -> 0

\* Lines 102-125: a disabled layer 4 clears tables_initialized, and
\* uninitialised tables are zeroed.
TablesInit(s) ==
  IF layer4 = 0 \/ ~s.tables_initialized
    THEN [s EXCEPT !.localMRT = Zeros(Mrt), !.config = Zeros(ConfigWords),
                   !.status = Zeros(StatusWords), !.tables_initialized = TRUE]
    ELSE s

\* Lines 127-132: one status update of pStatusMemory is applied.
ApplyStatusUpdate(s) ==
  IF statusQ = <<>> THEN s
  ELSE [s EXCEPT !.status[Head(statusQ).addr] = Head(statusQ).value]

\* Lines 134-157: the IP address of a rank; every NodeId is below
\* MAX_MRT_SIZE, so the "return zero" branch is never taken.
IpOfRank(mrt, rank) == IF rank > MrtSize THEN 0 ELSE mrt[rank]

\* Lines 159-211: the first MRT index holding the address.
NidOfIp(mrt, ip) ==
  LET hits == {i \in Mrt : mrt[i] = ip} IN
  IF hits = {} THEN InvalidNid ELSE NodeIdOf(Min(hits))

\* A lookup channel is served when it has a request and room for a reply.
Serves(req, rep, c) == req[c] # <<>> /\ Len(rep[c]) < Depth

ServeLookups(mrt) ==
  /\ ipReq' = [c \in IpChannels |->
                 IF Serves(ipReq, ipRep, c) THEN Tail(ipReq[c]) ELSE ipReq[c]]
  /\ ipRep' = [c \in IpChannels |->
                 IF Serves(ipReq, ipRep, c)
                   THEN Append(ipRep[c], IpOfRank(mrt, Head(ipReq[c])))
                   ELSE ipRep[c]]
  /\ nidReq' = [c \in NidChannels |->
                  IF Serves(nidReq, nidRep, c) THEN Tail(nidReq[c])
                  ELSE nidReq[c]]
  /\ nidRep' = [c \in NidChannels |->
                  IF Serves(nidReq, nidRep, c)
                    THEN Append(nidRep[c], NidOfIp(mrt, Head(nidReq[c])))
                    ELSE nidRep[c]]

\* Lines 215-242: the config word at the sweep address, cut to 16 bits,
\* differs from the copy; it is propagated with blocking writes.
NewWord(s) == W16(ctrlLink[s.tableCopyVariable])
ConfigChanged(s) ==
  /\ s.tableCopyVariable < NumConfig
  /\ NewWord(s) # s.config[s.tableCopyVariable]
PropagatesTo(s, p) ==
  ConfigChanged(s) /\ selectConfigUpdatePropagation(s.tableCopyVariable) = p
ConfigUpdate(s) ==
  [config_addr |-> s.tableCopyVariable, update_value |-> NewWord(s)]
Emit(q, s, p) == IF PropagatesTo(s, p) THEN Append(q, ConfigUpdate(s)) ELSE q
Room(q, s, p) == PropagatesTo(s, p) => Len(q) < Depth

\* Lines 215-276: config copy, MRT copy, status copy and the sweep step
\* that, at the end of the MRT, acknowledges the config's MRT version.
ConfigCopied(s) ==
  IF ConfigChanged(s)
    THEN [s EXCEPT !.config[s.tableCopyVariable] = NewWord(s)] ELSE s
MrtCopied(s) ==
  IF s.tableCopyVariable < MrtSize
    THEN [s EXCEPT !.localMRT[s.tableCopyVariable] =
                     ctrlLink[s.tableCopyVariable + MrtBase]]
    ELSE s
\* Fault variant: the sweep address is not wrapped at the end of the MRT.
SweepStepNoWrap(s) == [s EXCEPT !.tableCopyVariable = @ + 1]

SweepStep(s) ==
  [s EXCEPT !.tableCopyVariable =
              IF @ >= MrtSize THEN 0 ELSE @ + 1]

Axi4lite ==
  \E s1 \in {TablesInit(a)} : \E s2 \in {ApplyStatusUpdate(s1)} :
  LET tcv == s2.tableCopyVariable IN
  /\ Room(portLogicQ, s2, 2) /\ Room(udpRxQ, s2, 3)
  /\ Room(tcpRxQ, s2, 3) /\ Room(statusProcQ, s2, 3)
  /\ statusQ' = IF statusQ = <<>> THEN statusQ ELSE Tail(statusQ)
  /\ ServeLookups(s2.localMRT)
  /\ portLogicQ' = Emit(portLogicQ, s2, 2)
  /\ udpRxQ' = Emit(udpRxQ, s2, 3)
  /\ tcpRxQ' = Emit(tcpRxQ, s2, 3)
  /\ statusProcQ' = Emit(statusProcQ, s2, 3)
  /\ \E s3 \in {MrtCopied(ConfigCopied(s2))} :
       /\ a' = SweepStep(s3)
       /\ mrtVersionProcessed' =
            IF tcv >= MrtSize THEN s3.config[CfgMrtVersion]
            ELSE mrtVersionProcessed
  /\ ctrlLink' = IF tcv < NumStatus
                   THEN [ctrlLink EXCEPT ![NumConfig + tcv] = s2.status[tcv]]
                   ELSE ctrlLink
  /\ UNCHANGED <<layer4, roleUp, m, evQ, mergedQ, versionQ, portUpdQ,
                 versionSent, used>>

-----------------------------------------------------------------------------
(***************************************************************************)
(* pStatusMemory, nal.cpp 154-377: one branch of the else-if chain per     *)
(* invocation.  Of the counters, packet_count_RX stands for those the     *)
(* role going down resets; the port updates are those of type UDP.        *)
(***************************************************************************)
memQueues == <<statusProcQ, versionQ, portUpdQ, mergedQ, statusQ>>

\* Lines 220-228: the status tables are zeroed once.
MemInit ==
  /\ ~m.tables_initialized
  /\ m' = [m EXCEPT !.status = Zeros(StatusWords),
                    !.old_status = Zeros(StatusWords),
                    !.tables_initialized = TRUE]
  /\ UNCHANGED memQueues

\* Lines 229-238: while the role is down, the counters are reset and no
\* input is read.
MemRoleDown ==
  /\ m.tables_initialized /\ ~roleUp
  /\ m' = [m EXCEPT !.packet_count_RX = 0]
  /\ UNCHANGED memQueues

MemReady == m.tables_initialized /\ roleUp

\* Lines 239-246: a config update; the own rank is kept as a NodeId.
MemConfig ==
  /\ MemReady /\ statusProcQ # <<>>
  /\ statusProcQ' = Tail(statusProcQ)
  /\ LET ca == Head(statusProcQ) IN
     m' = IF ca.config_addr = CfgOwnRank
            THEN [m EXCEPT !.own_rank = NodeIdOf(ca.update_value),
                           !.status[StOwnRank] = NodeIdOf(ca.update_value)]
            ELSE m
  /\ UNCHANGED <<versionQ, portUpdQ, mergedQ, statusQ>>

\* Lines 247-250: the MRT version the NAL uses.
MemVersion ==
  /\ MemReady /\ statusProcQ = <<>> /\ versionQ # <<>>
  /\ versionQ' = Tail(versionQ)
  /\ m' = [m EXCEPT !.status[StMrtVersion] = Head(versionQ)]
  /\ UNCHANGED <<statusProcQ, portUpdQ, mergedQ, statusQ>>

\* Lines 251-266: a port update of the port logic.
MemPort ==
  /\ MemReady /\ statusProcQ = <<>> /\ versionQ = <<>> /\ portUpdQ # <<>>
  /\ portUpdQ' = Tail(portUpdQ)
  /\ m' = [m EXCEPT !.status[StUdpPorts] = Head(portUpdQ)]
  /\ UNCHANGED <<statusProcQ, versionQ, mergedQ, statusQ>>

\* Lines 267-319: an event adds to its counter (a bounded run stays far
\* below 2^32).
MemEvent ==
  /\ MemReady /\ statusProcQ = <<>> /\ versionQ = <<>> /\ portUpdQ = <<>>
  /\ mergedQ # <<>>
  /\ mergedQ' = Tail(mergedQ)
  /\ m' = [m EXCEPT !.packet_count_RX = @ + Head(mergedQ)]
  /\ UNCHANGED <<statusProcQ, versionQ, portUpdQ, statusQ>>

\* Lines 320-376: with every input empty, the counters are copied into the
\* status words and, when sStatusUpdate has room, the word at
\* status_update_i is published if it changed since it was last published.
MemPublish ==
  /\ MemReady /\ statusProcQ = <<>> /\ versionQ = <<>> /\ portUpdQ = <<>>
  /\ mergedQ = <<>>
  /\ \E st \in {[m.status EXCEPT ![StPacketCntRx] = m.packet_count_RX]} :
     LET i == m.status_update_i IN
     IF Len(statusQ) < Depth
       THEN /\ statusQ' = IF m.old_status[i] # st[i]
                            THEN Append(statusQ, [addr |-> i, value |-> st[i]])
                            ELSE statusQ
            /\ m' = [m EXCEPT !.status = st, !.old_status[i] = st[i],
                              !.status_update_i = (i + 1) % NumStatus]
       ELSE /\ m' = [m EXCEPT !.status = st]
            /\ UNCHANGED statusQ
  /\ UNCHANGED <<statusProcQ, versionQ, portUpdQ, mergedQ>>

StatusMemory ==
  /\ \/ MemInit \/ MemRoleDown \/ MemConfig \/ MemVersion \/ MemPort
     \/ MemEvent \/ MemPublish
  /\ UNCHANGED <<layer4, roleUp, ctrlLink, a, mrtVersionProcessed, evQ,
                 portLogicQ, udpRxQ, tcpRxQ, ipReq, ipRep, nidReq, nidRep,
                 versionSent, used>>

(***************************************************************************)
(* eventFifoMerge, nal.cpp 379-433: the lowest-numbered non-empty event    *)
(* FIFO is moved on when merged_fifo has room.                             *)
(***************************************************************************)
eventFifoMerge ==
  /\ Len(mergedQ) < Depth
  /\ \E i \in EvFifos :
       /\ evQ[i] # <<>>
       /\ \A j \in EvFifos : j < i => evQ[j] = <<>>
       /\ evQ' = [evQ EXCEPT ![i] = Tail(@)]
       /\ mergedQ' = Append(mergedQ, Head(evQ[i]))
  /\ UNCHANGED <<layer4, roleUp, ctrlLink, a, mrtVersionProcessed, m,
                 statusQ, portLogicQ, udpRxQ, tcpRxQ, statusProcQ, versionQ,
                 portUpdQ, ipReq, ipRep, nidReq, nidRep, versionSent, used>>

-----------------------------------------------------------------------------
(***************************************************************************)
(* Environment.                                                            *)
(***************************************************************************)
Spend(k) == used[k] < Budget[k] /\ used' = [used EXCEPT ![k] = @ + 1]

\* The host writes a config word or an MRT entry.
HostWrite ==
  /\ Spend("host")
  /\ \E addr \in ConfigWords \cup {MrtBase + i : i \in Mrt}, v \in Values :
       ctrlLink' = [ctrlLink EXCEPT ![addr] = v]
  /\ UNCHANGED <<layer4, roleUp, a, mrtVersionProcessed, m, evQ, mergedQ,
                 statusQ, portLogicQ, udpRxQ, tcpRxQ, statusProcQ, versionQ,
                 portUpdQ, ipReq, ipRep, nidReq, nidRep, versionSent>>

envRest == <<ctrlLink, a, mrtVersionProcessed, m, mergedQ, statusQ,
              portLogicQ, udpRxQ, tcpRxQ, statusProcQ, versionQ, ipRep, nidRep,
              versionSent>>

\* The NTS is disabled or enabled, the role decoupled or coupled.
ToggleInputs ==
  /\ \/ Spend("layer4") /\ layer4' = 1 - layer4 /\ UNCHANGED roleUp
     \/ Spend("role") /\ roleUp' = ~roleUp /\ UNCHANGED layer4
  /\ UNCHANGED <<envRest, evQ, portUpdQ, ipReq, nidReq>>

\* A data path process counts a packet in its event FIFO, the port logic
\* reports the open UDP ports, or a client asks a lookup.
Produce ==
  /\ \/ /\ Spend("event")
        /\ \E i \in EvFifos : /\ Len(evQ[i]) < Depth
                              /\ evQ' = [evQ EXCEPT ![i] = Append(@, 1)]
        /\ UNCHANGED <<portUpdQ, ipReq, nidReq>>
     \/ /\ Spend("port") /\ Len(portUpdQ) < Depth
        /\ \E v \in Values : portUpdQ' = Append(portUpdQ, v)
        /\ UNCHANGED <<evQ, ipReq, nidReq>>
     \/ /\ Spend("lookup")
        /\ \/ \E c \in IpChannels, r \in Mrt :
                /\ Len(ipReq[c]) < Depth
                /\ ipReq' = [ipReq EXCEPT ![c] = Append(@, r)]
                /\ UNCHANGED nidReq
           \/ \E c \in NidChannels, ip \in Values :
                /\ Len(nidReq[c]) < Depth
                /\ nidReq' = [nidReq EXCEPT ![c] = Append(@, ip)]
                /\ UNCHANGED ipReq
        /\ UNCHANGED <<evQ, portUpdQ>>
  /\ UNCHANGED <<layer4, roleUp, envRest>>

\* The process that reports mrt_version_processed to pStatusMemory
\* forwards each new value.
ForwardVersion ==
  /\ mrtVersionProcessed # versionSent
  /\ Len(versionQ) < Depth
  /\ versionQ' = Append(versionQ, mrtVersionProcessed)
  /\ versionSent' = mrtVersionProcessed
  /\ UNCHANGED <<layer4, roleUp, ctrlLink, a, mrtVersionProcessed, m, evQ,
                 mergedQ, statusQ, portLogicQ, udpRxQ, tcpRxQ, statusProcQ,
                 portUpdQ, ipReq, ipRep, nidReq, nidRep, used>>

\* The port logic, the rank receivers and the lookup clients read.
Drain(q) == IF q = <<>> THEN q ELSE Tail(q)
Consume ==
  /\ \/ portLogicQ # <<>> \/ udpRxQ # <<>> \/ tcpRxQ # <<>>
     \/ \E c \in IpChannels : ipRep[c] # <<>>
     \/ \E c \in NidChannels : nidRep[c] # <<>>
  /\ portLogicQ' = Drain(portLogicQ)
  /\ udpRxQ' = Drain(udpRxQ) /\ tcpRxQ' = Drain(tcpRxQ)
  /\ ipRep' = [c \in IpChannels |-> Drain(ipRep[c])]
  /\ nidRep' = [c \in NidChannels |-> Drain(nidRep[c])]
  /\ UNCHANGED <<layer4, roleUp, ctrlLink, a, mrtVersionProcessed, m, evQ,
                 mergedQ, statusQ, statusProcQ, versionQ, portUpdQ, ipReq,
                 nidReq, versionSent, used>>

Environment == HostWrite \/ ToggleInputs \/ Produce \/ ForwardVersion \/ Consume

Next == Axi4lite \/ StatusMemory \/ eventFifoMerge \/ Environment

(***************************************************************************)
(* The three processes run on every clock; the forwarding process, the     *)
(* port logic, the rank receivers and the lookup clients keep reading.    *)
(* The host, the data paths and the MMIO inputs need not act.             *)
(***************************************************************************)
Spec ==
  /\ Init /\ [][Next]_vars
  /\ WF_vars(Axi4lite) /\ WF_vars(StatusMemory) /\ WF_vars(eventFifoMerge)
  /\ WF_vars(ForwardVersion) /\ WF_vars(Consume)

-----------------------------------------------------------------------------
TypeOK ==
  /\ a.tableCopyVariable \in 0 .. MrtSize
  /\ a.config \in [ConfigWords -> 0 .. 2^16 - 1]
  /\ m.status_update_i \in StatusWords
  /\ \A k \in Kinds : used[k] <= Budget[k]
  /\ LET qs == <<mergedQ, statusQ, portLogicQ, udpRxQ, tcpRxQ, statusProcQ,
                 versionQ, portUpdQ>>
     IN \A i \in DOMAIN qs : Len(qs[i]) <= Depth

\* No status update of pStatusMemory is waiting for word w.
NonePending(w) == \A i \in DOMAIN statusQ : statusQ[i].addr # w

(***************************************************************************)
(* The status copy is faithful (pStatusMemory publishes only the words     *)
(* that changed, so axi4liteProcessing must keep what it was sent): a      *)
(* status word with no update in sStatusUpdate holds, in                   *)
(* axi4liteProcessing, the value pStatusMemory last published for it.     *)
(* A layer-4 restart zeroes axi4liteProcessing's copy but not old_status,  *)
(* and TLC then finds it violated; with layer 4 kept up it only restates  *)
(* MemPublish, so no run checks it.                                       *)
(***************************************************************************)
StatusMirror ==
  \A w \in StatusWords : NonePending(w) => a.status[w] = m.old_status[w]

EnvDone == \A k \in Kinds : used[k] = Budget[k]

\* The host's status words show pStatusMemory's state, and that state
\* follows the host's own rank and the MRT version the host wrote.
HostSeesStatus ==
  /\ \A w \in StatusWords : ctrlLink[NumConfig + w] = m.status[w]
  /\ m.status[StOwnRank] = NodeIdOf(W16(ctrlLink[CfgOwnRank]))
  /\ m.status[StMrtVersion] = W16(ctrlLink[CfgMrtVersion])
  /\ m.status[StPacketCntRx] = m.packet_count_RX

(***************************************************************************)
(* Status reaches the host: once the host, the data paths and the MMIO     *)
(* inputs are done and the role and layer 4 are up, the rank and the MRT  *)
(* version go round axi4liteProcessing, pStatusMemory and back, and every  *)
(* status word the host reads is pStatusMemory's current one.             *)
(***************************************************************************)
StatusReachesHost == (EnvDone /\ roleUp /\ layer4 = 1) ~> HostSeesStatus
=============================================================================
