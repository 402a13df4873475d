------------------------------ MODULE BpsSetup ------------------------------
(***************************************************************************)
(* Control endpoint and configuration of the BPS USB gadget driver        *)
(* (bps_gadget.c): setup_gadget answering the host's standard requests     *)
(* from the static descriptor tables, populate_config_buf and              *)
(* select_ep_descriptor, set_config enabling the five endpoints with the   *)
(* descriptors of the negotiated speed, ep0_complete, and disconnect.      *)
(*                                                                         *)
(* Descriptors are records holding the fields USB 2.0 chapter 9 puts rules *)
(* on; a reply is the set of descriptors it carries and its length.  The   *)
(* transfer requests of the channels are in BpsRx and BpsTx.               *)
(***************************************************************************)
EXTENDS Integers, FiniteSets, Sequences

CONSTANTS
    Ep0MaxPacket,    \* bps.ep_list[EP0].p_ep->maxpacket (set by the UDC)
    FsBulkMaxPacket, \* wMaxPacketSize usb_ep_autoconfig writes into the
                     \* full-speed bulk descriptors (left 0 in the tables)
    WLengths,        \* wLength values the host sends
    DualSpeed,       \* p_gadget->is_dualspeed
    EnableFaults     \* whether usb_ep_enable and usb_ep_queue may fail

Speeds == {"full", "high"}

\* enum ep_info, FIRST_BPS_EP .. MAX_BPS_EP - 1, in set_config's order.
EpOrder == <<"bulkout1", "bulkin1", "bulkout2", "bulkin2", "intrin1">>
Eps == {EpOrder[i] : i \in 1..Len(EpOrder)}

-----------------------------------------------------------------------------
(* The descriptor tables                                                   *)

\* bps_device_descriptor; bind_gadget sets bMaxPacketSize0.
DeviceDesc == [type |-> "device", bLength |-> 18, bMaxPacketSize0 |-> Ep0MaxPacket]

\* bps_dev_qualifier: bMaxPacketSize0 is never set.
QualifierDesc == [type |-> "qualifier", bLength |-> 10, bMaxPacketSize0 |-> 0]

\* bps_config_descriptor and bps_default_interface.
ConfigDesc == [type |-> "config", bLength |-> 9]
InterfaceDesc == [type |-> "interface", bLength |-> 9, bNumEndpoints |-> 5]

\* The fs_*/hs_* endpoint descriptors (BPS_X86_SIMULATION not defined).
EpDesc(speed, e) ==
    [type |-> "endpoint", bLength |-> 7,
     xfer |-> IF e = "intrin1" THEN "int" ELSE "bulk",
     wMaxPacketSize |-> CASE e = "intrin1"  -> 8
                          [] speed = "high" -> 512
                          [] OTHER          -> FsBulkMaxPacket,
     bInterval |-> IF e = "intrin1" THEN 255 ELSE 0]

\* fs_gadget_function / hs_gadget_function.
GadgetFunction(speed) == {InterfaceDesc} \cup {EpDesc(speed, e) : e \in Eps}

\* gadget_strings: usb_gadget_get_string's length for each string id (two
\* bytes of header and two per UTF-16 unit; id 0 is the language table), or
\* -1 for an id the table does not hold.
StringDescLen(id) == CASE id = 0 -> 4
                       [] id = 1 -> 2 + 2 * 5   \* "Brady"
                       [] id = 2 -> 2 + 2 * 3   \* "BPS"
                       [] id = 3 -> 2 + 2 * 7   \* "default"
                       [] OTHER  -> -1

\* Fault model: the full-speed table whatever the speed.
SelectEpDescriptorFullSpeed(speed, e) == EpDesc("full", e)

\* select_ep_descriptor.
SelectEpDescriptor(speed, e) == EpDesc(speed, e)

\* populate_config_buf: usb_gadget_config_buf with a buffer of ep0's max
\* packet size, or -1 (-EINVAL) for index > 0 or a buffer too small.
ConfigBufLen(index) ==
    LET total == ConfigDesc.bLength + InterfaceDesc.bLength + 7 * Cardinality(Eps)
    IN  IF index > 0 \/ total > Ep0MaxPacket THEN -1 ELSE total

-----------------------------------------------------------------------------
(* USB 2.0 chapter 9: the reference for a valid descriptor at a speed      *)

ValidMaxPacket0(n) == n \in {8, 16, 32, 64}

ValidDescriptor(speed, d) ==
    CASE d.type = "endpoint" /\ d.xfer = "bulk" ->
              IF speed = "high" THEN d.wMaxPacketSize = 512
              ELSE d.wMaxPacketSize \in {8, 16, 32, 64}
      [] d.type = "endpoint" /\ d.xfer = "int" ->
              IF speed = "high"
              THEN d.wMaxPacketSize <= 1024 /\ d.bInterval \in 1..16
              ELSE d.wMaxPacketSize <= 64 /\ d.bInterval \in 1..255
      [] d.type \in {"device", "qualifier"} -> ValidMaxPacket0(d.bMaxPacketSize0)
      [] OTHER -> TRUE

-----------------------------------------------------------------------------

\* The standard requests the host sends.
SetupReqs ==
    [req : {"get_descriptor"}, dtype : {"device", "config", "qualifier"},
     value : {0, 1}, wLength : WLengths]
    \cup [req : {"get_descriptor"}, dtype : {"string"}, value : {0, 3, 4},
          wLength : WLengths]
    \cup [req : {"set_configuration"}, dtype : {"none"}, value : {0, 1},
          wLength : {0}]
    \cup [req : {"get_configuration", "set_interface", "get_interface"},
          dtype : {"none"}, value : {0}, wLength : {1}]

\* The reply setup_gadget builds for r before queueing it: its length
\* (retval, -1 for an error) and the descriptors it carries.
Reply(speed, r) ==
    CASE r.req = "get_descriptor" /\ r.dtype = "device" ->
              [len |-> IF r.wLength < 18 THEN r.wLength ELSE 18, descs |-> {DeviceDesc}]
      [] r.req = "get_descriptor" /\ r.dtype = "config" ->
              LET n == ConfigBufLen(r.value) IN
              IF n < 0 THEN [len |-> -1, descs |-> {}]
              ELSE [len |-> IF r.wLength < n THEN r.wLength ELSE n,
                    descs |-> {ConfigDesc} \cup GadgetFunction(speed)]
      [] r.req = "get_descriptor" /\ r.dtype = "string" ->
              LET n == StringDescLen(r.value) IN
              IF n < 0 THEN [len |-> -1, descs |-> {}]
              ELSE [len |-> IF r.wLength < n THEN r.wLength ELSE n, descs |-> {}]
      [] r.req = "get_descriptor" /\ r.dtype = "qualifier" /\ DualSpeed ->
              [len |-> QualifierDesc.bLength, descs |-> {QualifierDesc}]
      [] r.req = "set_interface" -> [len |-> 0, descs |-> {}]
      [] OTHER -> [len |-> -1, descs |-> {}]

-----------------------------------------------------------------------------

VARIABLES
    speed,      \* p_gadget->speed, negotiated at bus reset
    configSet,  \* bps.config_set
    enabled,    \* the descriptor each endpoint is enabled with, or NoDesc
    ep0,        \* bps.ep_list[EP0]: queued, on the UDC queue (busy), and
                \* the request's length and zero flag
    setup,      \* the last SETUP packet setup_gadget handled
    reply       \* what the host got for it: a stall, or the descriptors
                \* of the data stage

vars == <<speed, configSet, enabled, ep0, setup, reply>>

Stall == [stall |-> TRUE, descs |-> {}]
NoDesc == [type |-> "none"]
Ep0Idle == [queued |-> FALSE, busy |-> FALSE, length |-> 0, zero |-> FALSE]
EpIndex(e) == CHOOSE i \in 1..Len(EpOrder) : EpOrder[i] = e
Outcomes == IF EnableFaults THEN BOOLEAN ELSE {TRUE}

\* reset_config: config_set cleared, disable_bps_eps disables every endpoint.
ResetConfig ==
    /\ configSet' = FALSE
    /\ enabled' = [e \in Eps |-> NoDesc]

\* set_config: reset_config, then usb_ep_enable on each endpoint in order
\* with the descriptor of the current speed, stopping at the first failure
\* (k endpoints enabled); config_set only when all five are. Its result is
\* 0 or -ENODEV (-1).
SetConfigResults ==
    { [k |-> k, retval |-> IF k = Len(EpOrder) THEN 0 ELSE -1] :
        k \in IF EnableFaults THEN 0..Len(EpOrder) ELSE {Len(EpOrder)} }

ApplySetConfig(res) ==
    /\ enabled' = [e \in Eps |-> IF EpIndex(e) <= res.k
                                 THEN SelectEpDescriptor(speed, e) ELSE NoDesc]
    /\ configSet' = (res.retval = 0)

\* Fault model: the request is queued whatever retval is.
AnswerSetupQueueingErrors(r, retval, descs) ==
    \E qok \in Outcomes :
      /\ ep0' = [queued |-> qok, busy |-> qok, length |-> retval,
                 zero |-> retval < r.wLength]
      /\ reply' = IF qok THEN [stall |-> FALSE, descs |-> descs] ELSE Stall

\* The tail of setup_gadget: a non-negative retval becomes the reply's
\* length, zero is set when it is shorter than wLength, and the request is
\* queued on ep0 (queued set on success); otherwise the UDC stalls ep0 and
\* the request keeps its old length and zero flag.
AnswerSetup(r, retval, descs) ==
    IF retval >= 0
    THEN \E qok \in Outcomes :
           /\ ep0' = [queued |-> qok, busy |-> qok, length |-> retval,
                      zero |-> retval < r.wLength]
           /\ reply' = IF qok THEN [stall |-> FALSE, descs |-> descs] ELSE Stall
    ELSE /\ ep0' = [ep0 EXCEPT !.queued = FALSE, !.busy = FALSE]
         /\ reply' = Stall

\* A SETUP packet: the UDC retires the previous ep0 request (ep0_complete
\* clears queued) and calls setup_gadget.
HostSetup ==
    \E r \in SetupReqs :
       /\ setup' = r
       /\ IF r.req = "set_configuration"
          THEN \E res \in SetConfigResults :
                 /\ ApplySetConfig(res)
                 /\ AnswerSetup(r, res.retval, {})
          ELSE /\ AnswerSetup(r, Reply(speed, r).len, Reply(speed, r).descs)
               /\ UNCHANGED <<configSet, enabled>>
       /\ UNCHANGED speed

\* The host completes the data or status stage: ep0_complete.
Ep0Complete ==
    /\ ep0.busy
    /\ ep0' = [ep0 EXCEPT !.queued = FALSE, !.busy = FALSE]
    /\ UNCHANGED <<speed, configSet, enabled, setup, reply>>

\* disconnect_gadget: reset_config.
Disconnect ==
    /\ ResetConfig
    /\ UNCHANGED <<speed, ep0, setup, reply>>

\* A bus reset: the UDC retires ep0's request, calls disconnect_gadget and
\* negotiates a speed.
BusReset ==
    /\ ResetConfig
    /\ \E sp \in IF DualSpeed THEN Speeds ELSE {"full"} : speed' = sp
    /\ ep0' = Ep0Idle
    /\ UNCHANGED <<setup, reply>>

\* After bind_gadget and the first bus reset.
Init ==
    /\ speed \in IF DualSpeed THEN Speeds ELSE {"full"}
    /\ configSet = FALSE
    /\ enabled = [e \in Eps |-> NoDesc]
    /\ ep0 = Ep0Idle
    /\ setup = [req |-> "none", dtype |-> "none", value |-> 0, wLength |-> 0]
    /\ reply = Stall

Next == HostSetup \/ Ep0Complete \/ Disconnect \/ BusReset

Spec == Init /\ [][Next]_vars

-----------------------------------------------------------------------------
(* Properties                                                              *)

TypeOK ==
    /\ speed \in Speeds /\ configSet \in BOOLEAN
    /\ enabled \in [Eps -> {NoDesc} \cup {EpDesc(sp, e) : sp \in Speeds, e \in Eps}]
    /\ ep0 \in [queued : BOOLEAN, busy : BOOLEAN, length : Nat,
                zero : BOOLEAN]
    /\ reply.stall \in BOOLEAN

\* A configured device has every endpoint enabled with the descriptor of
\* the speed negotiated at the last bus reset: set_config enables all five
\* or leaves config_set clear, and a reset at another speed deconfigures.
ConfiguredEndpointsMatchSpeed ==
    configSet => \A e \in Eps : enabled[e] = EpDesc(speed, e)

\* Every reply setup_gadget queues on ep0 is one chapter 9 allows at the
\* speed the device runs at: never more than the wLength bytes the host
\* asked for (USB 2.0 9.3.5, and the negotiator's contract), and made of
\* descriptors whose fields are valid.
RepliesValid ==
    ep0.busy =>
        /\ ep0.length <= setup.wLength
        /\ \A d \in reply.descs : ValidDescriptor(speed, d)

\* USB 2.0 9.4.7: SET_CONFIGURATION with value 0 returns the device to the
\* address state; until the next request it is not configured.
SetConfigurationZeroDeconfigures ==
    (setup.req = "set_configuration" /\ setup.value = 0) => ~configSet

=============================================================================
