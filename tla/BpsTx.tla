------------------------------- MODULE BpsTx -------------------------------
(***************************************************************************)
(* The transmit path of the BPS USB gadget driver (bps_gadget.c): the      *)
(* BULK-IN request of each channel, the error-report request data_err_ep   *)
(* (owned by the DATA channel, queued on the CONFIG channel's BULK-IN      *)
(* endpoint), the interrupt request of each channel, the writer thread of  *)
(* each channel (bps_write/bps_write_impl, send_data_error, send_zlp,      *)
(* send_intr_notification), their completion handlers, and the gadget      *)
(* events that touch these requests.                                       *)
(*                                                                         *)
(* Atomicity is that of BpsRx: a region under spin_lock_irqsave and a      *)
(* gadget callback are one step each; the wait for a completion is a step  *)
(* of its own.  A dequeue completes the request at once with an error.     *)
(* A transfer's data is its length; the host reads the whole of an IN      *)
(* transfer or the transfer fails, so the request's actual is its length   *)
(* when the status is 0 and is not kept.  A call's locals are dropped when *)
(* it returns.                                                             *)
(***************************************************************************)
EXTENDS Integers

CONSTANTS
    DATA, CONFIG,    \* the two channels (minor numbers 0 and 1)
    InCap,           \* BULK_IN_URB_BUFFER_SIZE (2048 in the code)
    ErrCap,          \* DATA_ERR_URB_BUFFER_SIZE (64 in the code)
    MaxWrite,        \* largest len passed to write() or the data-error ioctl
    HostSuspends,    \* whether the host suspends the bus
    TransportFaults  \* whether usb_ep_queue/usb_ep_enable may fail and
                     \* transfers may end with an error status

ASSUME /\ DATA # CONFIG
       /\ InCap \in Nat \ {0} /\ ErrCap \in Nat \ {0}
       /\ MaxWrite \in Nat \ {0}
       /\ HostSuspends \in BOOLEAN /\ TransportFaults \in BOOLEAN

Channels == {DATA, CONFIG}

Ok == "ok"
Err == "err"
InProgress == "inprogress"

\* The requests: each channel's BULK-IN and interrupt request, and the
\* error-report request.
InSlot(c) == <<"in", c>>
IntrSlot(c) == <<"intr", c>>
ErrSlot == <<"err", DATA>>
Slots == {InSlot(c) : c \in Channels} \cup {IntrSlot(c) : c \in Channels}
            \cup {ErrSlot}

\* The requests a write call of channel c transmits on.
WriteSlots(c) == IF c = DATA THEN {InSlot(c), ErrSlot} ELSE {InSlot(c)}

\* Buffer size each request is allocated with (alloc_ep_request).
Capacity(s) == CASE s[1] = "in"   -> InCap
                 [] s[1] = "intr" -> 1
                 [] s[1] = "err"  -> ErrCap

VARIABLES
    configSet,  \* bps.config_set
    suspended,  \* bps.suspended
    opened,     \* bps.cdevs[c].opened
    ep,         \* per request: the bps_ep.queued flag, whether it is on the
                \* UDC's queue (busy), usb_request status and length, and
                \* bps_ep.urb_buffer_size (size)
    wpc,        \* where the writer thread of channel c is
    wslot,      \* the request its current call transmits on
    wlen,       \* bps_write_impl's remaining len
    retval,     \* bps_write_impl's retval: the bytes counted so far
    hostGot,    \* history: bytes the host accepted during the current call
    misuse      \* history: usb_ep_queue was called on a request that was
                \* still on the UDC's queue

vars == <<configSet, suspended, opened, ep, wpc, wslot, wlen, retval,
          hostGot, misuse>>

Statuses == {Ok, Err, InProgress}
WPCs == {"idle", "chunk", "wait", "zlpwait", "intrwait"}
Waiting == {"wait", "zlpwait", "intrwait"}
MaxCap == IF InCap >= ErrCap THEN InCap ELSE ErrCap
Req == [queued : BOOLEAN, busy : BOOLEAN, status : Statuses,
        length : 0..MaxCap, size : 0..MaxCap]

CallOutcomes == IF TransportFaults THEN BOOLEAN ELSE {TRUE}
TransferStatuses == IF TransportFaults THEN {Ok, Err} ELSE {Ok}

Min2(a, b) == IF a <= b THEN a ELSE b

\* A negative error code (-EIO) as a write's return value.
Error == -1

-----------------------------------------------------------------------------
(* Request operations                                                      *)

\* usb_ep_queue succeeded and the caller set queued.
Queued(r) == [r EXCEPT !.queued = TRUE, !.busy = TRUE, !.status = InProgress]

\* bulk_urb_complete (BULK-IN), data_err_urb_complete, intr_urb_complete:
\* none of them resubmits; each clears queued and wakes the channel.
Completed(r, st) == [r EXCEPT !.queued = FALSE, !.busy = FALSE, !.status = st]

\* dequeue_request.
Dequeued(r) == IF r.queued THEN Completed(r, Err) ELSE r

\* Fault model: a write-busy test that only looks at the BULK-IN request.
IsWriteChannelBusyInOnly(c) == ep[InSlot(c)].queued

\* is_write_channel_busy: the DATA channel also waits for the error report.
IsWriteChannelBusy(c) ==
    IF c = DATA THEN ep[InSlot(c)].queued \/ ep[ErrSlot].queued
    ELSE ep[InSlot(c)].queued

\* Fault model: the error report's size saved from the request of the
\* CONFIG BULK-IN endpoint it shares.
SavedSizesSharingEndpoint(e) ==
    [s \in Slots |-> [e[s] EXCEPT !.size = IF s = ErrSlot
                                           THEN e[InSlot(CONFIG)].length
                                           ELSE e[s].length]]

\* save_urb_lengths: urb_buffer_size of every BULK-IN, error-report and
\* interrupt request is reloaded from the request's current length.
SavedSizes(e) == [s \in Slots |-> [e[s] EXCEPT !.size = e[s].length]]

\* The requests the caller queues: s with usb_ep_queue outcome qok.
QueueOn(s, r, qok) ==
    /\ ep' = [ep EXCEPT ![s] = IF qok THEN Queued(r) ELSE r]
    /\ misuse' = (misuse \/ ep[s].busy)

-----------------------------------------------------------------------------
(* Character device: open, release and the calls of the writer thread      *)

Open(c) ==
    /\ wpc[c] = "idle" /\ ~opened[c] /\ configSet
    /\ opened' = [opened EXCEPT ![c] = TRUE]
    /\ UNCHANGED <<configSet, suspended, ep, wpc, wslot, wlen, retval,
                   hostGot, misuse>>

\* bps_release dequeues the channel's interrupt and BULK-IN requests, and
\* on the DATA channel the error report.
Release(c) ==
    /\ wpc[c] = "idle" /\ opened[c]
    /\ opened' = [opened EXCEPT ![c] = FALSE]
    /\ ep' = [s \in Slots |->
                IF s \in {IntrSlot(c), InSlot(c)} \/ (c = DATA /\ s = ErrSlot)
                THEN Dequeued(ep[s]) ELSE ep[s]]
    /\ UNCHANGED <<configSet, suspended, wpc, wslot, wlen, retval,
                   hostGot, misuse>>

\* The writer thread of channel c is at p, transmitting on s with n bytes
\* left.
SetWriter(c, p, s, n) ==
    /\ wpc' = [wpc EXCEPT ![c] = p]
    /\ wslot' = [wslot EXCEPT ![c] = s]
    /\ wlen' = [wlen EXCEPT ![c] = n]

\* send_zlp or send_intr_notification returns: its locals are dropped.
Return(c) ==
    /\ SetWriter(c, "idle", InSlot(c), 0)
    /\ UNCHANGED <<retval, hostGot>>

\* bps_write_impl returns: its locals are dropped.
WriteReturns(c) ==
    /\ SetWriter(c, "idle", InSlot(c), 0)
    /\ retval' = [retval EXCEPT ![c] = 0]
    /\ hostGot' = [hostGot EXCEPT ![c] = 0]

\* bps_write, and send_data_error on the DATA channel, enter
\* bps_write_impl with a blocking file and len > 0.
WriteCall(c) ==
    /\ wpc[c] = "idle" /\ opened[c]
    /\ \E s \in WriteSlots(c), len \in 1..MaxWrite :
         SetWriter(c, "chunk", s, len)
    /\ UNCHANGED <<configSet, suspended, opened, ep, retval, hostGot, misuse>>

\* One pass of the loop: -ECOMM when unconfigured or suspended, whatever
\* earlier chunks sent.
WriteNotReady(c) ==
    /\ wpc[c] = "chunk"
    /\ ~configSet \/ suspended
    /\ WriteReturns(c)
    /\ UNCHANGED <<configSet, suspended, opened, ep, misuse>>

\* The chunk of length n on request s is queued (the writer sleeps) or
\* usb_ep_queue refuses it (-EIO).
QueueChunk(c, s, n) ==
    \E qok \in CallOutcomes :
      /\ QueueOn(s, [ep[s] EXCEPT !.length = n], qok)
      /\ IF qok THEN /\ SetWriter(c, "wait", s, wlen[c])
                     /\ UNCHANGED <<retval, hostGot>>
                ELSE WriteReturns(c)

\* Fault model: the chunk is the whole of len, not min(buffer, len).
WriteChunkWholeLen(c) ==
    /\ wpc[c] = "chunk"
    /\ configSet /\ ~suspended
    /\ QueueChunk(c, wslot[c], wlen[c])
    /\ UNCHANGED <<configSet, suspended, opened>>

\* Fault model: the loop only tests config_set before queueing.
WriteChunkIgnoringSuspend(c) ==
    /\ wpc[c] = "chunk"
    /\ configSet
    /\ QueueChunk(c, wslot[c], Min2(ep[wslot[c]].size, wlen[c]))
    /\ UNCHANGED <<configSet, suspended, opened>>

\* One pass of the loop: bytes_to_tx = min(urb_buffer_size, len), set the
\* request length, queue it (-EIO if that fails) and go to sleep.
WriteChunk(c) ==
    /\ wpc[c] = "chunk"
    /\ configSet /\ ~suspended
    /\ QueueChunk(c, wslot[c], Min2(ep[wslot[c]].size, wlen[c]))
    /\ UNCHANGED <<configSet, suspended, opened>>

\* Fault model: retval is set to the last chunk's actual, not added to.
WriteWakeOverwritingRetval(c) ==
    /\ wpc[c] = "wait" /\ ~IsWriteChannelBusy(c)
    /\ LET r == ep[wslot[c]]
           left == wlen[c] - r.length
       IN  CASE r.status # Ok -> WriteReturns(c)
             [] left > 0 -> /\ SetWriter(c, "chunk", wslot[c], left)
                            /\ retval' = [retval EXCEPT ![c] = r.length]
                            /\ UNCHANGED hostGot
             [] OTHER -> WriteReturns(c)
    /\ UNCHANGED <<configSet, suspended, opened, ep, misuse>>

\* The value bps_write_impl returns when its wait ends the call: retval
\* plus the last chunk's actual, or -EIO.
WakeResult(c) ==
    IF ep[wslot[c]].status = Ok THEN retval[c] + ep[wslot[c]].length
    ELSE Error

\* wait_event(is_write_channel_busy == FALSE) returns: a transfer with
\* status 0 took length bytes, which retval counts, and the loop goes on
\* while len > 0; any other status returns -EIO.
WriteWake(c) ==
    /\ wpc[c] = "wait" /\ ~IsWriteChannelBusy(c)
    /\ LET r == ep[wslot[c]]
           left == wlen[c] - r.length
       IN  CASE r.status # Ok -> WriteReturns(c)
             [] left > 0 -> /\ SetWriter(c, "chunk", wslot[c], left)
                            /\ retval' = [retval EXCEPT ![c] = @ + r.length]
                            /\ UNCHANGED hostGot
             [] OTHER -> WriteReturns(c)
    /\ UNCHANGED <<configSet, suspended, opened, ep, misuse>>

\* send_zlp on a configured, awake device: a zero-length BULK-IN transfer
\* (length 0, zero set; zero is cleared again on return).
SendZlp(c) ==
    /\ wpc[c] = "idle" /\ opened[c]
    /\ configSet /\ ~suspended
    /\ \E qok \in CallOutcomes :
         /\ QueueOn(InSlot(c), [ep[InSlot(c)] EXCEPT !.length = 0], qok)
         /\ IF qok THEN /\ SetWriter(c, "zlpwait", InSlot(c), 0)
                        /\ UNCHANGED <<retval, hostGot>>
                   ELSE Return(c)
    /\ UNCHANGED <<configSet, suspended, opened>>

ZlpWake(c) ==
    /\ wpc[c] = "zlpwait" /\ ~IsWriteChannelBusy(c)
    /\ Return(c)
    /\ UNCHANGED <<configSet, suspended, opened, ep, misuse>>

\* send_intr_notification with a valid value on a configured, awake device.
SendIntr(c) ==
    /\ wpc[c] = "idle" /\ opened[c]
    /\ configSet /\ ~suspended
    /\ \E qok \in CallOutcomes :
         /\ QueueOn(IntrSlot(c), ep[IntrSlot(c)], qok)
         /\ IF qok THEN /\ SetWriter(c, "intrwait", IntrSlot(c), 0)
                        /\ UNCHANGED <<retval, hostGot>>
                   ELSE Return(c)
    /\ UNCHANGED <<configSet, suspended, opened>>

IntrWake(c) ==
    /\ wpc[c] = "intrwait" /\ ~ep[IntrSlot(c)].queued
    /\ Return(c)
    /\ UNCHANGED <<configSet, suspended, opened, ep, misuse>>

-----------------------------------------------------------------------------
(* The host and the UDC                                                    *)

\* The host reads an IN transfer (or it fails) and the UDC calls the
\* request's completion handler.
HostComplete(s) ==
    /\ ep[s].busy
    /\ \E st \in TransferStatuses :
         /\ ep' = [ep EXCEPT ![s] = Completed(@, st)]
         /\ hostGot' = [c \in Channels |->
                          IF st = Ok /\ s \in WriteSlots(c)
                          THEN hostGot[c] + ep[s].length ELSE hostGot[c]]
    /\ UNCHANGED <<configSet, suspended, opened, wpc, wslot, wlen, retval,
                   misuse>>

\* Fault model: suspend forgets the error-report request.
SuspendSkippingDataErr ==
    /\ HostSuspends /\ ~suspended
    /\ suspended' = TRUE
    /\ ep' = [s \in Slots |-> IF s = ErrSlot THEN ep[s] ELSE Dequeued(ep[s])]
    /\ UNCHANGED <<configSet, opened, wpc, wslot, wlen, retval,
                   hostGot, misuse>>

\* suspend_gadget: set suspended, dequeue the error report, the interrupt
\* requests and every endpoint's request.
Suspend ==
    /\ HostSuspends /\ ~suspended
    /\ suspended' = TRUE
    /\ ep' = [s \in Slots |-> Dequeued(ep[s])]
    /\ UNCHANGED <<configSet, opened, wpc, wslot, wlen, retval,
                   hostGot, misuse>>

\* resume_gadget: clear suspended (its re-arming of BULK-OUT is in BpsRx).
Resume ==
    /\ suspended
    /\ suspended' = FALSE
    /\ UNCHANGED <<configSet, opened, ep, wpc, wslot, wlen, retval,
                   hostGot, misuse>>

\* Fault model: disable_bps_eps forgets the error-report request.
DisconnectSkippingDataErr ==
    /\ configSet' = FALSE
    /\ ep' = [s \in Slots |-> IF s = ErrSlot THEN ep[s] ELSE Dequeued(ep[s])]
    /\ UNCHANGED <<suspended, opened, wpc, wslot, wlen, retval,
                   hostGot, misuse>>

\* disconnect_gadget: reset_config clears config_set, disable_bps_eps
\* dequeues everything.
Disconnect ==
    /\ configSet' = FALSE
    /\ ep' = [s \in Slots |-> Dequeued(ep[s])]
    /\ UNCHANGED <<suspended, opened, wpc, wslot, wlen, retval,
                   hostGot, misuse>>

\* set_config: reset_config, enable the endpoints, and when every enable
\* succeeded save_urb_lengths and set config_set.
SetConfig ==
    /\ LET reset == [s \in Slots |-> Dequeued(ep[s])] IN
       \E enabled \in CallOutcomes :
         /\ configSet' = enabled
         /\ ep' = IF enabled THEN SavedSizes(reset) ELSE reset
    /\ UNCHANGED <<suspended, opened, wpc, wslot, wlen, retval,
                   hostGot, misuse>>

-----------------------------------------------------------------------------

\* After bind_gadget: every request has its allocated length, and
\* save_urb_lengths copied it into urb_buffer_size.
Init ==
    /\ configSet = FALSE
    /\ suspended = FALSE
    /\ opened = [c \in Channels |-> FALSE]
    /\ ep = [s \in Slots |->
               [queued |-> FALSE, busy |-> FALSE, status |-> Ok,
                length |-> Capacity(s), size |-> Capacity(s)]]
    /\ wpc = [c \in Channels |-> "idle"]
    /\ wslot = [c \in Channels |-> InSlot(c)]
    /\ wlen = [c \in Channels |-> 0]
    /\ retval = [c \in Channels |-> 0]
    /\ hostGot = [c \in Channels |-> 0]
    /\ misuse = FALSE

Writer(c) ==
    \/ Open(c) \/ Release(c)
    \/ WriteCall(c) \/ WriteNotReady(c) \/ WriteChunk(c) \/ WriteWake(c)
    \/ SendZlp(c) \/ ZlpWake(c) \/ SendIntr(c) \/ IntrWake(c)

Next ==
    \/ \E c \in Channels : Writer(c)
    \/ \E s \in Slots : HostComplete(s)
    \/ Suspend \/ Resume \/ Disconnect \/ SetConfig

Spec == Init /\ [][Next]_vars

\* The scheduler runs a writer that is runnable or has been woken.
WriterFairness ==
    \A c \in Channels : WF_vars(WriteNotReady(c) \/ WriteChunk(c) \/ WriteWake(c)
                                \/ ZlpWake(c) \/ IntrWake(c))

FairSpec == Spec /\ WriterFairness

\* In addition, the host keeps reading the device's IN endpoints.
HostFairSpec == FairSpec /\ \A s \in Slots : WF_vars(HostComplete(s))

-----------------------------------------------------------------------------
(* Properties                                                              *)

TypeOK ==
    /\ configSet \in BOOLEAN /\ suspended \in BOOLEAN
    /\ opened \in [Channels -> BOOLEAN]
    /\ ep \in [Slots -> Req]
    /\ wpc \in [Channels -> WPCs]
    /\ wslot \in [Channels -> Slots]
    /\ wlen \in [Channels -> 0..MaxWrite]
    /\ retval \in [Channels -> 0..MaxWrite]
    /\ hostGot \in [Channels -> 0..MaxWrite]
    /\ misuse \in BOOLEAN

\* No request is handed to usb_ep_queue while it is still queued on the
\* UDC: each writer waits (is_write_channel_busy) until every request its
\* channel may have queued has completed before it queues again.
NoDoubleSubmit == ~misuse

\* While the device is suspended nothing is on the bus: suspend_gadget
\* cancelled every IN, interrupt and error-report transfer and no writer
\* queues a new one.
TxSuspendQuiesces ==
    suspended => \A s \in Slots : ~ep[s].busy

\* No transfer is longer than the buffer its request was allocated with:
\* copy_from_user never writes past it, even after set_config reloaded
\* urb_buffer_size from a request's length.
NoBufferOverrun == \A s \in Slots : ep[s].length <= Capacity(s)

\* A write() or data-error report that returns a byte count returns what
\* the host really accepted during the call: bps_write_impl adds up the
\* actual length of every chunk that completed with status 0, across
\* re-queues, and counts no chunk that failed or was cancelled.
WriteCountDelivered ==
    [][\A c \in Channels :
         (wpc[c] = "wait" /\ wpc'[c] = "idle" /\ WakeResult(c) >= 0)
            => WakeResult(c) = hostGot[c]]_vars

\* A writer blocked on a transfer is released once the device is suspended
\* or unconfigured: the dequeue completes every request it waits for.
WriterReleased ==
    \A c \in Channels :
        (wpc[c] \in Waiting /\ (suspended \/ ~configSet)) ~> wpc[c] \notin Waiting

\* A write() call returns when the host keeps reading: every chunk carries
\* data, so the remaining length goes down on every successful transfer.
WriteTerminates ==
    \A c \in Channels : wpc[c] = "chunk" ~> wpc[c] = "idle"

=============================================================================
