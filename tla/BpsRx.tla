------------------------------- MODULE BpsRx -------------------------------
(***************************************************************************)
(* The receive path of the BPS USB gadget driver (bps_gadget.c): the       *)
(* BULK-OUT request of each character-device channel, the reader thread    *)
(* of the channel (bps_open, bps_release, bps_read), the BULK-OUT branch   *)
(* of the completion handler bulk_urb_complete, and the gadget events that *)
(* touch the BULK-OUT requests (suspend, resume, disconnect and            *)
(* SET_CONFIGURATION).                                                     *)
(*                                                                         *)
(* Atomicity.  The LPC313x is a single-core ARM926.  Every region the code *)
(* runs under spin_lock_irqsave, and every gadget callback (which runs in  *)
(* the UDC interrupt), is one step.  bps_read drops the channel lock after *)
(* it has found a completed transfer and then copies, advances the cursor  *)
(* and re-arms the request without it: those are separate steps (ReadCopy, *)
(* ReadAdvance, ReadRequeue), and the interrupt-context events may run     *)
(* between them.                                                           *)
(*                                                                         *)
(* Transport.  usb_ep_dequeue of the UDC completes the request at once     *)
(* with an error status, so a dequeue runs bulk_urb_complete inside the    *)
(* step that dequeues.  A successful usb_ep_queue sets the request's       *)
(* status to -EINPROGRESS and its actual length to 0.                      *)
(***************************************************************************)
EXTENDS Naturals, FiniteSets

CONSTANTS
    Channels,        \* the character-device channels (DATA, CONFIG)
    MaxPacket,       \* bytes one BULK-OUT transfer can carry (512 in the code)
    HostSuspends,    \* whether the host may suspend and resume the bus
    TransportFaults, \* whether usb_ep_queue/usb_ep_enable may fail and
                     \* transfers may end with an error status
    OwedBound        \* bound on the bytes the host has handed over and the
                     \* reader has not yet consumed (caps HostTransfer)

ASSUME /\ Channels # {}
       /\ MaxPacket \in Nat \ {0}
       /\ HostSuspends \in BOOLEAN
       /\ TransportFaults \in BOOLEAN
       /\ OwedBound \in Nat /\ OwedBound >= MaxPacket

\* Values of usb_request.status: 0, a negative error, -EINPROGRESS.
Ok == "ok"
Err == "err"
InProgress == "inprogress"

VARIABLES
    configSet,   \* bps.config_set
    suspended,   \* bps.suspended
    opened,      \* bps.cdevs[c].opened
    out,         \* the BULK-OUT endpoint of channel c: the bps_ep.queued flag,
                 \* whether the request is on the UDC's queue (busy), the
                 \* request's status and actual length, and bps_cdev.rx_bytes
    pc,          \* where the reader thread of channel c is
    nCopy,       \* bps_read's local bytes_to_copy
    owed         \* history: bytes the host handed over in successful
                 \* transfers since the open that the reader has not consumed

vars == <<configSet, suspended, opened, out, pc, nCopy, owed>>

Statuses == {Ok, Err, InProgress}
PCs == {"idle", "wait", "restart", "copy", "advance", "requeue", "oops"}
OutReq == [queued : BOOLEAN, busy : BOOLEAN, status : Statuses,
           actual : 0..MaxPacket, rx : 0..MaxPacket]

\* Outcomes of a usb_ep_queue / usb_ep_enable call.
CallOutcomes == IF TransportFaults THEN BOOLEAN ELSE {TRUE}
\* Status a transfer may end with on the bus.
TransferStatuses == IF TransportFaults THEN {Ok, Err} ELSE {Ok}

Min2(a, b) == IF a <= b THEN a ELSE b

-----------------------------------------------------------------------------
(* Endpoint slot operations                                                *)

\* Fault model: a resubmission test that forgets config_set.
ResubmitsIgnoringConfig(st, isOpen, cfg, susp) ==
    st # Ok /\ isOpen /\ ~susp

\* Fault model: a resubmission test that forgets the suspended flag.
ResubmitsIgnoringSuspend(st, isOpen, cfg, susp) ==
    st # Ok /\ isOpen /\ cfg

\* bulk_urb_complete: a failed BULK-OUT transfer is resubmitted when the
\* channel is open, the device configured and not suspended.
Resubmits(st, isOpen, cfg, susp) ==
    st # Ok /\ isOpen /\ cfg /\ ~susp

\* Fault model: the queued flag cleared before the resubmission decision.
CompletedClearingQueued(r, st, act, resubmit, qok) ==
    IF resubmit /\ qok
    THEN [r EXCEPT !.queued = FALSE, !.busy = TRUE, !.status = InProgress,
                   !.actual = 0]
    ELSE [r EXCEPT !.queued = FALSE, !.busy = FALSE, !.status = st,
                   !.actual = act]

\* The request r after bulk_urb_complete ran for a transfer that ended with
\* status st and length act; qok: the resubmitting usb_ep_queue succeeded.
Completed(r, st, act, resubmit, qok) ==
    IF resubmit /\ qok
    THEN [r EXCEPT !.busy = TRUE, !.status = InProgress, !.actual = 0]
    ELSE [r EXCEPT !.queued = FALSE, !.busy = FALSE, !.status = st,
                   !.actual = act]

\* dequeue_request on a BULK-OUT request, with the flags the completion sees.
Dequeued(r, isOpen, cfg, susp) ==
    IF r.queued THEN Completed(r, Err, 0, Resubmits(Err, isOpen, cfg, susp), TRUE)
    ELSE r

\* The BULK-OUT requests after every one of them was dequeued.
DequeueAll(cfg, susp) ==
    [c \in Channels |-> Dequeued(out[c], opened[c], cfg, susp)]

\* queue_out_request: arm the request unless the device is unconfigured or
\* suspended, the channel closed, or the request already armed.
QueueOut(r, cfg, susp, isOpen, qok) ==
    IF cfg /\ ~susp /\ isOpen /\ ~r.queued
    THEN IF qok
         THEN [r EXCEPT !.rx = 0, !.queued = TRUE, !.busy = TRUE,
                        !.status = InProgress, !.actual = 0]
         ELSE [r EXCEPT !.rx = 0, !.actual = 0]
    ELSE r

\* bps_poll reports POLLIN.
PollIn(c) ==
    /\ configSet /\ ~suspended
    /\ ~out[c].queued /\ out[c].status = Ok

\* Bytes of the completed transfer the reader has not consumed.
Pending(r) == IF ~r.queued /\ r.status = Ok THEN r.actual - r.rx ELSE 0

-----------------------------------------------------------------------------
(* Character device: open and release                                      *)

Open(c) ==
    /\ pc[c] = "idle" /\ ~opened[c] /\ configSet
    /\ \E qok \in CallOutcomes :
         out' = [out EXCEPT ![c] =
                   QueueOut([@ EXCEPT !.rx = 0, !.actual = 0],
                            configSet, suspended, TRUE, qok)]
    /\ opened' = [opened EXCEPT ![c] = TRUE]
    /\ owed' = [owed EXCEPT ![c] = 0]
    /\ UNCHANGED <<configSet, suspended, pc, nCopy>>

Release(c) ==
    /\ pc[c] = "idle" /\ opened[c]
    /\ opened' = [opened EXCEPT ![c] = FALSE]
    /\ out' = [out EXCEPT ![c] = Dequeued(@, FALSE, configSet, suspended)]
    /\ owed' = [owed EXCEPT ![c] = 0]
    /\ UNCHANGED <<configSet, suspended, pc, nCopy>>

-----------------------------------------------------------------------------
(* bps_read, one action per path through its locked region and one per     *)
(* unlocked step                                                           *)

ReadEntry(c) ==
    /\ pc[c] \in {"idle", "restart"} /\ opened[c]

\* -ECOMM: unconfigured or suspended.
ReadNotReady(c) ==
    /\ ReadEntry(c)
    /\ ~configSet \/ suspended
    /\ pc' = [pc EXCEPT ![c] = "idle"]
    /\ UNCHANGED <<configSet, suspended, opened, out, nCopy, owed>>

\* A transfer is armed: -EAGAIN for O_NONBLOCK, else sleep on the wait queue.
ReadQueued(c) ==
    /\ ReadEntry(c)
    /\ configSet /\ ~suspended
    /\ out[c].queued
    /\ \E next \in {"idle", "wait"} : pc' = [pc EXCEPT ![c] = next]
    /\ UNCHANGED <<configSet, suspended, opened, out, nCopy, owed>>

\* BUG_ON(rx_bytes > actual) on the completed request.
ReadBug(c) ==
    /\ ReadEntry(c)
    /\ configSet /\ ~suspended
    /\ ~out[c].queued
    /\ out[c].rx > out[c].actual
    /\ pc' = [pc EXCEPT ![c] = "oops"]
    /\ UNCHANGED <<configSet, suspended, opened, out, nCopy, owed>>

\* The last transfer failed or was consumed: re-arm it, then sleep or
\* return -EAGAIN, or -EIO if usb_ep_queue failed.
ReadRearm(c) ==
    /\ ReadEntry(c)
    /\ configSet /\ ~suspended
    /\ ~out[c].queued
    /\ out[c].rx <= out[c].actual
    /\ out[c].status # Ok \/ (out[c].rx = out[c].actual /\ out[c].actual # 0)
    /\ \E qok \in CallOutcomes :
         LET r == QueueOut(out[c], TRUE, FALSE, TRUE, qok) IN
         /\ out' = [out EXCEPT ![c] = r]
         /\ \E next \in IF r.queued THEN {"idle", "wait"} ELSE {"idle"} :
              pc' = [pc EXCEPT ![c] = next]
    /\ UNCHANGED <<configSet, suspended, opened, nCopy, owed>>

\* Data (or a zero-length packet) is there: drop the lock and copy.
ReadData(c) ==
    /\ ReadEntry(c)
    /\ configSet /\ ~suspended
    /\ ~out[c].queued
    /\ out[c].rx <= out[c].actual
    /\ out[c].status = Ok
    /\ ~(out[c].rx = out[c].actual /\ out[c].actual # 0)
    /\ pc' = [pc EXCEPT ![c] = "copy"]
    /\ UNCHANGED <<configSet, suspended, opened, out, nCopy, owed>>

\* wait_event_interruptible returns: on a failed transfer restart the read,
\* otherwise go and copy without retaking the lock.
ReadWake(c) ==
    /\ pc[c] = "wait" /\ ~out[c].queued
    /\ pc' = [pc EXCEPT ![c] = IF out[c].status # Ok THEN "restart" ELSE "copy"]
    /\ UNCHANGED <<configSet, suspended, opened, out, nCopy, owed>>

\* A signal ends the wait with -EINTR.
ReadInterrupted(c) ==
    /\ pc[c] = "wait"
    /\ pc' = [pc EXCEPT ![c] = "idle"]
    /\ UNCHANGED <<configSet, suspended, opened, out, nCopy, owed>>

\* Fault model: bytes_to_copy taken from len alone.
ReadCopyWholeLen(c) ==
    /\ pc[c] = "copy"
    /\ \E len \in 1..MaxPacket : nCopy' = [nCopy EXCEPT ![c] = len]
    /\ pc' = [pc EXCEPT ![c] = IF out[c].rx > out[c].actual THEN "oops"
                                ELSE "advance"]
    /\ UNCHANGED <<configSet, suspended, opened, out, owed>>

\* bytes_to_copy = min(len, actual - rx_bytes); then BUG_ON(rx > actual).
ReadCopy(c) ==
    /\ pc[c] = "copy"
    /\ \E len \in 1..MaxPacket :
         nCopy' = [nCopy EXCEPT ![c] =
                     IF out[c].rx > out[c].actual THEN len
                     ELSE Min2(len, out[c].actual - out[c].rx)]
    /\ pc' = [pc EXCEPT ![c] = IF out[c].rx > out[c].actual THEN "oops"
                                ELSE "advance"]
    /\ UNCHANGED <<configSet, suspended, opened, out, owed>>

\* Fault model: re-arming after every copy, consumed or not.
ReadAdvanceAlwaysRequeue(c) ==
    /\ pc[c] = "advance"
    /\ out' = [out EXCEPT ![c].rx = out[c].rx + nCopy[c]]
    /\ pc' = [pc EXCEPT ![c] = "requeue"]
    /\ owed' = [owed EXCEPT ![c] = @ - nCopy[c]]
    /\ UNCHANGED <<configSet, suspended, opened, nCopy>>

\* copy_to_user, rx_bytes += bytes_to_copy; re-arm once all is consumed.
ReadAdvance(c) ==
    /\ pc[c] = "advance"
    /\ LET rx == out[c].rx + nCopy[c] IN
       /\ out' = [out EXCEPT ![c].rx = rx]
       /\ pc' = [pc EXCEPT ![c] = IF rx = out[c].actual THEN "requeue" ELSE "idle"]
    /\ owed' = [owed EXCEPT ![c] = @ - nCopy[c]]
    /\ UNCHANGED <<configSet, suspended, opened, nCopy>>

\* queue_out_request(p_dev, TRUE) after the whole transfer was consumed.
ReadRequeue(c) ==
    /\ pc[c] = "requeue"
    /\ \E qok \in CallOutcomes :
         out' = [out EXCEPT ![c] = QueueOut(@, configSet, suspended, opened[c], qok)]
    /\ pc' = [pc EXCEPT ![c] = "idle"]
    /\ UNCHANGED <<configSet, suspended, opened, nCopy, owed>>

-----------------------------------------------------------------------------
(* The host and the UDC                                                    *)

\* A BULK-OUT transfer ends and the UDC calls bulk_urb_complete.
HostTransfer(c) ==
    /\ out[c].busy
    /\ \E st \in TransferStatuses, act \in 0..MaxPacket, qok \in CallOutcomes :
         LET got == IF st = Ok THEN act ELSE 0 IN
         /\ owed[c] + got <= OwedBound
         /\ out' = [out EXCEPT ![c] =
                      Completed(@, st, got,
                                Resubmits(st, opened[c], configSet, suspended), qok)]
         /\ owed' = [owed EXCEPT ![c] = @ + got]
    /\ UNCHANGED <<configSet, suspended, opened, pc, nCopy>>

\* suspend_gadget: set suspended, then dequeue every request.
Suspend ==
    /\ HostSuspends /\ ~suspended
    /\ suspended' = TRUE
    /\ out' = DequeueAll(configSet, TRUE)
    /\ UNCHANGED <<configSet, opened, pc, nCopy, owed>>

\* Fault model: resume queueing before it clears suspended.
ResumeQueueingFirst ==
    /\ suspended
    /\ suspended' = FALSE
    /\ \E qok \in [Channels -> CallOutcomes] :
         out' = [c \in Channels |->
                   QueueOut(out[c], configSet, TRUE, opened[c], qok[c])]
    /\ UNCHANGED <<configSet, opened, pc, nCopy, owed>>

\* resume_gadget: clear suspended, then queue_out_request on every channel.
Resume ==
    /\ suspended
    /\ suspended' = FALSE
    /\ \E qok \in [Channels -> CallOutcomes] :
         out' = [c \in Channels |->
                   QueueOut(out[c], configSet, FALSE, opened[c], qok[c])]
    /\ UNCHANGED <<configSet, opened, pc, nCopy, owed>>

\* The BULK-OUT requests after reset_config (config_set cleared, then
\* disable_bps_eps dequeues every request).
ResetOut == DequeueAll(FALSE, suspended)

\* disconnect_gadget: reset_config.
Disconnect ==
    /\ configSet' = FALSE
    /\ out' = ResetOut
    /\ UNCHANGED <<suspended, opened, pc, nCopy, owed>>

\* set_config (SET_CONFIGURATION): reset_config, then enable the endpoints;
\* config_set is set only when every usb_ep_enable succeeded.
SetConfig ==
    /\ \E enabled \in CallOutcomes : configSet' = enabled
    /\ out' = ResetOut
    /\ UNCHANGED <<suspended, opened, pc, nCopy, owed>>

-----------------------------------------------------------------------------

Init ==
    /\ configSet = FALSE
    /\ suspended = FALSE
    /\ opened = [c \in Channels |-> FALSE]
    /\ out = [c \in Channels |->
                [queued |-> FALSE, busy |-> FALSE, status |-> Ok,
                 actual |-> 0, rx |-> 0]]
    /\ pc = [c \in Channels |-> "idle"]
    /\ nCopy = [c \in Channels |-> 0]
    /\ owed = [c \in Channels |-> 0]

Reader(c) ==
    \/ Open(c) \/ Release(c)
    \/ ReadNotReady(c) \/ ReadQueued(c) \/ ReadBug(c) \/ ReadRearm(c)
    \/ ReadData(c) \/ ReadWake(c) \/ ReadInterrupted(c)
    \/ ReadCopy(c) \/ ReadAdvance(c) \/ ReadRequeue(c)

Next ==
    \/ \E c \in Channels : Reader(c) \/ HostTransfer(c)
    \/ Suspend \/ Resume \/ Disconnect \/ SetConfig

Spec == Init /\ [][Next]_vars

\* wait_event_interruptible: the kernel runs a sleeping reader again once
\* the wake-up it waits for has come and its condition (queued clear) holds.
FairSpec == Spec /\ \A c \in Channels : WF_vars(ReadWake(c))

-----------------------------------------------------------------------------
(* Properties                                                              *)

TypeOK ==
    /\ configSet \in BOOLEAN /\ suspended \in BOOLEAN
    /\ opened \in [Channels -> BOOLEAN]
    /\ out \in [Channels -> OutReq]
    /\ pc \in [Channels -> PCs]
    /\ nCopy \in [Channels -> 0..MaxPacket]
    /\ owed \in [Channels -> 0..OwedBound]

\* Every byte the host got acknowledged in a BULK-OUT transfer on an open
\* channel is still in the request's buffer until bps_read has copied it
\* out: no re-arming of the request (bps_read, resume_gadget, bulk_urb_complete)
\* throws away bytes the reader has not consumed.
NoReceivedDataLost ==
    \A c \in Channels : opened[c] => owed[c] = Pending(out[c])

\* The BUG_ON(rx_bytes > actual) assertions in bps_read never fire.
NoBugOn ==
    \A c \in Channels : pc[c] # "oops"

\* The queued flag the driver keeps for a BULK-OUT request agrees with the
\* UDC: it is set exactly while the request is on the endpoint's queue, so
\* queue_out_request never queues a request twice and dequeue_request never
\* skips one, whatever the order of read, completion and gadget events.
QueuedIffOutstanding ==
    \A c \in Channels : out[c].queued <=> out[c].busy

\* suspend_gadget is a barrier: while the device is suspended no BULK-OUT
\* transfer is on the bus, neither one left over from before the suspend nor
\* one resubmitted by bulk_urb_complete or bps_read after it.
SuspendQuiesces ==
    suspended => \A c \in Channels : ~out[c].busy

\* resume_gadget re-arms the BULK-OUT request of every open channel of a
\* configured device: after the resume step the request is on the bus, or
\* usb_ep_queue refused it and queue_out_request left it idle with its
\* cursor and length reset; it is never left as the suspend found it.
ResumeRearms ==
    [][suspended /\ ~suspended' =>
         \A c \in Channels :
            opened[c] /\ configSet =>
                \/ out'[c].queued
                \/ ~out'[c].busy /\ out'[c].rx = 0 /\ out'[c].actual = 0]_vars

\* A reader asleep in bps_read on a device that is unconfigured (by a
\* disconnect or a SET_CONFIGURATION) is woken and leaves the wait: the
\* dequeue in reset_config completes its request and bulk_urb_complete
\* does not resubmit it, whether or not the host ever transfers again.
ReaderReleased ==
    \A c \in Channels : (pc[c] = "wait" /\ ~configSet) ~> pc[c] # "wait"

\* A configured, awake device never strands an open channel: its BULK-OUT
\* request is armed, or bps_poll reports POLLIN so that the reader comes to
\* bps_read and re-arms it (the completion handler resubmits failed transfers
\* so that the device is always ready to receive).
NeverStranded ==
    \A c \in Channels :
        configSet /\ ~suspended /\ opened[c] /\ pc[c] \in {"idle", "wait"}
            => out[c].queued \/ PollIn(c)


-----------------------------------------------------------------------------
(* Refinement of the channel abstraction                                   *)

\* The bytes a channel holds for its reader are the unconsumed part of a
\* successfully completed BULK-OUT transfer; a read is returning bytes
\* between copy_to_user's bytes_to_copy and the rx_bytes update.
Chan == INSTANCE ByteChannel WITH
          isOpen <- opened,
          buffered <- [c \in Channels |-> IF opened[c] THEN Pending(out[c]) ELSE 0],
          reading <- [c \in Channels |-> pc[c] = "advance"]

\* The receive path implements the byte channel: the bytes of a completed
\* transfer leave the request only through bps_read's rx_bytes update,
\* never by queue_out_request re-arming over them, and the host's next
\* transfer is only taken once the reader has consumed the last.
ImplementsByteChannel == Chan!Spec

=============================================================================
