# TLA+ models of the BPS USB gadget driver

The repository is a set of Linux 2.6.28 board files and drivers for an NXP
LPC313x label printer. One file has real behaviour:
`src/linux-2.6.28.2/drivers/usb/gadget/bps_gadget.c`. It is a USB
device-side (gadget) driver. It exposes two character devices, DATA (minor 0)
and CONFIG (minor 1). Each is backed by a BULK-OUT/BULK-IN endpoint pair, and
both share one interrupt endpoint. This project models that driver. The rest
of the repository is declarative set-up code and is listed as not modelled.

## 1. Inventory

### Components and their state

| Component | Code | State |
|---|---|---|
| Endpoint slot | `struct bps_ep` (l.150) | `queued` flag, the `usb_request` (status, actual length, buffer), buffer size |
| Channel | `struct bps_cdev` (l.173) | `opened`, `rx_bytes` (read cursor), IN/OUT slot, own interrupt slot, spinlock, wait queue |
| Device | `static struct bps` (l.202) | `config_set`, `suspended`, `bound`, global lock, `ep_list[EP0..INTRIN1]`, `data_err_ep` (error report request on the CONFIG BULK-IN endpoint), two channels |
| Completion dispatcher | `ep0_complete`, `data_err_urb_complete`, `intr_urb_complete`, `bulk_urb_complete` (l.572-683) | none of its own: clears `queued`, wakes the channel, resubmits failed BULK-OUT transfers |
| Configuration negotiator | `setup_gadget`, `set_config`, `reset_config`, `disconnect_gadget`, `suspend_gadget`, `resume_gadget` (l.693-1233) | `config_set`, `suspended`, endpoint enable state |
| Bind/allocation | `bind_gadget`, `allocate_*`, `free_all_requests`, `unbind_gadget` (l.443-978) | request and buffer allocation |
| Channel I/O facade | `bps_open`, `bps_release`, `bps_read`, `bps_write(_impl)`, `send_zlp`, `send_intr_notification`, `send_data_error`, `bps_poll`, `bps_ioctl` (l.1251-1781) | per-call locals (`bytes_to_copy`, remaining `len`) |
| Module/cdev registration | `on_load`, `on_unload`, `register_bps_chr_iface` (l.1825-1913) | SKU parameter, device numbers |
| Not modelled | `fsl_lpc_udc.c`, `arch/arm/mach-lpc313x/*`, `drivers/bps/*`, headers | register I/O and static tables |

### How the parts interact

- **Process context** (one thread per open channel, by the driver's
  contract) calls open/read/write/poll/ioctl. These take the channel lock
  (`spin_lock_irqsave`), or the global lock for open and release. They submit
  requests with `usb_ep_queue` and sleep on the channel's wait queue.
- **Interrupt context** (the UDC interrupt) runs the completion handlers and
  the gadget callbacks: setup, disconnect, suspend and resume. Completions
  clear `queued`, wake the wait queue, and resubmit failed BULK-OUT requests.
  Suspend, disconnect and reconfiguration dequeue requests. The UDC's dequeue
  calls the completion handler at once, with an error status.
- **Shared state**: `config_set` and `suspended` are read by every facade
  call and by the completion handler. The error-report request (`data_err_ep`)
  belongs to the DATA channel (its lock and wait queue) but sits on the CONFIG
  channel's BULK-IN endpoint. Both channels' interrupt requests sit on the one
  interrupt endpoint.
- **Atomicity**: the SoC is a single-core ARM926, so a region under
  `spin_lock_irqsave` cannot be interrupted, and an interrupt handler runs to
  completion. The hard parts are the places where process context has
  dropped the lock:
  - `bps_read` lines 1387-1409: copy, advance the cursor, re-arm;
  - the writers between `usb_ep_queue` and `wait_event`;
  - the wake-up paths that read `status`/`actual` without the lock.

### What is hard

- Interrupt-context events between the unlocked steps of `bps_read`. Resume
  re-arms the request while the reader is copying from it.
- The completion handler's resubmission has to agree with the flags that
  suspend, release and reset_config set before they dequeue.
- Transport faults: `usb_ep_queue` can fail (the UDC allocates transfer
  descriptors with `GFP_ATOMIC`), transfers can end in error, and
  `usb_ep_enable` can fail during `SET_CONFIGURATION`.
- Re-enumeration (disconnect, `SET_CONFIGURATION`) and bus suspend/resume
  while channels are open and threads are blocked.
- Blocking writers that wait uninterruptibly. On the DATA channel they also
  wait for the error-report transfer on another channel's endpoint.

### Properties that make each component correct

- Endpoint slot: `queued` is set exactly while the request is on the UDC
  queue, so there is never a double submission or a missed dequeue. While
  suspended, nothing is on the bus.
- Receive path: every byte the host sent reaches the reader, in order, before
  the buffer is reused. The cursor never passes the transfer length (the
  `BUG_ON`). An open channel of an awake, configured device is always armed
  or readable.
- Negotiator: resume re-arms open channels. Reconfiguration cancels
  everything and wakes blocked callers.
- Transmit path: no request is queued twice, a blocked writer is released by
  completion, suspend or disconnect, no transfer overruns its buffer, and a
  write the host keeps reading returns.

The hazards, each at its line, are listed in `PROJECT.json` under "hazards".

## 2. Plan

Modules, in order of importance, and where they stand:

1. **BpsRx** (done). The receive path: the BULK-OUT slots and the reader
   thread of each channel (open, release, every path of `bps_read`), the
   BULK-OUT completion, and suspend, resume, disconnect and `set_config` as
   they affect the receive side.
2. **BpsTx** (done). The transmit path: `bps_write_impl`'s chunking loop,
   `send_zlp`, `send_intr_notification`, `send_data_error`,
   `is_write_channel_busy`, the BULK-IN, interrupt and error-report slots and
   their completions, and the same gadget events.
3. **ByteChannel** (done). The abstract channel a reader sees; BpsRx refines
   it through `INSTANCE ... WITH`.
4. **BpsSetup** (done). `setup_gadget` on ep0, the descriptor tables, their
   selection by speed, and `set_config`'s endpoint enabling.
5. **BpsBind** (done). `on_load`, `bind_gadget` and its allocations with
   every failure point, `on_unload`, and the `sku` parameter.
6. **BpsGadget** (open). Compose BpsRx and BpsTx over the shared
   `config_set` and `suspended` flags. Each side already models every event
   that touches the shared flags, and the two sides share no other state, so
   the composition would mostly multiply states. Its use would be to check
   `bps_poll`'s combined mask.

A write's return value (the hazard at line 1507) is checked in BpsTx. A
count is always what the host took. An error after earlier chunks went out
drops that count; spec.md allows it ("total bytes transferred or a negative
error"), so no property forbids it.

## 3. What is modelled now

### BpsRx (`BpsRx.tla`, instance `MCBpsRx.tla`)

State:

| Variable | Code |
|---|---|
| `configSet`, `suspended` | `bps.config_set`, `bps.suspended` |
| `opened[c]` | `bps.cdevs[c].opened` |
| `out[c]` | the BULK-OUT slot: `queued` (`bps_ep.queued`), `busy` (the request is on the UDC queue), `status`, `actual` (the `usb_request` fields), `rx` (`bps_cdev.rx_bytes`) |
| `pc[c]`, `nCopy[c]` | where the channel's reader thread is in `bps_read`, and its local `bytes_to_copy` |
| `owed[c]` | history variable: bytes the host handed over in successful transfers since the open that the reader has not yet copied |

Actions:
- `Open`, `Release`: `bps_open`, `bps_release`.
- `bps_read`: one action per path through the locked region (`ReadNotReady`
  -ECOMM, `ReadQueued` -EAGAIN or sleep, `ReadBug` the BUG_ON, `ReadRearm`
  re-arm a failed or consumed transfer, `ReadData` go and copy). The wake-up
  from the wait queue is `ReadWake`, and a signal is `ReadInterrupted`. The
  three unlocked steps are `ReadCopy`, `ReadAdvance` and `ReadRequeue`.
- `HostTransfer`: the UDC ends a BULK-OUT transfer and calls
  `bulk_urb_complete`.
- `Suspend`, `Resume`, `Disconnect` (`reset_config`), `SetConfig`: the gadget
  callbacks.

The helper operators `Completed`, `Resubmits`, `Dequeued`, `QueueOut` and
`PollIn` are `bulk_urb_complete`, its resubmission test, `dequeue_request`,
`queue_out_request` and `bps_poll`.

Abstractions:
- The data of a transfer is its length, from 0 (a zero-length packet) to
  `MaxPacket`. A read asks for 1..`MaxPacket` bytes. The runs with suspend
  use `MaxPacket = 2`: lengths 0, 1 and 2 give an empty transfer, a transfer
  read in one call, and a transfer read in parts. `rx_data` uses
  `MaxPacket = 4`, so a transfer is also consumed in three or four reads of
  mixed lengths, and a read's length can fall short of, match or exceed
  what is left.
- A failed transfer reports length 0. A failed or cancelled BULK-OUT request
  is re-armed with `actual = 0` before it is read, so a partial length is
  never used.
- `copy_to_user` always succeeds. An -EFAULT is an application error that
  still advances the cursor, and is left out.
- Resume is only called while suspended, and suspend only while awake. The
  UDC calls `resume` when the port leaves the suspended state.
- `OwedBound = 4` caps the history counter. It only limits how much data a
  run can lose; the correct code never owes more than one transfer.
- Two channels, symmetric on the receive path (a SYMMETRY set in the
  safety-only runs; `rx_data` checks temporal properties and does without it).
- Fairness (`FairSpec`): weak fairness on `ReadWake` only. The kernel runs a
  task woken on its wait queue whose condition holds. Nothing is assumed of
  the host, of signals or of the application.

Refinement. `ByteChannel.tla` is what a reader may rely on: while a channel
is open the host hands over packets of at most `MaxPacket` bytes, the next
only once the last is consumed, and bytes leave only by being returned from
`read()`. BpsRx defines `Chan == INSTANCE ByteChannel WITH` `isOpen <- opened`,
`buffered <-` the unconsumed part of a completed transfer (`Pending`), and
`reading <-` the reader being between `bytes_to_copy` and the `rx_bytes`
update. `ImplementsByteChannel == Chan!Spec` is checked as a PROPERTY. A
re-arm that throws unread bytes away changes `buffered` with no abstract
step to match, so the refinement fails exactly where data is lost.

### BpsTx (`BpsTx.tla`, instance `MCBpsTx.tla`)

State:

| Variable | Code |
|---|---|
| `configSet`, `suspended`, `opened[c]` | as in BpsRx |
| `ep[s]` | one record per IN request `s`: each channel's BULK-IN request (`InSlot(c)`), each channel's interrupt request (`IntrSlot(c)`), and `bps.data_err_ep` (`ErrSlot`). Fields: `queued`, `busy` (on the UDC queue), `status`, `length` (`p_req->length`), `size` (`urb_buffer_size`) |
| `wpc[c]`, `wslot[c]`, `wlen[c]` | where channel c's writer thread is, the request its call transmits on, and `bps_write_impl`'s remaining `len` |
| `retval[c]` | `bps_write_impl`'s `retval`: the bytes counted so far in the current call |
| `hostGot[c]` | history: the bytes the host accepted (status 0) from the current call's requests |
| `misuse` | history: `usb_ep_queue` was called on a request still on the UDC queue |

Actions:
- `WriteCall`: `bps_write`, and `send_data_error` on DATA, entering
  `bps_write_impl`.
- One pass of the loop is `WriteNotReady` (-ECOMM) or `WriteChunk`. It sets
  `length = min(urb_buffer_size, len)` and queues the request, or returns
  -EIO if queueing fails.
- `WriteWake`: the `wait_event` on `is_write_channel_busy` returns. The
  writer adds the chunk's actual to `retval`, subtracts it from `len` and
  loops, or returns (`WakeResult`: the count, or -EIO).
- `SendZlp`/`ZlpWake` and `SendIntr`/`IntrWake`: `send_zlp` and
  `send_intr_notification`.
- `HostComplete`: the host reads an IN transfer (or it fails), followed by
  the IN branch of `bulk_urb_complete`, `intr_urb_complete` or
  `data_err_urb_complete`. None of these resubmit.
- `Suspend`, `Resume`, `Disconnect`, `SetConfig`. `SetConfig` includes
  `save_urb_lengths` when every endpoint enable succeeds.

Abstractions:
- Buffers are scaled down: `InCap = 2` for 2048, `ErrCap = 1` for 64, and an
  interrupt buffer of 1. Writes are 1..3 bytes. A write is therefore split
  into a full chunk and a short one, and an error report into single bytes.
- The host reads the whole of an IN transfer or the transfer fails, so
  `actual` is `length` on success.
- The exits that change no state are left out: -EINVAL, -EWOULDBLOCK,
  -EOPNOTSUPP, -EFAULT, and the ECOMM of `send_zlp` and
  `send_intr_notification`. So are the `zero` flag and the interrupt value,
  which only shape what the host sees.
- `copy_from_user` and the locked region are one step. The size read before
  the lock can only be stale through `set_config`, and then only between two
  values both at most the buffer size.
- Requests on the same hardware endpoint (CONFIG's BULK-IN and the error
  report, or the two interrupt requests) may complete in any order. This
  over-approximates the UDC's FIFO order.
- Fairness (`FairSpec`): weak fairness on each writer's steps. A runnable or
  woken task is eventually scheduled. `HostFairSpec` adds weak fairness on
  `HostComplete`: the host keeps polling its IN endpoints. That is an
  assumption about the host, used only to state that a write terminates.

### BpsSetup (`BpsSetup.tla`, instance `MCBpsSetup.tla`)

State: the negotiated `speed`, `configSet`, `enabled[e]` (the descriptor
each endpoint was enabled with, or none), `ep0` (`queued`, on the bus,
`length`, `zero` of ep0's request), the last `setup` request and the `reply`
(stall, or the descriptors sent).

Actions:
- `HostSetup`: a SETUP packet and all of `setup_gadget`. `Reply` gives each
  GET_DESCRIPTOR branch's length and descriptors: device
  `min(wLength, 18)`, configuration `populate_config_buf` capped to
  `wLength`, string `usb_gadget_get_string` capped, qualifier 10 bytes on a
  dual-speed UDC. SET_CONFIGURATION runs `set_config`: `reset_config`, then
  `usb_ep_enable` on each endpoint with `select_ep_descriptor`'s descriptor,
  stopping at the first failure. `AnswerSetup` is the tail: length, `zero`,
  `usb_ep_queue`, or a stall.
- `Ep0Complete` (`ep0_complete`), `Disconnect` (`disconnect_gadget`), and
  `BusReset`: the UDC retires ep0, calls `disconnect_gadget`, and negotiates
  a speed.

Abstractions: a descriptor is a record of the fields chapter 9 constrains
(`bLength`, `bMaxPacketSize0`, `wMaxPacketSize`, `bInterval`, type). The
requests are the standard ones the code distinguishes, with `wLength` in
{8, 18, 255}: below, at and above the device descriptor's size. The UDC
retires a pending ep0 request when a SETUP arrives (fsl_udc_core.c is not in
the repository). `ValidDescriptor` is the USB 2.0 reference the replies are
checked against.

### BpsBind (`BpsBind.tla`, instance `MCBpsBind.tla`)

State: `loaded`, the `sku` parameter, `idProduct`, `driverReg`, `bound`,
`claimed` endpoints, allocated `reqs`, and `chardev`.

Actions: `Load` is `insmod` plus all of `on_load`; `BindOutcomes` lists what
`bind_gadget` leaves after each possible failure of `usb_ep_autoconfig`,
`alloc_ep_request` or `allocate_extra_usb_requests` (and the cleanup by
`free_all_requests`), `ChrIfaceOutcomes` those of `register_bps_chr_iface`,
and `LoadOutcome` combines them as `on_load` does. `Unload` is `on_unload`.
`WriteSkuParam` is a write to `/sys/module/.../parameters/sku`. `on_load`
runs in one thread and calls `bind_gadget` synchronously, so each is one
step.

Abstractions: `StoredSku` and `AsLong` model the parameter's `int` parsing
into an `unsigned int` and `bps_ioctl`'s `long` return at `IntBits = 16`
(TLC's integers are 32-bit; the sign wrap is the same at 32). The SKU values
are the whole range 771..774, each neighbour, and -1.

### Runs

| Run | Config | Result | What it shows |
|---|---|---|---|
| rx_data | `MCBpsRx_data.cfg` (faults on, no suspend, `FairSpec`, 4-byte transfers) | pass, 86k states | `ImplementsByteChannel`: the receive path refines `ByteChannel` through transfer errors, failed queueing, disconnect and re-enumeration. `NoBugOn`: the BUG_ON in `bps_read` cannot fire. `ReaderReleased`: a reader asleep on an unconfigured device is always woken. |
| rx_slots | `MCBpsRx_slots.cfg` (faults and suspend on) | pass, 579k states | `QueuedIffOutstanding`: the `queued` flag matches the UDC queue. `SuspendQuiesces`: nothing is on the bus while suspended. `ResumeRearms`: resume re-arms every open channel of a configured device, or leaves it reset when `usb_ep_queue` refuses. |
| rx_resume_loss | `MCBpsRx_resume_loss.cfg` | violation | Host sends data, bus suspends and resumes before the application reads, and `resume_gadget` re-arms the request, discarding the unread bytes (line 1230). |
| rx_resume_bugon | `MCBpsRx_resume_bugon.cfg` | violation | Suspend/resume while `bps_read` is between computing `bytes_to_copy` and advancing `rx_bytes`, then a zero-length packet: `rx_bytes > actual`, and the next read hits `BUG_ON` (line 1375). |
| rx_reconfig_stranded | `MCBpsRx_reconfig_stranded.cfg` | violation | `SET_CONFIGURATION` on an open channel cancels its receive request and never re-arms it. `bps_poll` reports no POLLIN, so a poll-driven reader waits forever (line 764). |
| tx_slots | `MCBpsTx_slots.cfg` (faults and suspend on, `FairSpec`) | pass, 910k states | `NoDoubleSubmit`: `is_write_channel_busy` keeps every writer asleep until each of its requests is back, including DATA's error report on the CONFIG endpoint. `TxSuspendQuiesces`: nothing is on the bus while suspended. `NoBufferOverrun`: no transfer is longer than its buffer, even after `save_urb_lengths`. `WriterReleased`: a writer blocked on a transfer returns once the device is suspended or unconfigured. `WriteCountDelivered`: a write that returns a count returns exactly the bytes the host accepted during the call, through cancelled and failed chunks. |
| tx_zlp_hang | `MCBpsTx_zlp_hang.cfg` (`HostFairSpec`, no suspend) | violation | `send_zlp` leaves the BULK-IN length at 0, and `SET_CONFIGURATION` copies it into `urb_buffer_size` (line 738). Every later write then queues zero-length chunks forever, in uninterruptible sleep. |
| setup_config | `MCBpsSetup_config.cfg` (faults on, both speeds) | pass, 1k states | `ConfiguredEndpointsMatchSpeed`: a configured device has every endpoint enabled with the descriptor of the current speed, through failed enables and resets at another speed. `TypeOK`: among other types, no negative retval is ever queued on ep0 as a reply length. |
| setup_replies | `MCBpsSetup_replies.cfg` | violation | GET_DESCRIPTOR(DEVICE_QUALIFIER) with `wLength` 8 gets 10 bytes (line 1081), of a qualifier whose `bMaxPacketSize0` is 0 (line 280). The HS interrupt endpoint's `bInterval` 255 (line 419) breaks the same property. |
| setup_config_zero | `MCBpsSetup_config_zero.cfg` | violation | SET_CONFIGURATION(0) enables every endpoint and sets `config_set` (line 1091). |
| bind_load | `MCBpsBind_load.cfg` (every failure point) | pass, 140 states | `NothingLeftUnloaded`: whatever fails during `on_load`, and after `on_unload`, no request, registration or character device is left. `ChardevOnlyWhenReady`: the character devices exist only while every request is allocated. |
| bind_sku | `MCBpsBind_sku.cfg` | violation | A sysfs write to `sku` after load makes `IOCTL_BPS_GET_SKU_MODEL` report a value out of range and different from `idProduct` (line 246); -1 comes back as -EPERM. |

`PROJECT.json` lists each finding. Every property of a passing run has a
mutant: a plausible coding error, defined as a "Fault model" operator next to
the definition it replaces, that TLC must catch under that run's config.

## 4. Not modelled, and why

- `fsl_lpc_udc.c`: the LPC313x UDC's system suspend/resume helpers save the
  USB and OTG interrupt masks, put the PHY in low power and restore them. What
  they restore depends on register semantics (which OTGSC bits are
  write-one-to-clear, when PORTSC reads back as the interrupt mask) that the
  repository does not contain, and their caller (`fsl_udc_core.c`) is not in
  the repository either.
- Whether the UDC sends a resume after a bus reset that follows a suspend.
  `bps.suspended` is cleared only by `resume_gadget` (line 1228). The models
  let `Resume` happen at any time while suspended, so they cannot tell a UDC
  that sends it from one that does not. The hazard is listed in
  `PROJECT.json` without a property.
- Board files, `drivers/bps/*`, headers: platform device tables, GPIO writes
  and constants, with no state machine.
- `bps_ioctl`'s other cases return a constant or call `send_zlp`,
  `send_intr_notification` and `send_data_error`, which BpsTx models.
- The data bytes themselves: every property is about lengths, cursors and
  flags, and no code path looks at a byte's value.
