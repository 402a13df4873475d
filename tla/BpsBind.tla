------------------------------- MODULE BpsBind -------------------------------
(***************************************************************************)
(* Life cycle of the BPS USB gadget driver (bps_gadget.c): on_load with    *)
(* its SKU check, usb_gadget_register_driver calling bind_gadget           *)
(* (allocate_endpoints, allocate_endpoint_requests,                        *)
(* allocate_extra_usb_requests and their cleanup), the character device   *)
(* registration, on_unload with unbind_gadget, and the sku module          *)
(* parameter that sysfs can rewrite while the module is loaded.            *)
(*                                                                         *)
(* on_load and on_unload run in one thread and call the gadget callbacks   *)
(* synchronously, so each is one step; the step computes the state the     *)
(* code leaves after the first allocation or registration that fails.     *)
(***************************************************************************)
EXTENDS Integers, Sequences

CONSTANTS
    FirstSku, LastSku,  \* BPS_FIRST_SKU, BPS_LAST_SKU
    IntBits,            \* width of int and long on the target
    SkuValues,          \* integers the sku parameter may be given
    Faults              \* whether allocations and registrations may fail

\* The endpoints allocate_endpoints claims with usb_ep_autoconfig, in order.
EpOrder == <<"bulkout1", "bulkin1", "bulkout2", "bulkin2", "intrin1">>

\* The requests, in the order bind allocates them: ep_list[EP0..BULKIN2]
\* (INTRIN1 has none) in allocate_endpoint_requests, then data_err_ep and
\* the two channels' interrupt requests in allocate_extra_usb_requests.
AllocOrder == <<"ep0", "bulkout1", "bulkin1", "bulkout2", "bulkin2",
                "data_err", "intr0", "intr1">>
AllReqs == {AllocOrder[i] : i \in 1..Len(AllocOrder)}

\* The first j elements of a sequence, as a set.
Prefix(seq, j) == {seq[i] : i \in 1..j}

\* param_set_int stores the parsed int into the unsigned int sku: the bit
\* pattern is kept, so a negative value reads back as a large one.
StoredSku(v) == v % (2^IntBits)

\* bps_ioctl returns the unsigned sku as a long of the same width.
AsLong(u) == IF u >= 2^(IntBits - 1) THEN u - 2^IntBits ELSE u

VARIABLES
    loaded,     \* the module is loaded (on_load returned 0)
    sku,        \* the sku module parameter (unsigned int)
    idProduct,  \* bps_device_descriptor.idProduct
    driverReg,  \* bps_gadget_driver is registered with the UDC
    bound,      \* bps.bound
    claimed,    \* endpoints whose driver_data marks them claimed
    reqs,       \* the usb_requests currently allocated
    chardev     \* the character device region is registered and added

vars == <<loaded, sku, idProduct, driverReg, bound, claimed, reqs, chardev>>

-----------------------------------------------------------------------------

\* Fault model: free_all_requests forgets the error-report request.
FreeAllRequestsSkippingDataErr(a) == a \cap {"data_err"}

\* free_all_requests: free_usb_request on both interrupt requests, on
\* data_err_ep and on ep_list[EP0..]; each frees what is allocated.
FreeAllRequests(a) ==
    a \ ({"intr0", "intr1", "data_err"}
         \cup {"ep0", "bulkout1", "bulkin1", "bulkout2", "bulkin2"})

\* bind_gadget after usb_ep_autoconfig_reset: allocate_endpoints claims
\* the endpoints and stops at the first usb_ep_autoconfig failure
\* (-ENODEV), leaving the earlier ones claimed; allocate_endpoint_requests
\* and allocate_extra_usb_requests then allocate the requests and on the
\* first failure (-ENOMEM) call free_all_requests.
BindOutcomes ==
    LET claimFails == IF Faults THEN 1..Len(EpOrder) ELSE {}
        allocFails == IF Faults THEN 1..Len(AllocOrder) ELSE {}
        all        == Prefix(EpOrder, Len(EpOrder))
    IN  {[ok |-> FALSE, claimed |-> Prefix(EpOrder, k - 1), reqs |-> {}] :
            k \in claimFails}
        \cup {[ok |-> FALSE, claimed |-> all,
               reqs |-> FreeAllRequests(Prefix(AllocOrder, j - 1))] :
                j \in allocFails}
        \cup {[ok |-> TRUE, claimed |-> all, reqs |-> AllReqs]}

\* unbind_gadget.
Unbind(a) == FreeAllRequests(a)

\* register_bps_chr_iface succeeds, or fails at register_chrdev_region,
\* or at cdev_add (after which it unregisters the region): no failure
\* leaves the region behind.
ChrIfaceOutcomes == IF Faults THEN {TRUE, FALSE} ELSE {TRUE}

\* Fault model: the character device is registered whatever
\* usb_gadget_register_driver returned.
LoadOutcomeIgnoringBind(b, c) ==
    /\ loaded' = c /\ driverReg' = c /\ chardev' = c
    /\ bound' = (b.ok /\ c)
    /\ reqs' = IF b.ok /\ c THEN b.reqs ELSE Unbind(b.reqs)

\* usb_gadget_register_driver with bind outcome b, then
\* register_bps_chr_iface with outcome c; usb_gadget_unregister_driver
\* (unbind_gadget) when the latter fails.
LoadOutcome(b, c) ==
    IF b.ok /\ c
    THEN /\ loaded' = TRUE /\ driverReg' = TRUE /\ bound' = TRUE
         /\ reqs' = b.reqs /\ chardev' = TRUE
    ELSE /\ bound' = FALSE
         /\ reqs' = IF b.ok THEN Unbind(b.reqs) ELSE b.reqs
         /\ UNCHANGED <<loaded, driverReg, chardev>>

\* insmod with sku=v, then on_load: an sku outside the SKU range fails
\* with -EINVAL before anything is touched; otherwise idProduct = sku and
\* the driver and the character device are registered.
Load ==
    /\ ~loaded
    /\ \E v \in SkuValues :
         /\ sku' = StoredSku(v)
         /\ IF sku' < FirstSku \/ sku' > LastSku
            THEN UNCHANGED <<loaded, idProduct, driverReg, bound, claimed,
                            reqs, chardev>>
            ELSE /\ idProduct' = sku' % 2^16
                 /\ \E b \in BindOutcomes, c \in ChrIfaceOutcomes :
                      /\ claimed' = b.claimed
                      /\ LoadOutcome(b, c)

\* on_unload: unregister_bps_chr_iface, then usb_gadget_unregister_driver
\* (unbind_gadget).  The endpoints stay marked until the next bind resets
\* them.  The module cannot be unloaded while a file holds it.
Unload ==
    /\ loaded
    /\ loaded' = FALSE
    /\ chardev' = FALSE
    /\ driverReg' = FALSE
    /\ bound' = FALSE
    /\ reqs' = Unbind(reqs)
    /\ UNCHANGED <<sku, idProduct, claimed>>

\* root writes /sys/module/bps_gadget/parameters/sku (S_IWUSR):
\* param_set_int stores any int, with no range check.
WriteSkuParam ==
    /\ loaded
    /\ \E v \in SkuValues : sku' = StoredSku(v)
    /\ UNCHANGED <<loaded, idProduct, driverReg, bound, claimed, reqs,
                   chardev>>

Init ==
    /\ loaded = FALSE
    /\ sku = 0
    /\ idProduct = 0
    /\ driverReg = FALSE
    /\ bound = FALSE
    /\ claimed = {}
    /\ reqs = {}
    /\ chardev = FALSE

Next == Load \/ Unload \/ WriteSkuParam

Spec == Init /\ [][Next]_vars

-----------------------------------------------------------------------------
(* Properties                                                              *)

\* Loading is all or nothing: whenever the module is not loaded, after an
\* on_load that failed at any allocation or registration or after
\* on_unload, no request, character device or driver registration is left.
NothingLeftUnloaded ==
    ~loaded => (reqs = {} /\ ~chardev /\ ~driverReg /\ ~bound)

\* The character devices only exist while the driver is bound with every
\* request allocated, so no file operation can reach a NULL p_req.
ChardevOnlyWhenReady ==
    chardev => (bound /\ reqs = AllReqs)

\* While the module is loaded, IOCTL_BPS_GET_SKU_MODEL returns a SKU of
\* the valid range, the one announced to the host as idProduct.
SkuReportValid ==
    loaded => (AsLong(sku) \in FirstSku..LastSku /\ AsLong(sku) = idProduct)

=============================================================================
