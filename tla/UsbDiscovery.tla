--------------------------- MODULE UsbDiscovery ---------------------------
(***************************************************************************)
(* How main finds and gives back the tracker (polhemus_tf_broadcaster.cpp):*)
(* create_vip_list, discover_vip_pid, main's test of its result, and       *)
(* release_usb.  libusb is external: each of its calls may fail with one   *)
(* of ErrorCodes, of which -1 (LIBUSB_ERROR_IO) is also RETURN_ERROR.      *)
(***************************************************************************)
EXTENDS Integers, FiniteSets

CONSTANTS NumDevices,      \* devices with the vendor and product id on the bus
          NumInterfaces,   \* interfaces of a device
          ErrorCodes       \* what a failing libusb call returns

(* The array discover_vip_pid fills holds VPUSB_MAX_DISCOVERABLE = 16      *)
(* entries, and its loop runs to the number found: more than 16 devices    *)
(* would make it read past the end, which is left out here.                *)
ASSUME DiscoveryAssumption == /\ NumDevices \in 0..16
                              /\ NumInterfaces \in Nat \ {0}
                              /\ ErrorCodes \subseteq {n \in Int : n < 0}

VARIABLES pc,              \* the libusb call reached
          d,               \* the device the loop of discover_vip_pid is at
          handle,          \* whether it has been opened: "null", "open", "closed"
          claimed_ifaces,
          return_value,
          usbhnd,          \* main's handle: a device, or NoHandle
          opened,          \* the devices whose handle is open
          claims,          \* the interfaces claimed, per device
          nb_ifaces        \* usbinfo.usbNumInterfaces

vars == <<pc, d, handle, claimed_ifaces, return_value, usbhnd, opened, claims, nb_ifaces>>

Devices    == 0..(NumDevices - 1)
Interfaces == 0..(NumInterfaces - 1)
NoHandle   == -1
RETURN_ERROR == -1

TypeOK ==
    /\ pc \in {"list", "open", "config", "claim", "cleanup", "next", "test", "connected",
               "release", "ended"}
    /\ d \in 0..NumDevices
    /\ handle \in {"null", "open", "closed"}
    /\ claimed_ifaces \in 0..NumInterfaces
    /\ return_value \in ErrorCodes \cup {RETURN_ERROR, 0}
    /\ usbhnd \in Devices \cup {NoHandle}
    /\ opened \in SUBSET Devices
    /\ claims \in [Devices -> SUBSET Interfaces]
    /\ nb_ifaces \in {0, NumInterfaces}

Init ==
    /\ pc = "list" /\ d = 0 /\ handle = "null" /\ claimed_ifaces = 0
    /\ return_value = RETURN_ERROR
    /\ usbhnd = NoHandle /\ nb_ifaces = 0
    /\ opened = {} /\ claims = [x \in Devices |-> {}]

Fails == \E e \in ErrorCodes : return_value' = e

(* libusb_init and create_vip_list, whose own failures are RETURN_ERROR,   *)
(* like an empty bus and one with nothing that matches; a failing          *)
(* libusb_get_device_list returns its code.                                *)
List ==
    /\ pc = "list"
    /\ \/ Fails /\ pc' = "test"
       \/ return_value' = RETURN_ERROR /\ pc' = "test"
       \/ NumDevices > 0 /\ return_value' = 0 /\ pc' = "open"
    /\ UNCHANGED <<d, handle, claimed_ifaces, usbhnd, opened, claims, nb_ifaces>>

Open ==
    /\ pc = "open"
    /\ claimed_ifaces' = 0
    /\ \/ Fails /\ handle' = "null" /\ pc' = "next" /\ UNCHANGED opened
       \/ /\ return_value' = 0 /\ handle' = "open" /\ pc' = "config"
          /\ opened' = opened \cup {d}
    /\ UNCHANGED <<d, usbhnd, claims, nb_ifaces>>

(* A failure closes the handle but keeps the pointer.                      *)
Config ==
    /\ pc = "config"
    /\ \/ Fails /\ handle' = "closed" /\ pc' = "next" /\ opened' = opened \ {d}
       \/ return_value' = 0 /\ pc' = "claim" /\ UNCHANGED <<handle, opened>>
    /\ UNCHANGED <<d, claimed_ifaces, usbhnd, claims, nb_ifaces>>

(* The loop over the interfaces ends at the first one that is refused.     *)
Claim ==
    /\ pc = "claim"
    /\ \/ Fails /\ pc' = "cleanup" /\ UNCHANGED <<claimed_ifaces, claims, usbhnd, nb_ifaces>>
       \/ /\ return_value' = 0
          /\ claims' = [claims EXCEPT ![d] = @ \cup {claimed_ifaces}]
          /\ claimed_ifaces' = claimed_ifaces + 1
          /\ IF claimed_ifaces' = NumInterfaces
             THEN usbhnd' = d /\ nb_ifaces' = NumInterfaces /\ pc' = "test"
             ELSE UNCHANGED <<usbhnd, nb_ifaces, pc>>
    /\ UNCHANGED <<d, handle, opened>>

CleanUpForgotten ==        \* mutant: the interfaces stay claimed
    /\ pc = "cleanup"
    /\ pc' = "next"
    /\ UNCHANGED <<d, handle, claimed_ifaces, return_value, usbhnd, opened, claims, nb_ifaces>>

(* All interfaces are released, claimed or not.                            *)
CleanUp ==
    /\ pc = "cleanup"
    /\ claims' = [claims EXCEPT ![d] = {}]
    /\ pc' = "next"
    /\ UNCHANGED <<d, handle, claimed_ifaces, return_value, usbhnd, opened, nb_ifaces>>

(* The handle is closed (a closed one once more) and the loop goes on; when *)
(* it ends, the last device's code is returned: the test for -99 looks at  *)
(* the pointer to the handle, which is never null.                         *)
NextDeviceStep(more) ==
    /\ pc = "next"
    /\ opened' = opened \ {d}
    /\ handle' = IF handle = "null" THEN "null" ELSE "closed"
    /\ d' = d + 1
    /\ pc' = IF more THEN "open" ELSE "test"
    /\ UNCHANGED <<claimed_ifaces, return_value, usbhnd, claims, nb_ifaces>>

NextDeviceOneMore == NextDeviceStep(d + 1 <= NumDevices)   \* mutant: off by one
NextDeviceNever   == NextDeviceStep(FALSE)                 \* mutant: the first failure is final

NextDevice == NextDeviceStep(d + 1 < NumDevices)

(* main ends if the result is RETURN_ERROR and goes on otherwise.          *)
MainTest ==
    /\ pc = "test"
    /\ pc' = IF return_value = RETURN_ERROR THEN "ended" ELSE "connected"
    /\ UNCHANGED <<d, handle, claimed_ifaces, return_value, usbhnd, opened, claims, nb_ifaces>>

(* The driver has run: it ends its loop or fails to load the calibration   *)
(* and releases the device, or it returns from main during the set-up.     *)
MainRuns ==
    /\ pc = "connected"
    /\ pc' \in {"release", "ended"}
    /\ UNCHANGED <<d, handle, claimed_ifaces, return_value, usbhnd, opened, claims, nb_ifaces>>

ReleaseInterfaces(upto) ==
    /\ pc = "release"
    /\ IF usbhnd = NoHandle THEN UNCHANGED <<claims, opened, usbhnd, nb_ifaces>>
       ELSE /\ claims' = [claims EXCEPT ![usbhnd] = @ \ (0..upto)]
            /\ opened' = opened \ {usbhnd}
            /\ usbhnd' = NoHandle /\ nb_ifaces' = 0
    /\ pc' = "ended"
    /\ UNCHANGED <<d, handle, claimed_ifaces, return_value>>

ReleaseUsbButLast == ReleaseInterfaces(nb_ifaces - 2)      \* mutant: off by one

ReleaseUsb == ReleaseInterfaces(nb_ifaces - 1)

Ended == pc = "ended" /\ UNCHANGED vars

Next == \/ List \/ Open \/ Config \/ Claim \/ CleanUp \/ NextDevice
        \/ MainTest \/ MainRuns \/ ReleaseUsb \/ Ended

Spec == Init /\ [][Next]_vars

----------------------------------------------------------------------------
(* When the search is over, the devices it tried and gave up are closed    *)
(* with no interface claimed, and the one it kept, if any, is open with    *)
(* all of them: "clean up failed attempt before trying the next one".      *)
AllOrNothing ==
    pc \in {"test", "connected"} =>
        \A x \in Devices :
            IF x = usbhnd THEN x \in opened /\ claims[x] = Interfaces
            ELSE x \notin opened /\ claims[x] = {}

(* After release_usb nothing is open or claimed.                           *)
ReleasesAll ==
    [][ReleaseUsb => opened' = {} /\ \A x \in Devices : claims'[x] = {}]_vars

(* No device is given up while a later one could be had: the search fails  *)
(* only past the last device or without one.                               *)
SearchesAll ==
    [][pc # "test" /\ pc' = "test" /\ usbhnd' = NoHandle =>
         d' = NumDevices \/ pc = "list"]_vars

(* main runs the driver only on a device it holds (README.md:56).          *)
ConnectedHasHandle == pc = "connected" => usbhnd # NoHandle
=============================================================================
