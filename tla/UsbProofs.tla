----------------------------- MODULE UsbProofs -----------------------------
(***************************************************************************)
(* The search of UsbDiscovery for every number of devices and interfaces:  *)
(* whichever libusb calls fail, what was tried and given up is given back. *)
(* The invariant Search says what is held at each call of the search.      *)
(***************************************************************************)
EXTENDS UsbDiscovery, TLAPS

USE DiscoveryAssumption

Untouched(x) == x \notin opened /\ claims[x] = {}

Kept(x) == x \in opened /\ claims[x] = Interfaces

Searching == {"list", "open", "config", "claim", "cleanup", "next"}
Over      == {"test", "connected", "release"}

Search ==
    /\ pc = "list" => d = 0 /\ opened = {}
    /\ pc \in Searching =>
         /\ usbhnd = NoHandle /\ nb_ifaces = 0
         /\ \A x \in Devices : x # d => Untouched(x)
    /\ pc \in {"open", "config", "claim", "cleanup", "next"} => d \in Devices
    /\ pc \in {"list", "open"} => \A x \in Devices : Untouched(x)
    /\ pc = "config" => claims[d] = {} /\ claimed_ifaces = 0
    /\ pc = "claim" => /\ d \in opened
                       /\ claimed_ifaces < NumInterfaces
                       /\ claims[d] = 0..(claimed_ifaces - 1)
    /\ pc = "config" => d \in opened
    /\ pc = "next" => claims[d] = {}
    /\ pc \in Over =>
         /\ \A x \in Devices : IF x = usbhnd THEN Kept(x) ELSE Untouched(x)
         /\ nb_ifaces = IF usbhnd = NoHandle THEN 0 ELSE NumInterfaces

UInv == TypeOK /\ Search

LEMMA InitialSearch == Init => UInv
  BY DEF Init, UInv, TypeOK, Search, Devices, NoHandle, RETURN_ERROR, Untouched, Searching, Over

LEMMA SearchKept == UInv /\ [Next]_vars => UInv'
  <1> SUFFICES ASSUME UInv, [Next]_vars PROVE UInv'
    OBVIOUS
  <1>a. TypeOK /\ Search
    BY DEF UInv
  <1>1. CASE List
    BY <1>a, <1>1 DEF List, UInv, TypeOK, Search, Fails, RETURN_ERROR, Searching, Over, Untouched,
                      NoHandle, Devices
  <1>2. CASE Open
    <2>1. pc = "open" /\ d \in Devices /\ \A x \in Devices : Untouched(x)
      BY <1>a, <1>2 DEF Open, Search
    <2>2. pc' \in {"next", "config"} /\ UNCHANGED <<d, usbhnd, claims, nb_ifaces>>
          /\ claimed_ifaces' = 0 /\ opened' \in {opened, opened \cup {d}}
          /\ (pc' = "config" => d \in opened')
      BY <1>2 DEF Open
    <2>3. TypeOK'
      <3>1. opened' \in SUBSET Devices
        BY <1>a, <2>1, <2>2 DEF TypeOK
      <3>2. return_value' \in ErrorCodes \cup {0} /\ handle' \in {"null", "open"}
        BY <1>2 DEF Open, Fails
      <3> QED
        BY <1>a, <2>2, <3>1, <3>2 DEF TypeOK
    <2> QED
      BY <1>a, <2>1, <2>2, <2>3 DEF UInv, Search, Untouched, Searching, Over
  <1>3. CASE Config
    <2>1. /\ pc = "config" /\ d \in Devices /\ d \in opened /\ claims[d] = {}
          /\ claimed_ifaces = 0 /\ \A x \in Devices : x # d => Untouched(x)
      BY <1>a, <1>3 DEF Config, Search, Searching
    <2>2. /\ UNCHANGED <<d, claimed_ifaces, usbhnd, claims, nb_ifaces>>
          /\ \/ pc' = "next" /\ opened' = opened \ {d}
             \/ pc' = "claim" /\ opened' = opened
      BY <1>3 DEF Config
    <2>3. TypeOK'
      BY <1>a, <1>3 DEF Config, TypeOK, Fails
    <2>4. claims[d] = 0..(claimed_ifaces - 1) /\ claimed_ifaces < NumInterfaces
      BY <2>1
    <2> QED
      BY <1>a, <2>1, <2>2, <2>3, <2>4 DEF UInv, Search, Untouched, Searching, Over
  <1>4. CASE Claim
    <2>1. /\ pc = "claim" /\ d \in Devices /\ d \in opened /\ usbhnd = NoHandle
          /\ nb_ifaces = 0
          /\ claims[d] = 0..(claimed_ifaces - 1) /\ claimed_ifaces < NumInterfaces
          /\ \A x \in Devices : x # d => Untouched(x)
      BY <1>a, <1>4 DEF Claim, Search, Searching
    <2>2. UNCHANGED <<d, handle, opened>>
      BY <1>4 DEF Claim
    <2>3. CASE Fails /\ pc' = "cleanup" /\ UNCHANGED <<claimed_ifaces, claims, usbhnd, nb_ifaces>>
      BY <1>a, <2>1, <2>2, <2>3 DEF Fails, UInv, TypeOK, Search, Untouched, Searching, Over
    <2>4. CASE /\ return_value' = 0
               /\ claims' = [claims EXCEPT ![d] = @ \cup {claimed_ifaces}]
               /\ claimed_ifaces' = claimed_ifaces + 1
               /\ IF claimed_ifaces' = NumInterfaces
                  THEN usbhnd' = d /\ nb_ifaces' = NumInterfaces /\ pc' = "test"
                  ELSE UNCHANGED <<usbhnd, nb_ifaces, pc>>
      <3>1. claimed_ifaces \in Interfaces
        BY <1>a, <2>1 DEF TypeOK, Interfaces
      <3>2. /\ claims' \in [Devices -> SUBSET Interfaces]
            /\ claims'[d] = 0..claimed_ifaces
            /\ \A x \in Devices : x # d => claims'[x] = claims[x]
        BY <1>a, <2>1, <2>4, <3>1 DEF TypeOK, Interfaces
      <3>3. claimed_ifaces' \in 0..NumInterfaces
        BY <1>a, <2>1, <2>4 DEF TypeOK
      <3>4. TypeOK'
        BY <1>a, <2>1, <2>2, <2>4, <3>2, <3>3 DEF TypeOK
      <3>5. CASE claimed_ifaces' = NumInterfaces
        <4>1. claims'[d] = Interfaces
          BY <1>a, <2>4, <3>2, <3>5 DEF TypeOK, Interfaces
        <4>2. pc' = "test" /\ usbhnd' = d /\ nb_ifaces' = NumInterfaces /\ d # NoHandle
          BY <2>1, <2>4, <3>5 DEF Devices, NoHandle
        <4> QED
          BY <2>1, <2>2, <3>2, <3>4, <4>1, <4>2 DEF UInv, Search, Untouched, Kept, Searching, Over
      <3>6. CASE claimed_ifaces' # NumInterfaces
        <4>1. /\ pc' = "claim" /\ UNCHANGED <<usbhnd, nb_ifaces>>
              /\ claimed_ifaces' < NumInterfaces /\ claims'[d] = 0..(claimed_ifaces' - 1)
          BY <1>a, <2>1, <2>4, <3>2, <3>6 DEF TypeOK
        <4> QED
          BY <2>1, <2>2, <3>2, <3>4, <4>1 DEF UInv, Search, Untouched, Searching, Over
      <3> QED
        BY <3>5, <3>6
    <2> QED
      BY <1>4, <2>3, <2>4 DEF Claim
  <1>5. CASE CleanUp
    BY <1>a, <1>5 DEF CleanUp, UInv, TypeOK, Search, Untouched, Searching, Over
  <1>6. CASE NextDevice
    <2>1. /\ pc = "next" /\ d \in Devices /\ usbhnd = NoHandle /\ nb_ifaces = 0
          /\ claims[d] = {} /\ \A x \in Devices : x # d => Untouched(x)
      BY <1>a, <1>6 DEF NextDevice, NextDeviceStep, Search, Searching
    <2>2. /\ opened' = opened \ {d} /\ d' = d + 1
          /\ pc' = IF d + 1 < NumDevices THEN "open" ELSE "test"
          /\ UNCHANGED <<claimed_ifaces, return_value, usbhnd, claims, nb_ifaces>>
      BY <1>6 DEF NextDevice, NextDeviceStep
    <2>3. d' \in 0..NumDevices /\ (pc' = "open" => d' \in Devices)
      BY <2>1, <2>2 DEF Devices
    <2>4. TypeOK'
      BY <1>a, <1>6, <2>2, <2>3 DEF NextDevice, NextDeviceStep, TypeOK
    <2>5. \A x \in Devices : Untouched(x)' /\ x # NoHandle
      BY <2>1, <2>2 DEF Untouched, Devices, NoHandle
    <2> QED
      BY <2>1, <2>2, <2>3, <2>4, <2>5 DEF UInv, Search, Searching, Over, Untouched
  <1>7. CASE MainTest \/ MainRuns
    BY <1>a, <1>7 DEF MainTest, MainRuns, UInv, TypeOK, Search, Searching, Over, Untouched, Kept
  <1>8. CASE ReleaseUsb
    <2>1. pc = "release" /\ pc' = "ended" /\ UNCHANGED <<d, handle, claimed_ifaces, return_value>>
      BY <1>8 DEF ReleaseUsb, ReleaseInterfaces
    <2>2. claims' \in [Devices -> SUBSET Interfaces]
      BY <1>a, <1>8 DEF ReleaseUsb, ReleaseInterfaces, TypeOK
    <2>3. opened' \in SUBSET Devices /\ usbhnd' \in Devices \cup {NoHandle}
          /\ nb_ifaces' \in {0, NumInterfaces}
      BY <1>a, <1>8 DEF ReleaseUsb, ReleaseInterfaces, TypeOK
    <2> QED
      BY <1>a, <2>1, <2>2, <2>3 DEF UInv, TypeOK, Search, Searching, Over
  <1>9. CASE UNCHANGED vars
    BY <1>a, <1>9 DEF vars, UInv, TypeOK, Search, Untouched, Kept, Searching, Over
  <1> QED
    BY <1>1, <1>2, <1>3, <1>4, <1>5, <1>6, <1>7, <1>8, <1>9 DEF Next, Ended

LEMMA ReleaseStep ==
    UInv /\ [Next]_vars =>
        (ReleaseUsb => opened' = {} /\ \A x \in Devices : claims'[x] = {})
  <1> SUFFICES ASSUME UInv, ReleaseUsb
               PROVE  opened' = {} /\ \A x \in Devices : claims'[x] = {}
    OBVIOUS
  <1> USE DEF UInv, TypeOK, Search, Untouched, Kept, Over, ReleaseUsb, ReleaseInterfaces
  <1>1. opened \subseteq {usbhnd} /\ \A x \in Devices : x # usbhnd => claims[x] = {}
    OBVIOUS
  <1>2. CASE usbhnd = NoHandle
    <2>1. NoHandle \notin Devices /\ opened \subseteq Devices
      BY DEF Devices, NoHandle
    <2>2. opened = {} /\ \A x \in Devices : claims[x] = {}
      BY <1>1, <1>2, <2>1
    <2> QED
      BY <1>2, <2>2
  <1>3. CASE usbhnd # NoHandle
    <2>1. usbhnd \in Devices /\ claims[usbhnd] = 0..(nb_ifaces - 1)
      BY <1>3 DEF Interfaces
    <2> QED
      BY <1>1, <1>3, <2>1
  <1> QED
    BY <1>2, <1>3

(* The search is over with no handle only past the last device: Claim ends *)
(* it with one, and NextDevice goes on while there is a device left.       *)
LEMMA SearchStep ==
    UInv /\ [Next]_vars =>
        (pc # "test" /\ pc' = "test" /\ usbhnd' = NoHandle => d' = NumDevices \/ pc = "list")
  <1> SUFFICES ASSUME UInv, [Next]_vars, pc # "test", pc' = "test", usbhnd' = NoHandle
               PROVE  d' = NumDevices \/ pc = "list"
    OBVIOUS
  <1>1. CASE List
    BY <1>1 DEF List
  <1>2. CASE Open \/ Config \/ CleanUp \/ MainTest \/ MainRuns \/ ReleaseUsb \/ Ended
             \/ UNCHANGED vars
    BY <1>2 DEF Open, Config, CleanUp, MainTest, MainRuns, ReleaseUsb, ReleaseInterfaces, Ended,
                vars
  <1>3. CASE Claim
    <2>1. d \in Devices /\ pc = "claim"
      BY <1>3 DEF Claim, UInv, Search
    <2>2. usbhnd' = d
      BY <1>3, <2>1 DEF Claim
    <2> QED
      BY <2>1, <2>2 DEF Devices, NoHandle
  <1>4. CASE NextDevice
    BY <1>4 DEF NextDevice, NextDeviceStep, UInv, Search, Devices
  <1> QED
    BY <1>1, <1>2, <1>3, <1>4 DEF Next

(* Every variable keeps its type: the search stays within the devices and  *)
(* the interfaces there are, however many, and whatever fails.             *)
THEOREM TypeCorrect == Spec => []TypeOK
  BY InitialSearch, SearchKept, PTL DEF Spec, UInv

(* The search keeps a device with all its interfaces or gives everything   *)
(* back (discover_vip_pid's "clean up failed attempt").                    *)
THEOREM SearchIsClean == Spec => []AllOrNothing
  <1>1. UInv => AllOrNothing
    BY DEF UInv, Search, AllOrNothing, Over, Untouched, Kept
  <1> QED
    BY <1>1, InitialSearch, SearchKept, PTL DEF Spec

(* release_usb gives back all there is.                                    *)
THEOREM ReleaseIsComplete == Spec => ReleasesAll
  BY InitialSearch, SearchKept, ReleaseStep, PTL DEF Spec, ReleasesAll

(* A device that fails never ends the search while another one is left     *)
(* (discover_vip_pid's loop over the devices found).                       *)
THEOREM SearchIsExhaustive == Spec => SearchesAll
  BY InitialSearch, SearchKept, SearchStep, PTL DEF Spec, SearchesAll
=============================================================================
