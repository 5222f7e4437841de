-------------------------------- MODULE UsbHost --------------------------------
(***************************************************************************)
(* A USB host controller between the firmware and QEMU's USB core.  The    *)
(* high-speed controller (USBHS) and the full-speed one (USBFS) have the   *)
(* same handlers at different register offsets; the module is about one.   *)
(*                                                                         *)
(* Writing HOST_EP_PID hands a packet to the device on the root port.  The *)
(* device answers at once, or keeps the packet and completes it later, so  *)
(* that the answer races with whatever the firmware writes in between.     *)
(* Data, lengths and DMA addresses are left out, except that a packet may  *)
(* fail for them.  INT_EN and the interrupt line are module MeipSlot's     *)
(* business.                                                               *)
(*                                                                         *)
(* waiting, heard, armed and asked record what the firmware did.           *)
(***************************************************************************)
EXTENDS Naturals

UsbTokens == {"SETUP", "IN", "OUT"}

CONSTANT UsbSent    \* the tokens of the packets that the firmware sends

ASSUME UsbSentAssumption == UsbSent \subseteq UsbTokens

VARIABLE usb

UsbFlags == {"TRANSFER", "DETECT"}
UsbAddrs == {"default", "assigned"}

\* How a packet may end; all but the first three show as a bare token.
UsbAnswers == {"SUCCESS", "NAK", "STALL", "IOERROR"}
UsbResults == UsbAnswers \cup {"NODEV", "none"}

UsbState ==
    [host : BOOLEAN,                            \* HOST_MODE
     intfg : SUBSET UsbFlags,
     intst : [token : UsbTokens \cup {"none"}, result : UsbResults],
     attach : BOOLEAN,                          \* DEV_ATTACH in MIS_ST
     addr : UsbAddrs,                           \* DEV_AD
     busReset : BOOLEAN,                        \* in last_host_ctrl
     device : UsbAddrs \cup {"none"},           \* the one on the root port
     flight : UsbTokens \cup {"none"},          \* the packet, while in flight
     waiting : BOOLEAN,  \* a request of the firmware is not answered yet
     heard : BOOLEAN,    \* it acknowledged that the device is there
     armed : BOOLEAN,    \* and threw no news away since it wrote INT_EN
     asked : SUBSET UsbTokens]                  \* since the last machine reset

UsbPresent(u) == u.device # "none"

\* ch32_usbhost_apply_packet_result: INT_ST and the transfer flag.
UsbApply(u, token, result) ==
    [u EXCEPT !.intst = [token |-> token, result |-> result],
              !.intfg = @ \cup {"TRANSFER"}, !.waiting = FALSE]

\* ch32_usbhost_resync_root_mmio: a device on the port is announced again.
UsbResyncRoot(u) ==
    IF UsbPresent(u)
    THEN [u EXCEPT !.attach = TRUE, !.intfg = @ \cup {"DETECT"}, !.armed = TRUE]
    ELSE [u EXCEPT !.armed = TRUE]

-----------------------------------------------------------------------------
(***************************************************************************)
(* The USB core calls: a device is plugged in or out, a packet completes.  *)
(***************************************************************************)

UsbAttach ==
    /\ ~UsbPresent(usb)
    /\ usb' = [usb EXCEPT !.device = "default", !.attach = TRUE,
                          !.intfg = @ \cup {"DETECT"}, !.heard = FALSE]

\* The packet in flight, if any, stays with the device that is gone.
UsbDetach ==
    /\ UsbPresent(usb)
    /\ usb' = [usb EXCEPT !.device = "none", !.attach = FALSE, !.intfg = @ \cup {"DETECT"}]

\* An IN packet that cannot be copied into the memory fails here.
UsbComplete ==
    /\ usb.flight # "none"
    /\ \E result \in UsbAnswers :
           usb' = UsbApply([usb EXCEPT !.flight = "none"], usb.flight, result)

(***************************************************************************)
(* HOST_EP_PID.                                                            *)
(***************************************************************************)

\* The packet in flight is cancelled and its request forgotten.  On the
\* control endpoint the new packet takes its place; on every other endpoint
\* the firmware is told NAK, and the new packet is not sent.
UsbReplaced(u) == [u EXCEPT !.flight = "none"]

\* A request to the device at DEV_AD.  A device that is absent, or has another
\* address, answers NODEV at once, and leaves a packet in flight alone.
UsbSubmit(u, token, control) ==
    CASE u.device # u.addr -> {UsbApply(u, token, "NODEV")}
      [] u.device = u.addr /\ u.flight # "none" /\ ~control ->
            {UsbApply(UsbReplaced(u), token, "NAK")}
      [] OTHER ->
            {UsbApply(UsbReplaced(u), token, r) : r \in UsbAnswers}
                \cup {[u EXCEPT !.flight = token]}

UsbWriteEpPid ==
    /\ usb.host
    /\ \E token \in UsbSent, control \in BOOLEAN :
           usb' \in UsbSubmit([usb EXCEPT !.waiting = TRUE, !.asked = @ \cup {token}],
                              token, control)

\* A PID that is no token is answered as a stalled OUT.
UsbWriteBadPid ==
    /\ usb.host
    /\ usb' = UsbApply([usb EXCEPT !.asked = @ \cup {"OUT"}], "OUT", "STALL")

(***************************************************************************)
(* The other registers.                                                    *)
(***************************************************************************)

\* Acknowledging a flag: the firmware hears of the device, or of the answer.
UsbAcknowledge(u, ones) ==
    [u EXCEPT !.intfg = @ \ ones,
              !.heard = @ \/ ("DETECT" \in u.intfg \cap ones /\ UsbPresent(u))]

UsbWriteIntFg ==
    \E ones \in SUBSET UsbFlags : usb' = UsbAcknowledge(usb, ones)

\* CLR_ALL clears INT_ST as well; both throw a DETECT away that the firmware
\* may not have seen.
UsbWriteCtrl ==
    \E host \in BOOLEAN, bit \in {"none", "CLR_ALL", "RESET_SIE"} :
        usb' = IF bit = "none" THEN [usb EXCEPT !.host = host]
               ELSE [usb EXCEPT
                        !.host = host, !.intfg = {}, !.armed = FALSE,
                        !.intst = IF bit = "CLR_ALL"
                                  THEN [token |-> "none", result |-> "none"] ELSE @]

\* Variant: enabling the interrupts announces nothing.
UsbWriteIntEnOnly == usb' = [usb EXCEPT !.armed = TRUE]

UsbWriteIntEn == usb' = UsbResyncRoot(usb)

UsbWriteAddr == \E a \in UsbAddrs : usb' = [usb EXCEPT !.addr = a]

\* MIS_ST is a plain byte for a write: clearing a block of registers on USBFS
\* takes DEV_ATTACH away.
UsbWriteMis == usb' = [usb EXCEPT !.attach = FALSE, !.armed = FALSE]

\* A rising BUS_RESET resets the device, which goes back to its default
\* address; the packet in flight stays in flight.
UsbWriteHostCtrl ==
    \E on \in BOOLEAN :
        usb' = [usb EXCEPT
            !.busReset = on,
            !.device = IF on /\ ~usb.busReset /\ @ # "none" THEN "default" ELSE @]

\* A device takes up the address a SETUP packet gave it.
UsbTakeAddress ==
    /\ usb.device = "default"
    /\ usb.intst = [token |-> "SETUP", result |-> "SUCCESS"]
    /\ usb' = [usb EXCEPT !.device = "assigned"]

\* Variant: the registers are cleared under the packet in flight.
UsbMachineResetUnderway ==
    usb' = UsbResyncRoot(
              [usb EXCEPT
                  !.host = FALSE, !.intfg = {},
                  !.intst = [token |-> "none", result |-> "none"],
                  !.attach = FALSE, !.addr = "default", !.busReset = FALSE,
                  !.device = IF @ = "none" THEN @ ELSE "default",
                  !.waiting = FALSE, !.heard = FALSE, !.armed = TRUE, !.asked = {}])

\* ch32_usb_reset_defaults: the packet in flight is cancelled before the
\* registers are cleared, and the device, which stays plugged in, is announced.
UsbReset(u) ==
    UsbResyncRoot(
        [host |-> FALSE, intfg |-> {},
         intst |-> [token |-> "none", result |-> "none"],
         attach |-> FALSE, addr |-> "default", busReset |-> FALSE,
         device |-> IF UsbPresent(u) THEN "default" ELSE "none",
         flight |-> "none", waiting |-> FALSE, heard |-> FALSE, armed |-> TRUE,
         asked |-> {}])

UsbMachineReset == usb' = UsbReset(usb)

UsbInit ==
    usb = [host |-> FALSE, intfg |-> {},
           intst |-> [token |-> "none", result |-> "none"],
           attach |-> FALSE, addr |-> "default", busReset |-> FALSE,
           device |-> "none", flight |-> "none", waiting |-> FALSE,
           heard |-> FALSE, armed |-> TRUE, asked |-> {}]

UsbCore == UsbAttach \/ UsbDetach \/ UsbComplete \/ UsbTakeAddress

UsbRegisters ==
    \/ UsbWriteEpPid \/ UsbWriteBadPid \/ UsbWriteIntFg \/ UsbWriteCtrl \/ UsbWriteIntEn
    \/ UsbWriteAddr \/ UsbWriteMis \/ UsbWriteHostCtrl

UsbNext == UsbCore \/ UsbRegisters \/ UsbMachineReset

UsbSpec == UsbInit /\ [][UsbNext]_usb

-----------------------------------------------------------------------------
UsbTypeOK == usb \in UsbState

\* No request is lost: one that was never answered is in flight, however the
\* requests, cancellations, acknowledgements and resets of the bus followed
\* one another; and a packet in flight is one the firmware asked for since the
\* last machine reset, so that no answer crosses it.
UsbRequestKept ==
    /\ usb.waiting => usb.flight # "none"
    /\ usb.flight # "none" => usb.flight \in usb.asked
    /\ usb.intst.token # "none" => usb.intst.token \in usb.asked

\* A device on the port is not overlooked: unless the firmware threw the news
\* away after it last wrote INT_EN, DEV_ATTACH shows it, and DETECT is raised
\* until the firmware has acknowledged it.
UsbDeviceAnnounced ==
    UsbPresent(usb) /\ usb.armed =>
        usb.attach /\ (usb.heard \/ "DETECT" \in usb.intfg)
===============================================================================
