--------------------------------- MODULE EthPhy ---------------------------------
(***************************************************************************)
(* The PHY of the Ethernet MAC as the firmware sees it through MACMIIAR    *)
(* and MACMIIDR: the built-in 10M PHY, a CH182 or an RTL8211F, which has   *)
(* pages.  A write to MACMIIAR runs the whole MDIO transaction, so that MB *)
(* is never seen set.  A register holds "zero", what it holds after a      *)
(* reset, or "set", anything else; the link is up or not.                  *)
(***************************************************************************)
EXTENDS Naturals

CONSTANT PhyRegs    \* the plain registers (2 to 30) that the firmware writes

ASSUME PhyRegsAssumption == PhyRegs \subseteq 2 .. 30

VARIABLE phy

PhyVariants == {"ch182", "phy10m", "rtl8211f"}

\* The page of the RTL8211F where 0x10 and 0x11 are other registers, and the
\* value of 0x1f that the CH182 uses for the same purpose.
PhyPages == {"none", "d04", "99"}

\* The values of BCR after a reset.
PhyBcrReset(variant) ==
    CASE variant = "phy10m" -> "1000" [] variant = "rtl8211f" -> "1140"
      [] variant = "ch182" -> "3100"

PhyState ==
    [variant : PhyVariants, bcr : {"1000", "1140", "3100", "written"},
     regs : [PhyRegs -> {"zero", "set"}],
     page : PhyPages,       \* phy_reg[0x1f]
     rtlPage : PhyPages,    \* rtl8211f_page
     mmd : BOOLEAN,         \* rtl8211f_mmd_ctrl
     linkUp : BOOLEAN, told : BOOLEAN,  \* the deadline passed; link announced
     miidr : {"plain", "ffff"}]

\* Whether 0x10 and 0x11 are those of the page.
PhyPaged(r) == phy.variant = "rtl8211f" /\ phy.rtlPage = "d04" /\ r \in {16, 17}

\* A reset of the PHY by BCR leaves its plain registers as they are.
PhyBcr(reset) ==
    phy' = IF reset
           THEN [phy EXCEPT !.bcr = PhyBcrReset(phy.variant), !.linkUp = FALSE, !.told = FALSE,
                            !.rtlPage = IF phy.variant = "rtl8211f" THEN "none" ELSE @]
           ELSE [phy EXCEPT !.bcr = "written"]

PhyWriteBcr == \E reset \in BOOLEAN : PhyBcr(reset)

\* A register is stored whatever the page is, so that the registers of the
\* page and the plain ones of the same number share their value.
PhyWriteReg ==
    \E r \in PhyRegs, v \in {"zero", "set"} :
        phy' = [phy EXCEPT !.regs[r] = v,
                           !.mmd = IF phy.variant = "rtl8211f" /\ r = 13 THEN v = "set" ELSE @]

PhyWritePage ==
    \E p \in PhyPages :
        phy' = [phy EXCEPT !.page = p,
                           !.rtlPage = IF phy.variant = "rtl8211f" THEN p ELSE @]

\* What a read gives: the link shows in BMSR, the link partner's ability, the
\* gigabit status and the status of the RTL8211F.
PhyRead(r) ==
    CASE r = 0 -> phy.bcr
      [] r = 1 -> IF phy.linkUp THEN "up" ELSE "down"
      [] phy.variant = "rtl8211f" /\ r \in {5, 10, 17} /\ ~PhyPaged(r) ->
            IF phy.linkUp THEN "up" ELSE "down"
      [] r \in {2, 3} -> IF phy.variant = "phy10m" THEN "zero" ELSE "id"
      [] phy.variant = "rtl8211f" /\ r = 13 -> IF phy.mmd THEN "set" ELSE "zero"
      [] phy.variant = "rtl8211f" /\ r \in {6, 14, 15} -> "fixed"
      [] phy.variant = "ch182" /\ r = 25 /\ phy.page = "99" -> "fixed"
      [] r = 31 -> IF phy.variant = "rtl8211f" THEN phy.rtlPage ELSE phy.page
      [] OTHER -> IF r \in PhyRegs THEN phy.regs[r] ELSE "zero"

\* ch32_eth_mdio_run: only address 1 is there; a read elsewhere gives 0xffff
\* and a write is lost.
PhyMdioRead ==
    \E here \in BOOLEAN : phy' = [phy EXCEPT !.miidr = IF here THEN "plain" ELSE "ffff"]

\* The deadline passes; only the built-in PHY announces it.
PhyLinkComesUp == ~phy.linkUp /\ phy' = [phy EXCEPT !.linkUp = TRUE]
PhyAnnounce ==
    /\ phy.variant = "phy10m" /\ phy.linkUp /\ ~phy.told
    /\ phy' = [phy EXCEPT !.told = TRUE]

\* ch32_eth_realize chooses the variant; ch32_eth_reset keeps it.
PhyPowerOn(variant) ==
    [variant |-> variant, bcr |-> PhyBcrReset(variant),
     regs |-> [r \in PhyRegs |-> "zero"], page |-> "none", rtlPage |-> "none",
     mmd |-> FALSE, linkUp |-> FALSE, told |-> FALSE, miidr |-> "plain"]

PhyInit == \E variant \in PhyVariants : phy = PhyPowerOn(variant)
PhyMachineReset == phy' = PhyPowerOn(phy.variant)

PhyRegisters == PhyWriteBcr \/ PhyWriteReg \/ PhyWritePage \/ PhyMdioRead

PhyNext == PhyRegisters \/ PhyLinkComesUp \/ PhyAnnounce \/ PhyMachineReset

PhySpec == PhyInit /\ [][PhyNext]_phy

-----------------------------------------------------------------------------
PhyTypeOK == phy \in PhyState
===============================================================================
