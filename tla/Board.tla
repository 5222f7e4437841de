---------------------------------- MODULE Board ----------------------------------
(***************************************************************************)
(* The units of the board that work on their own, side by side with the    *)
(* machine reset that they share.  Units that talk to one another through  *)
(* the interrupt slot are in module MeipSlot, and those with a timer of    *)
(* their own in SysTick, Tim, Usart1 and EthDwmac.                         *)
(*                                                                         *)
(* The firmware here has the driver of one unit, focus, chosen at the      *)
(* start: no two of these units share state, so that what one does can be  *)
(* seen without the others.  The two phases of power-on count as units:    *)
(* the memory map is built and the image is loaded while nothing else      *)
(* runs.                                                                   *)
(***************************************************************************)
EXTENDS Flash, Watchdog, Backup, Rcc, SerialBuses, Pins, SmallUnits, UsbHost,
        Eth10m, Dma, UsartLite, EthPhy, PlainRegisters, Hart, QingKe, MemoryMap, Boot

VARIABLE focus

Units == {"flash", "dog", "backup", "rcc", "i2c", "spi", "pins", "small", "usb",
          "eth10m", "dma", "lite", "phy", "plain", "hart", "xw", "mcpy", "bus", "boot"}

boardVars == << focus, flash, dog, backup, rcc, i2c, spi, pins, small, usb, eth10m, dma,
                lite, phy, plain, hart, xw, mcpy, bus, boot >>

BoardInit ==
    /\ focus \in Units
    /\ FlashInit /\ DogInit /\ BackupInit /\ RccInit /\ BusesInit /\ PinsInit
    /\ SmallInit /\ UsbInit /\ Eth10mInit /\ DmaInit /\ LiteInit /\ HartInit
    /\ BusInit /\ (focus # "bus" => bus.board.tag = "ch32v317")
    /\ (focus # "hart" => hart.regs = CHOOSE v \in HartValues : TRUE)
    /\ XwInit /\ (focus # "xw" => xw.model = "V4F") /\ McpyInit
    /\ PhyInit /\ PlainInit /\ (focus # "plain" => plain.kind = "pfic")
    /\ (focus # "phy" => phy.variant = "ch182")
    /\ \/ focus = "boot" /\ BootInit
       \/ /\ focus # "boot"
          /\ boot = [mode |-> "flash", kind |-> "bin",
                     mem |-> [o \in BootOffsets |-> "other"], haveEla |-> FALSE, ulba |-> 0,
                     sba |-> 0, start |-> FALSE, hexEntry |-> BootBase,
                     phase |-> "running", resetvec |-> BootBase]

FlashStep ==
    /\ focus = "flash" /\ FlashRegisters
    /\ UNCHANGED << focus, dog, backup, rcc, i2c, spi, pins, small, usb,
                    eth10m, dma, lite, phy, plain, hart, xw, mcpy, bus, boot >>
DogStep ==
    /\ focus = "dog" /\ (DogRegisters \/ DogFlagsClear \/ DogTick \/ DogFire)
    /\ UNCHANGED << focus, flash, backup, rcc, i2c, spi, pins, small, usb,
                    eth10m, dma, lite, phy, plain, hart, xw, mcpy, bus, boot >>
BackupStep ==
    /\ focus = "backup" /\ (BackupRegisters \/ RtcSecond)
    /\ UNCHANGED << focus, flash, dog, rcc, i2c, spi, pins, small, usb,
                    eth10m, dma, lite, phy, plain, hart, xw, mcpy, bus, boot >>
RccStep ==
    /\ focus = "rcc" /\ RccRegisters
    /\ UNCHANGED << focus, flash, dog, backup, i2c, spi, pins, small, usb,
                    eth10m, dma, lite, phy, plain, hart, xw, mcpy, bus, boot >>
I2cStep ==
    /\ focus = "i2c" /\ I2cNext
    /\ UNCHANGED << focus, flash, dog, backup, rcc, spi, pins, small, usb,
                    eth10m, dma, lite, phy, plain, hart, xw, mcpy, bus, boot >>
SpiStep ==
    /\ focus = "spi" /\ SpiNext
    /\ UNCHANGED << focus, flash, dog, backup, rcc, i2c, pins, small, usb,
                    eth10m, dma, lite, phy, plain, hart, xw, mcpy, bus, boot >>
PinsStep ==
    /\ focus = "pins" /\ PinsRegisters
    /\ UNCHANGED << focus, flash, dog, backup, rcc, i2c, spi, small, usb,
                    eth10m, dma, lite, phy, plain, hart, xw, mcpy, bus, boot >>
SmallStep ==
    /\ focus = "small" /\ SmallRegisters
    /\ UNCHANGED << focus, flash, dog, backup, rcc, i2c, spi, pins, usb,
                    eth10m, dma, lite, phy, plain, hart, xw, mcpy, bus, boot >>
UsbStep ==
    /\ focus = "usb" /\ (UsbCore \/ UsbRegisters)
    /\ UNCHANGED << focus, flash, dog, backup, rcc, i2c, spi, pins, small,
                    eth10m, dma, lite, phy, plain, hart, xw, mcpy, bus, boot >>
Eth10mStep ==
    /\ focus = "eth10m" /\ (Eth10mRegisters \/ Eth10mWorld)
    /\ UNCHANGED << focus, flash, dog, backup, rcc, i2c, spi, pins, small,
                    usb, dma, lite, phy, plain, hart, xw, mcpy, bus, boot >>
DmaStep ==
    /\ focus = "dma" /\ DmaRegisterWrite
    /\ UNCHANGED << focus, flash, dog, backup, rcc, i2c, spi, pins, small,
                    usb, eth10m, lite, phy, plain, hart, xw, mcpy, bus, boot >>
LiteStep ==
    /\ focus = "lite" /\ (LiteRegisters \/ LiteReceive)
    /\ UNCHANGED << focus, flash, dog, backup, rcc, i2c, spi, pins, small,
                    usb, eth10m, dma, phy, plain, hart, xw, mcpy, bus, boot >>
PhyStep ==
    /\ focus = "phy" /\ (PhyRegisters \/ PhyLinkComesUp \/ PhyAnnounce)
    /\ UNCHANGED << focus, flash, dog, backup, rcc, i2c, spi, pins, small,
                    usb, eth10m, dma, lite, plain, hart, xw, mcpy, bus, boot >>
PlainStep ==
    /\ focus = "plain" /\ PlainWrites
    /\ UNCHANGED << focus, flash, dog, backup, rcc, i2c, spi, pins, small, usb,
                    eth10m, dma, lite, phy, hart, xw, mcpy, bus, boot >>
HartStep ==
    /\ focus = "hart" /\ HartNext
    /\ UNCHANGED << focus, flash, dog, backup, rcc, i2c, spi, pins, small, usb,
                    eth10m, dma, lite, phy, plain, xw, mcpy, bus, boot >>
XwStep ==
    /\ focus = "xw" /\ XwNext
    /\ UNCHANGED << focus, flash, dog, backup, rcc, i2c, spi, pins, small, usb,
                    eth10m, dma, lite, phy, plain, hart, mcpy, bus, boot >>
McpyStep ==
    /\ focus = "mcpy" /\ McpyNext
    /\ UNCHANGED << focus, flash, dog, backup, rcc, i2c, spi, pins, small, usb,
                    eth10m, dma, lite, phy, plain, hart, xw, bus, boot >>
BusStep ==
    /\ focus = "bus" /\ BusNext
    /\ UNCHANGED << focus, flash, dog, backup, rcc, i2c, spi, pins, small,
                    usb, eth10m, dma, lite, phy, plain, hart, xw, mcpy, boot >>
BootStep ==
    /\ focus = "boot" /\ BootNext
    /\ UNCHANGED << focus, flash, dog, backup, rcc, i2c, spi, pins, small,
                    usb, eth10m, dma, lite, phy, plain, hart, xw, mcpy, bus >>

\* ch32_machine_reset: at any time, on behalf of the watchdog, the guest or an
\* operator.  Every unit is back at power-on; the flash keeps its data, the
\* network peer its queue, a USB device its port and the PHY its model.  (A
\* program that a reset stops has nothing to say of its instructions.)
BoardReset ==
    /\ focus \notin {"bus", "boot", "xw", "mcpy"}
    /\ DogMachineReset
    /\ FlashMachineReset /\ BackupMachineReset /\ RccMachineReset /\ SmallMachineReset
    /\ PinsMachineReset
    /\ DmaMachineReset
    /\ LiteMachineReset
    /\ UsbMachineReset
    /\ spi' = SpiPowerOn
    /\ i2c' = I2cPowerOn
    /\ PhyMachineReset
    /\ PlainMachineReset
    /\ Eth10mMachineReset
    /\ HartMachineReset
    /\ UNCHANGED << focus, xw, mcpy, bus, boot >>

BoardNext ==
    \/ FlashStep \/ DogStep \/ BackupStep \/ RccStep \/ I2cStep \/ SpiStep \/ PinsStep
    \/ SmallStep \/ UsbStep \/ Eth10mStep \/ DmaStep \/ LiteStep \/ PhyStep
    \/ PlainStep \/ HartStep \/ XwStep \/ McpyStep \/ BusStep \/ BootStep \/ BoardReset

\* Timers ring and the main loop takes up a reset that the watchdog asked for.
BoardSpec == BoardInit /\ [][BoardNext]_boardVars /\ DogFairness
===============================================================================
