------------------------------- MODULE MemoryMap -------------------------------
(***************************************************************************)
(* The memory map that ch32_machine_init builds at power-on.  Regions are  *)
(* mapped one after the other with a priority, and overlap: placeholders   *)
(* answer wherever no device does.  Where regions overlap the one of the   *)
(* highest priority answers, and among equals the one mapped last, which   *)
(* is the rule of QEMU's memory core.                                      *)
(*                                                                         *)
(* An address counts words: At(page, offset) is the byte address           *)
(* page * 2^16 + offset.                                                   *)
(***************************************************************************)
EXTENDS Integers, Sequences, Boards

CONSTANT BusSizes   \* the values of the property flash-size that are tried, in bytes

ASSUME BusAssumption == \A s \in BusSizes : s \in Nat /\ s % 4 = 0

VARIABLE bus

\* bus.size and bus.mode are the machine's properties; bus.mapped counts the
\* regions that are there.
BusState ==
    [board : BoardTable, size : BusSizes, mode : {"flash", "sysmem", "sram"},
     mapped : Nat, refused : BOOLEAN]

\* Sizes of the flash and the RAM, in words.
BusFlash == (IF bus.size = 0 THEN bus.board.flash * 1024 ELSE bus.size) \div 4
BusRam == bus.board.ram * 256

At(page, offset) == page * 16384 + offset \div 4
BusRegion(unit, base, bytes, prio) ==
    [unit |-> unit, base |-> base, size |-> bytes \div 4, prio |-> prio]

\* Memories.  In mode sram nothing is mapped at 0.
BusMemories ==
    << BusRegion("flash", At(\h0800, 0), 4 * BusFlash, 0),
       BusRegion("sysmem", At(\h1FFF, \h8000), \h7000, 0) >>
    \o (CASE bus.mode = "flash" -> << BusRegion("remap", 0, 4 * BusFlash, -1) >>
          [] bus.mode = "sysmem" -> << BusRegion("remap", 0, \h7000, -1) >>
          [] OTHER -> << >>)
    \o << BusRegion("sram", At(\h2000, 0), 4 * BusRam, 0),
          [unit |-> "gap", base |-> At(\h2000, 0) + BusRam,
           size |-> At(\h2000, 0) - BusRam, prio |-> -1] >>

\* The timers are 1 KiB apart.
BusTimers == [i \in 1 .. 6 |-> BusRegion("tim", At(\h4000, (i - 1) * \h400), \h400, 2)]

\* From the interrupt sources of the core to the clock unit.
BusFirst ==
    << BusRegion("swi", At(\h0200, 0), \h4000, 0),
       BusRegion("mtimer", At(\h0200, \h4000), \h8000, 0),
       BusRegion("usart1", At(\h4001, \h3800), \h400, 2),
       BusRegion("dbgmcu", At(\hE000, \hD000), \h10, 1),
       BusRegion("afio", At(\h4001, 0), \h800, 2),
       BusRegion("gpio", At(\h4001, 0), \h3000, 2),
       BusRegion("iwdg", At(\h4000, \h3000), \h10, 3) >>
    \o BusTimers \o
    << BusRegion("dma", At(\h4002, 0), \h1000, 1),
       BusRegion("ahbmisc", At(\h4002, \h3000), \h1000, 1),
       BusRegion("crc", At(\h4002, \h3000), \h10, 3),
       BusRegion("rng", At(\h4002, \h3C00), \h10, 3),
       BusRegion("usbhs", At(\h4002, \h3400), \h400, 3),
       BusRegion("usbfs", At(\h5000, 0), \h8000, 2),
       BusRegion("rcc", At(\h4002, \h1000), \h80, 1) >>

\* From the clocks of the backup domain to the serial buses.
BusSecond ==
    << BusRegion("rtc", At(\h4000, \h2800), \h80, 2),
       BusRegion("wwdg", At(\h4000, \h2C00), \h10, 3),
       BusRegion("bkp", At(\h4000, \h6C00), \h100, 2),
       BusRegion("pwr", At(\h4000, \h7000), \h10, 2),
       BusRegion("usart2", At(\h4000, \h4400), \h400, 2),
       BusRegion("usart3", At(\h4000, \h4800), \h400, 2),
       BusRegion("uart6", At(\h4000, \h1800), \h400, 2),
       BusRegion("uart7", At(\h4000, \h1C00), \h400, 2),
       BusRegion("uart8", At(\h4000, \h2000), \h400, 2),
       BusRegion("uart4", At(\h4000, \h4C00), \h400, 2),
       BusRegion("uart5", At(\h4000, \h5000), \h400, 2),
       BusRegion("sdio", At(\h4001, \h8000), \h400, 2),
       BusRegion("spi1", At(\h4001, \h3000), \h28, 2),
       BusRegion("spi2", At(\h4000, \h3800), \h28, 2),
       BusRegion("spi3", At(\h4000, \h3C00), \h28, 2),
       BusRegion("i2c1", At(\h4000, \h5400), \h24, 2),
       BusRegion("i2c2", At(\h4000, \h5800), \h24, 2),
       BusRegion("pfic", At(\hE000, \hE000), \h1000, 0),
       BusRegion("stk", At(\hE000, \hF000), \h40, 0),
       BusRegion("esig", At(\h1FFF, \hF700), \h900, 0),
       BusRegion("flashreg", At(\h4002, \h2000), \h400, 1) >>

\* Variant: the placeholder is mapped like any device.
BusPlaceholderOver == BusRegion("placeholder", At(\h4000, 0), \hC00000, 1)

\* 12 MiB that read as zero, under all the devices.
BusPlaceholder == BusRegion("placeholder", At(\h4000, 0), \hC00000, 0)

BusLast ==
    << BusPlaceholder,
       BusRegion("adc1", At(\h4001, \h2400), \h80, 4),
       BusRegion("adc2", At(\h4001, \h2800), \h80, 4),
       BusRegion("adc3", At(\h4001, \h3C00), \h80, 4) >>

BusNetwork ==
    CASE bus.board.nic = "none" -> << >>
      [] bus.board.nic = "eth10m" -> << BusRegion("eth", At(\h4002, \h8000), \h30, 10) >>
      [] OTHER -> << BusRegion("eth", At(\h4002, \h8000), \h1800, 10) >>

BusMap == BusMemories \o BusFirst \o BusSecond \o BusLast \o BusNetwork

\* The i-th region of a map is what answers at the address: no other one that
\* contains it comes before it.
BusContains(r, addr) == r.base <= addr /\ addr < r.base + r.size
BusAnswers(map, i, addr) ==
    /\ BusContains(map[i], addr)
    /\ \A j \in DOMAIN map :
           BusContains(map[j], addr) =>
               \/ map[j].prio < map[i].prio
               \/ map[j].prio = map[i].prio /\ j <= i

BusInit ==
    bus \in [board : BoardTable, size : {0}, mode : {"flash"}, mapped : {0},
            refused : {FALSE}]

\* The command line sets properties before anything is mapped; a value that is
\* refused ends the program.
BusOptions == bus.mapped = 0 /\ ~bus.refused
BusSetFlashSize ==
    /\ BusOptions
    /\ \E size \in BusSizes :
           bus' = IF size \in BoardFlashSizes(BusSizes) THEN [bus EXCEPT !.size = size]
                  ELSE [bus EXCEPT !.refused = TRUE]
BusSetBootMode ==
    /\ BusOptions
    /\ \E mode \in {"flash", "sysmem", "sram"} : bus' = [bus EXCEPT !.mode = mode]

BusMapNext ==
    /\ ~bus.refused /\ bus.mapped < Len(BusMap)
    /\ bus' = [bus EXCEPT !.mapped = @ + 1]

BusNext == BusSetFlashSize \/ BusSetBootMode \/ BusMapNext

BusSpec == BusInit /\ [][BusNext]_bus

-----------------------------------------------------------------------------
BusTypeOK == bus \in BusState

BusDone == bus.mapped = Len(BusMap)

\* The devices and memories, which must answer; the others only fill holes.
BusFillers == {"gap", "remap", "placeholder", "ahbmisc"}

\* Where the registers of a unit begin: the ports follow the AFIO block in a
\* region that begins with it.
BusRegisters(r) == IF r.unit = "gpio" THEN r.base + \h800 \div 4 ELSE r.base

\* However the sixty regions overlap, and whatever board and flash size was
\* asked for, no device is hidden: each one answers at its first and at its
\* last register (ch32_machine_init).  The AFIO block is the exception, see
\* AfioAnswers.  The flash is there up to the last KiB that the signature
\* announces to the firmware.
MapDevicesAnswer ==
    BusDone =>
        \E map \in {BusMap} :
            /\ \A i \in DOMAIN map :
                   map[i].unit \notin BusFillers \cup {"afio"} =>
                       /\ BusAnswers(map, i, BusRegisters(map[i]))
                       /\ map[i].unit # "gpio" =>
                              BusAnswers(map, i, map[i].base + map[i].size - 1)
            /\ BusAnswers(map, 1, At(\h0800, 0) + 256 * BoardEsigFlash(4 * BusFlash) - 1)

\* What the comments on the GPIO handlers say (ch32-gpio-afio.c:130-134): an
\* access below offset 0x800 is answered by the AFIO region.
AfioAnswers ==
    BusDone =>
        \E map \in {BusMap} :
            \A i \in DOMAIN map : map[i].unit = "afio" => BusAnswers(map, i, map[i].base)
===============================================================================
