# A TLA+ model of the WCH CH32V machine for QEMU

`qemu-overlay/10.2.2` adds the WCH CH32V microcontrollers (QingKe V4 cores, CH32V20x,
CH32V30x, CH32H417) to QEMU's RISC-V target: a trap and `mret` path with WCH's interrupt
conventions in `target/riscv`, and the PFIC, SysTick and peripherals in `hw/riscv/ch32-*.c`.
This directory models the machine: where several actors meet in one piece of state each component
has a module of its own, with its own runs; the units that share nothing but the machine reset are
composed in one. TLC checks them and TLAPS proves their invariants.

Contents: [Inventory](#inventory) · [Modules](#modules) · [Modelling decisions](#modelling-decisions) ·
[Runs](#runs) · [What the runs refute](#what-the-runs-refute) · [Proofs](#proofs) · [Done and left](#done-and-left) ·
[Not modelled](#not-modelled).

To check something here:

    tlc -workers 2 -config MeipRoute.cfg MeipSlot.tla
    tlapm MeipSlotProofs.tla

## Inventory

The firmware is the first actor: its loads and stores call the MMIO handlers of the devices, its
traps and `mret` call the hooks in `target/riscv`. The QEMU main loop is the second: it runs
timer callbacks (SysTick, the TIMs, the USART1 byte timers, the MAC poll timer, the watchdogs),
bottom halves, and the chardev, network and USB callbacks. Each handler and each callback holds
the big QEMU lock (BQL) from beginning to end. Nothing runs inside a handler, but anything may
run between two of them, an expired timer in particular runs late.

| Component (file) | State | Operations | What is hard | What makes it correct |
|---|---|---|---|---|
| PFIC (`ch32-stk-pfic.c`) | enable, pending and active bits | IENR, IRER, IPSR, IPRR, SCTLR writes; the walk of `pfic_resync_table`; the `mret` hook; system reset | every release of the routing slot must lead to a walk, and the walk calls functions that release and walk again | the active bit is the owner's; nobody waits for a free slot |
| Routing slot and MEIP (`env->wch_evt_mcause_override`, `mip`, `mie`) | one owner for all peripherals | claimed, kept and released by eleven families of devices, each with its own protocol | shared by everyone, with no common function: each device repeats the arbitration by hand | no preemption; MEIP follows the owner; an owner asks |
| SysTick (`ch32-stk-pfic.c`) | CTLR, SR, CMP, the count as an epoch and an offset, one QEMU timer | register writes, `ch32_stk_tick`, the clock hook of RCC | a late callback, rounding, two-half registers, a clock that changes underneath | armed exactly while it runs, rings at CMP, no endless loop |
| QingKe hart (`wch-qingke.h`, `op_helper.c`, `cpu_helper.c`) | `wch_vtf_in_isr`, the HPE bank stack and its depth, the context-switch skip flag | trap entry, `mret`, the VTF vector lookup, reset | `mret` does not know which handler returns | the counters describe the handler that runs |
| USART1 (`ch32-usart.c`) | stage ring, receive and transmit FIFO, two timers, CTLR1 and CTLR3 | chardev callbacks, the two timer callbacks, DATAR, STATR, CTLR accesses, reset | backend, timer, firmware and DMA share three buffers; a backend once refused must be woken | one queue; no work without a timer; the request is current |
| Light USARTs (`ch32-usart.c`) | small RX FIFO, transmit straight to the backend | register accesses, `ch32_usart_lite_push_rx_byte` (exported, without a caller in the tree) | one resync function walks all seven | as for USART1 |
| Timers TIM2–TIM7 (`ch32-tim.c`) | counter as base and epoch, PSC, ATRLR, INTFR, `irq_active` | register writes, the update callback | stopping forgets the count; a late callback; preload and one-pulse | an update per period; the request is latched once |
| Ethernet MAC (`ch32-eth-dwmac.c`) | DMA descriptors in guest memory, DMASR, the MDIO engine, a poll timer, a bottom half | register writes, receive and link callbacks | OWN bits shared with the guest; poll demand against suspended state; three callers of the same resync | a descriptor has one owner; no packet waits while a buffer is free |
| Ethernet 10M MAC (`ch32-eth-10m.c`) | one RX and one TX buffer, a stash for one packet, EIR/EIE | register writes, receive callback | a packet stashed while the buffer is busy; the queue flushed only on a rising RXEN | every stashed packet is delivered or dropped once |
| USB hosts (`ch32-usb-hs-host.c`, `ch32-usb-fs-host.c`, `ch32-usb.c`) | host registers, endpoint DMA addresses, the USBPacket in flight | register writes, attach, detach and completion callbacks | an asynchronous packet outlives its registers | a completion belongs to the transfer that waits |
| DMA (`ch32-dma.c`) | channels of three controllers, INTFR | CFGR writes run a whole transfer, INTFCR | the interrupt competes for the slot and has no resync of its own | never preempts; a flag per finished transfer |
| RCC (`ch32-rcc.c`) | clock registers, ready bits, reset flags | register writes | a clock change reaches SysTick | the hook runs with the old clock |
| Flash (`ch32-flash.c`) | key sequence, LOCK, page buffer, status | key, control and address writes | order of commands | nothing is programmed without the keys |
| Watchdogs (`ch32-iwdt.c`, `ch32-wwdg.c`) | reload, prescaler, timers, the flag | key and register writes, callbacks that request a reset | refresh against expiry | no reset without expiry |
| RTC, backup, power (`ch32-rtc.c`, `ch32-bkp.c`, `ch32-pwr.c`) | count on the virtual clock, flags, 42 words | register accesses | a torn read of a two-half counter | monotone count |
| I2C, SPI (`ch32-i2c.c`, `ch32-spi.c`) | START/ADDR/STOP flags; a loopback register | register accesses, carried out byte by byte | the order of flags | the master sequence of the manual |
| GPIO, AFIO, EXTI (`ch32-gpio-afio.c`) | port registers, lock | register accesses | none to speak of | set, reset and lock semantics |
| CRC, RNG, ADC, SDIO (`ch32-crc.c`, …) | a register or two | register accesses | none | — |
| Boot and HEX loader (`ch32-boot.c`, `ch32-hex-loader.c`, `ch32-v.c`) | the flash contents, the address of the image, the start address | run once before the machine starts | records in any order, two windows onto the same flash | the hart starts in the image, where it was linked |
| Boards and memory map (`ch32-boards.c`, `ch32-v.c`) | the table of boards; regions with priorities | run once | regions overlap, and the order of the calls decides | every device answers at its registers |
| QingKe instructions and CSRs (`wch-qingke-cpu.c.inc`, `trans_rvwch.c.inc`, `csr.c`) | the model's extensions; mcpy's registers | decode, mcpy, gintenr | each core decodes another subset; mcpy is restartable | what was assembled is executed; mcpy copies once |
| Machine (`ch32-v.c`) | owns all of the above | creation, reset | the order of the resets | the routing state starts afresh |

The hazards behind this table, each at its line, are in `PROJECT.json`.

## Modules

| Module | Models | Builds on |
|---|---|---|
| `MeipSlot` | the routing slot, MEIP, the PFIC bits, every device as far as its interrupt request goes, the SysTick and Software interrupts, trap entry, `mret`, reset | — |
| `MeipSlotProofs`, `MeipClaims` | the inductive invariant of `MeipSlot` and its consequences; what comments say of the routing and the code does not keep | `MeipSlot` |
| `PficHandlers` | the same resync functions and the walks of `pfic_resync_table` they start, statement by statement; its specification implements `MeipSlot` | `MeipSlot` |
| `PficHandlersProofs` | that it does, for every set of peripherals | `PficHandlers`, `MeipSlotProofs` |
| `SysTick` | the SysTick counter and timer on the virtual clock | — |
| `Numbers` | lemmas of arithmetic and induction that several proofs rest on | — |
| `SysTickProofs`, `SysTickClaims` | proofs about it; claims about it | `SysTick` |
| `Tim` | the counter, prescaler, preload and update callback of a TIM on the virtual clock | — |
| `TimProofs`, `TimClaims` | proofs about it; claims about it | `Tim` |
| `ByteQueue` | what a serial receiver promises: a first-in first-out queue | — |
| `Usart1` | USART1: stage, FIFOs, timers, backend flow control, interrupt request; implements `ByteQueue` | `ByteQueue` |
| `Usart1Proofs` | the inductive invariant of `Usart1` and the refinement | `Usart1` |
| `LossyQueue` | what a network card promises: frames in order, at most once, some lost | — |
| `EthDwmac` | the gigabit MAC: both descriptor rings, the stash, the NIC queue and the tap, the bottom half, the poll timer, DMASR and DMAIER; implements `LossyQueue` | `LossyQueue` |
| `EthDwmacProofs` | the inductive invariants of `EthDwmac` and the refinement | `EthDwmac` |
| `EthPhy` | the PHY registers behind MDIO, for the three PHYs | — |
| `Eth10m` | the 10M MAC: one buffer, a stash, the peer's queue, the link timer | — |
| `UsbHost` | a USB host controller between the firmware and QEMU's USB core | — |
| `Flash`, `Watchdog`, `Backup`, `Rcc` | the flash controller; both watchdogs; RTC, backup words, PWR and BDCTLR; the clock tree | — |
| `Dma` | the channel registers of the DMA controllers and the transfer a CFGR write runs | — |
| `UsartLite` | one of the seven light USARTs | — |
| `SerialBuses`, `Pins`, `SmallUnits` | I2C and SPI; GPIO, AFIO and EXTI; CRC, RNG, SDIO and ADC | — |
| `PlainRegisters` | registers the code stores and never uses: priorities, threshold, VTF channels and SCTLR of the PFIC, capture/compare, mode and DMA registers of a TIM | — |
| `Hart` | traps, `mret`, the register bank, user mode, `wfi`, `gintenr` and the PMP, in every mode of `mtvec` | — |
| `QingKe` | the cores and their extensions, the decode of the XW instructions, `mcpy` | — |
| `Boards`, `MemoryMap` | the table of boards; the regions as machine init maps them | `MemoryMap` on `Boards` |
| `Boot` | the image loaders and the start address | — |
| `Board` | the units from `Flash` to `Boot` side by side, with the machine reset they share | all of those |
| `BoardProofs` | the invariants of the units, and that the board keeps them | `Board` |

### MeipSlot

All peripherals share the machine external interrupt. `env->wch_evt_mcause_override` (the variable
`slot`) holds the PFIC number that the next external interrupt stands for; the vector lookup
reads it. A device that wants an interrupt finds the slot free, or its own, and claims it;
otherwise it returns and relies on the owner to walk `pfic_resync_table` when it lets go.

State and code: `slot`, `mip`, `mie` are the `env` fields; `iactr`, `ipr`, `ienr` the PFIC words;
`latched` the `irq_active` flags of the TIMs and the MACs; `line` and `gate` stand for the device
registers: `line` for "status and enable registers ask", `gate` for a second enable that has
effects of its own (USB host mode, TCIE). `untold` is history: the devices whose registers changed
without a call of their resync. `gie`, `mpie`, `vtf`, `vtfInIsr`, `hpeDepth`, `swSkip` are
`mstatus`, `mtvec` and the WCH fields of `env`; `handlers`, the stack of vectors being executed,
is history that the properties compare them with.

Actions: `DeviceEvent` is any handler or callback of a device that changes its request and ends in
its resync function, of which there are five shapes (`UsartResync`, `LatchResync`,
`Eth10mResync`, `UsbResync`, `DmaFire`). `QuietChange` is the two register changes that no resync follows:
a store to the MAC's DMAIER (`ch32-eth-dwmac.c:1340`) and a byte that USART1 receives under DMAR
(`ch32-usart.c:529`). They change `line` and leave the routing alone; from then on the device is `untold`, until its resync or a
walk of the table hears of it (`Hear`), and any such walk computes from the changed registers. `UsbModeWrite`, `DmaTransfer`, `DmaError`, `DmaConfigure`,
`DmaClear` are the handlers that do something else; `WriteIENR` to `WriteIPRR` the PFIC
registers; `WriteStkCtlr`, `ClearStkSr`, `StkTick` the SysTick side; `TakeExternal`,
`TakeSoftware`, `TakeTimer`, `Fault` and `Mret` the hart; `Reset` is `ch32_machine_reset`. Of several pending interrupts the
hart takes the one with the lowest number (`cpu_helper.c:395`: `ctz64`, as the cores have no Smaia): the context switch
(MSIP, 3) before SysTick (MTIP, 7) before the peripherals (MEIP, 11). SysTick is therefore entered with MEIP pending and owned,
which is the ordinary case and the easiest way into `ClaimMret`. IPSR injects any enabled bit but Software_IRQn's,
those of NMI, HardFault and SysTick included (`SystemIrqs`); a fault's own entry is `HardFault`, told apart from a pended one.

`Rescan` is the closed form of "release and walk the table". The code's walk may call itself: a
resync function that releases the slot walks the table, whose rows are resync functions again. `PficHandlers` writes that out:
`UsartOne`, `LatchOne`, `Eth10m` and `UsbOne` are the functions of one device, `Row` the loop of a row over its devices, `WalkTable` the loop
over the rows, and `ResyncPending` the walk that a resync function, or the callback of `mret`, starts. A walk inside that walk is not carried out but
recorded: `Entered` puts a number into `slot` that no peripheral has. No step of `MeipSlot` leaves that number
behind, so the refinement says two things: that `Rescan` and the other closed forms are what the
statements come to, and that a walk, which starts with a free slot, never releases it again, so that the recursion stops there.

### SysTick

The count is never stepped: it is computed from the virtual clock as `cnt0` at `epoch` plus the
ticks since. One timer rings at the next multiple of CMP. `Tick`, the callback, may run at any
time after its deadline; between the two the firmware, the other devices (`PeripheralRelease`: a
walk of the table re-arms SysTick too) and a reset may act.

### Tim

Like SysTick, with three differences that matter: the period is that of ATRLR and the count is read modulo
it; the callback, not the clock, puts the count back to 0, so that a late callback is a longer period; and a
prescaler can divide the clock to 0, which stops the counter. `atrlr` and `preload` are the period in force and
the one ARPE keeps for the next update. `TicksLeft` keeps the 32-bit arithmetic of `ch32_tim_schedule`, in which a
count beyond the period wraps. `asked` is `uif_active` as `ch32_tim_meip_update` computed it last, which is
what `MeipSlot` calls a TIM in `Requesting`.

### Usart1

`stage`, `fifo` and `txLen` are `rx_stage_buf`, `rx_buf` and the fill of `tx_buf`; `rxPending`
and `rdr` cache the head of `fifo`, `txEmpty` and `txComplete` cache the state of the transmit
FIFO; `rxTimer` and `txTimer` say whether the QEMU timers are pending. `asked` is the request that
`ch32_usart1_meip_resync` computed last, which is what `MeipSlot` calls `53 \in Requesting`.
`asleep` says that the backend was told "cannot receive" and has not been called back, `got` what
DATAR returned last. A ring of 64 cells holds 63 bytes, so a buffer is a sequence of at most
`RxRoom = RxDepth - 1` or `TxRoom = TxDepth - 1` bytes.

### EthDwmac

Four parties act on the same rings. The firmware fills transmit descriptors (`PutTx`), reads and hands back
receive descriptors (`ReadRx`, `GiveRx`) and writes DMAOMR, DMASR, DMAIER, the poll demands and the list
addresses; the network sends (`HostSend`), into `stash` or, while that is full, into `queue` with `reading`
cleared; the bottom half and the poll timer move frames between the stash and the ring. `txCur` and `rxCur` are
the MAC's cursors, 0 before their first use; `txHead`, `rxHead`, `held` and `got` are the firmware's side, history
that the properties compare with. A descriptor is `"free"`, `"own"`, `"bad"` (its buffer is outside SRAM),
`"nolen"` or the frame written to it. `Scan` is the search of `ch32_eth_deliver_rx_stash` from the cursor, of
which the length is `MaxRing` whatever the size of the ring.

The refinement of `LossyQueue` maps the frames on their way to what is unread in the ring, from the firmware's
position on, then the stash, then the queue. It holds only if `MaxRing` is a multiple of the ring size: see
`ClaimRxOrder` under [What the runs refute](#what-the-runs-refute).

### Board and its units

Each unit module has one record variable for the fields of its part of `Ch32MachineState`, one operator per
handler and register, a machine reset, and a specification of its own (`FlashSpec`, `UsbSpec`, …), with which it
can be checked alone. `Board` puts the units side by side. They share no state: `BoardReset`,
`ch32_machine_reset`, is the one step that touches several. The product of all of them is out of reach and would
show nothing, so the firmware of `Board` has the driver of one unit, `focus`, chosen in the initial state; the others stay
at their power-on values until a reset. `BoardSpec` therefore checks each unit under its own steps and resets.
Mapping the memory (`MemoryMap`) and loading the image (`Boot`) are two more values of `focus`: they run once and
end, which is why `Board.cfg` and `ClaimAfio.cfg` turn the deadlock check off. No other listed run does.

What the unit variables record beyond the code's fields is history: `UsbHost`'s `waiting`, `heard`, `armed` and
`asked`, what the firmware asked for and was told; `Watchdog`'s `asked`, the reset requested from the main loop; `Eth10m`'s `unread` and `half`, a packet the firmware was not told of and a
stash whose room came with the high byte of ERXST;
`Rcc`'s `told`, the frequencies SysTick and the timers were last given; `Hart`'s `frames` and `lost`, what was
interrupted and whether the books may be wrong; `Dma`'s `told`, that a channel was started; `UsartLite`'s `sent`, the bytes put into the FIFO
and not taken out.

## Modelling decisions

- *Atomicity.* Every handler, callback, trap entry and `mret` runs under the BQL: one action each.
- *Firmware.* Unconstrained: any register, any order, in the thread and in handlers. In `MeipSlot` it is assumed to
  set `mtvec` to VTF mode in its startup code, before it enables interrupts, as every start file
  of the vendor does, and to stay in machine mode; `Hart` has the other modes and user mode. IENR, IRER and IPSR
  writes change one bit at a time, as `NVIC_EnableIRQ` and its siblings do. In `EthDwmac` it is a driver that
  reads frames in ring order and hands over descriptors it has read; in `Hart` a handler restores the `mepc`, MPP and
  MPIE it found.
- *Requests.* `MeipSlot` lets a device raise or drop its request at any time, with its resync; the MAC and USART1
  also without. The device modules say precisely when they ask and which of their writes resync.
- *DMA.* `ch32_dma_exec` runs the whole transfer inside the CFGR write and always clears EN. The USART
  pumps want EN set and so never move a byte; `ch32_dma_finish_channel` is unreachable and has no
  action. A DMA transfer from DATAR is a number of reads in a row (`Usart1`: `ReadDatar`),
  and reads 0 where no byte has arrived.
- *Data.* Frames, packets and bytes are tokens; sizes and addresses are what the handlers compare them with:
  a packet fits or it does not, a buffer is in SRAM or it is not. A word of the CRC unit is a set of exponents, a clock
  setting a record of fields, a memory address a number of words.
- *Priorities.* The code stores the PFIC priority and threshold registers and never uses them: they are in
  `PlainRegisters`, which has what there is to them, the accesses that reach them, and no part in the routing.
- *Backend.* Connected, and reading one byte per `can_receive` (which returns 0 or 1). It stops when told
  so until `accept_input`, as the comment in `ch32_usart1_can_receive` describes stdio.
- *Twins.* The full-speed USB host is a copy of the high-speed one at other offsets, the GPIO ports, the backup words
  and the light USARTs are alike: one stands for them.
- *A timer that re-arms itself and does nothing else* is a stuttering step and has no action.
- *Variants.* Operators marked "Variant" are plausible mistakes in the operator that follows; they are not part of
  the specification. `PROJECT.json` pairs each property with a variant that breaks it.

Fairness. None in `MeipSlot`, `SysTick` and `Tim`: whether an interrupt is served there depends on the firmware,
which may disable it for ever, so "everyone is served" is stated as safety: when the slot is free nobody
who may claim it and was told is left; latched devices are the other exception (`ClaimReinject`). Where a property needs something to happen, only the main loop is assumed to be fair, which runs
expired timers and scheduled bottom halves: `RxTick` in `Usart1`, `BottomHalf` and `PollTick` in `EthDwmac`, and in
`Watchdog` (and so in `Board`) the passing of time, the timer's ring and the reset it asked for (`DogFairness`).
Nothing is assumed of the firmware, the network, a USB device or the serial backend.

## Runs

| Run | Instance | Shows |
|---|---|---|
| `MeipRoute` | both MACs and USART1; HardFaults of the thread; 2 nested traps; 1.70 M states | MEIP follows the owner (`MeipMatchesOwner`), the VTF counters follow the handlers (`VtfMatchesHandlers`), the USART whose handler runs keeps the slot (`UsartKeepsSlot`), nobody who was told waits for a free slot (`NobodyWaitsForFreeSlot`) |
| `MeipUsb` | a USB host, DMA1 channel 1 and a pended NMI; machine resets at any moment; 3.42 M states | an owner always asks, also when its device leaves host mode, loses its flags or is reset (`OwnerAsks`); nobody loses the slot while it asks (`OwnerNeverPreempted`) |
| `WalkUsb` | a DMA channel and a USB host; 434 k states | the handlers and walks, as written, implement the closed forms (`ImplementsMeipSlot`) |
| `SysTick` | 20 clock units per second, HCLK 8 or 17, registers of two digits base 3, six units of time; 366 k states | armed exactly while it runs, rings within one count of CMP, MTIP has its flag, the callback moves on |
| `Tim` | 4 clock units per second, TIMxCLK 2 or 3, registers 0 to 2, 32-bit words of 16 values, three units of time; 285 k states | armed exactly while it counts, with prescalers that stop it too (`ArmedWhileCounting`), rings at the next overflow of the count the firmware reads (`RingsAtNextOverflow`), the callback moves on however late it is (`TickMovesOn`) |
| `Usart1` | two bytes of receive FIFO, one of transmit FIFO, two byte values, all CTLR1 bits; 182 k states | one queue (`ImplementsByteQueue`), caches and request current (`FlagsMatchFifo`, `AskIsCurrent`), no work without a timer (`TimersMatchQueues`), a silenced backend is woken (`BackendWakes`, and as liveness `BackendHeard`) |
| `EthRx` | CH182 PHY, two frames, two receive descriptors, a scan of four; 80 k states | a frame is read once and in order (`ImplementsLossyQueue`), the tap is never left unread (`TapIsResumed`), the poll timer runs exactly when it should (`PollMatches`) |
| `EthTx` | built-in PHY, two transmit descriptors, the events T and PHYLINK; 11 k states | what was handed over is sent without a poll demand (`TxGetsSent`), the link is announced (`LinkAnnounced`), an event enabled late still interrupts (`EventHeard`) |
| `Board` | each unit in turn, see below; 151 k states | the properties of the units |
| `ClaimMret`, `ClaimAfio`, `ClaimDmaCh8` | the smallest instance each | refuted; see below |

`Board` checks, unit by unit:

| Unit | Instance | Property |
|---|---|---|
| `Flash` | three sectors, the blocks and words of `FlashWords` | no step takes data from a closed controller or a protected sector, and what is refused is refused whole (`FlashProtects`) |
| `Watchdog` | two prescalers, two reload values | an enabled watchdog has its timer pending within its timeout or has asked for the reset (`DogWatches`); the reset comes unless the key is written (`DogBites`) |
| `Rcc` | two oscillators, two values for each field | the frequencies SysTick and the timers know are those CFGR0 selects (`RccTimersKnowClock`) |
| `UsbHost` | all tokens, devices that answer late | a request that was not answered is in flight, an answer was asked for (`UsbRequestKept`); a device shows, whatever the enables were (`UsbDeviceAnnounced`) |
| `Eth10m` | a peer queue of two packets | no packet is left in the stash while the buffer is open, unless the high byte of ERXST alone opened it, and none in the buffer is untold (`Eth10mFrameTold`); the link is announced in time (`Eth10mLinkInTime`) |
| `MemoryMap` | every board, with five flash sizes, two of which are refused, and three boot modes | every device answers at its registers, placeholders nowhere in front of one (`MapDevicesAnswer`; AFIO excepted, see `ClaimAfio`) |
| `Boot` | ELF, binary and HEX with records in any order, a flash of two words | the hart starts in the image, at the address it was linked for (`BootStartsInImage`) |
| `UsartLite` | a ring of three cells | the ring is a queue (`LiteRingIsQueue`) |
| `Hart` | one bank, two nested traps, user mode, one PMP region | the bank holds the registers of the interrupted code and the counters those of the handlers, and the bottom is never left without interrupts (`HartBooksMatch`) |
| `QingKe` | all thirteen cores, registers 0 and 7, all immediates; three cells of memory | what was assembled is executed, or refused by a core that lacks it (`IsaRunsWhatWasWritten`); mcpy copies each byte once however often it is interrupted (`McpyCopiesOnce`) |
| `Backup`, `SerialBuses`, `Pins`, `SmallUnits`, `Dma`, `EthPhy`, `PlainRegisters` | see `Board.cfg` | run as parts of the board without a property of their own: what they do is set by one handler each; where documents say otherwise is below |

Bounds. The routing protocol involves the owner, one waiter and the device that acts; each of the device
shapes meets a rival in some run, and the proofs remove the bound for all but what is listed under
[Proofs](#proofs). `OwnerAsks`, with its exceptions for USART handlers and DMAIER, also holds of `MeipRoute.cfg`. `MaxHandlers` is 2 in `MeipRoute`: in VTF mode the code allows one interrupt, which can stand above
or below one exception. The SysTick frequencies do not divide the second, so that both conversions round; six units pass
several wraps of the small CMPs. In `Tim` the counts per unit of time are 3/4, 2/4 and 1/4, so that periods of two counts wrap
within the horizon and callbacks run late; prescaler 2 on the slow clock stops the counter. Two-byte buffers are
empty, partly filled and full; the proofs cover every size. Two receive descriptors are the smallest ring with an order,
and with one frame in the stash and one in the queue every hand-over of a frame has a frame behind it. Two bits of a field
that selects a power of two, or the two ends of a range, take both branches of every comparison; a unit without
arithmetic has no other bound. The limits on time (`Horizon`), traps (`MaxHandlers`, `HartNest`), queues (`MaxQueue`,
`Eth10mQueue`) and random numbers (`RngCap`) are guards of the model and not of the code.

## What the runs refute

Three statements of comments are refuted by listed runs:

- `ClaimMret` (`ch32-stk-pfic.c:471`, "clear the active bit of the current IRQ"). While `SysTick_Handler` runs a
  device claims the slot. The `mret` of `SysTick_Handler` retires whatever the slot names, before it was
  delivered; since SysTick comes first, a device that asks in the same instant is enough. Table devices claim again in the walk; a
  software-pended or DMA interrupt is lost.
- `ClaimAfio` (`ch32-gpio-afio.c:130-134`, accesses below 0x800 "are handled by the higher-priority AFIO region"). Machine
  init maps AFIO first and the GPIO block after it, at the same base and with the same priority 2. Of two
  such regions the one mapped later is in front: AFIO and EXTI are never reached.
- `ClaimDmaCh8` (`ch32-dma.c:26`, `ch32-dma.c:100`: channels 8 to 11 of DMA2 are at 0x490 and following). The decode tries
  the block of channels 1 to 7 first, whose seventh stride reaches up to 0x494. The CFGR of channel 8 is taken for
  padding of channel 7 and dropped, so that channel 8 never starts.

The formulas below are refuted in the same way and can be run by hand. With a configuration of their own:

| Configuration (module) | Statement | Counterexample |
|---|---|---|
| `ClaimMasked` (`MeipClaims`, `OwnerIsDeliverable`) | `ch32-usart.c:216`: the PFIC enable governs, `mie` need not be written | the USB resyncs and rows, last in the table, disable MEIP under a USART that has just been served |
| `ClaimErxst` (`Eth10m`) | `ch32-eth-10m.c:559`: a write of ERXST delivers a stashed packet at once | only a write that covers offset 0x0C does (`ch32-eth-10m.c:560`): a byte store to 0x0D makes room and leaves the packet in the stash, and `can_receive` refuses every further one |
| `ClaimReinject` (`MeipClaims`) | `ch32-eth-dwmac.c:346`: after `mret`, if DMASR still has events, the poll timer injects | the row of the MAC in the walk sees `irq_active`, which nothing but a drop of the request clears: the MAC stays deaf. `NobodyWaitsForFreeSlot` therefore excepts the latched devices |
| `ClaimDmaRelease` (`MeipClaims`) | `ch32-dma.c:448`: the slot goes back to the other devices | INTFCR frees the slot and walks nothing; a waiting USART stays without it |
| `ClaimLostTick` (`SysTickClaims`) | `ch32-stk-pfic.c:175`: CNTIF is set when the count reaches CMP | a write between deadline and callback re-arms the timer and the wrap is lost |
| `ClaimTimOverflow` (`TimClaims`) | `ch32-tim.c:245`: arms the timer for the next update event | in the instant CNT is written it reads back unreduced; beyond ATRLR, `reload - cnt_now + 1` wraps at 32 bits and the update comes some 2^32 counts later (45 s at 96 MHz), while CNT goes on wrapping at ATRLR |
| `ClaimRxne` (`Usart1`) | `ch32-usart.c:526`: if DMAR=1 and the channel is configured the pump moves the byte, otherwise RXNE interrupts | with DMAR set the resync is skipped whether or not a channel takes the byte, and no channel ever does: the byte is announced by the next unrelated resync |
| `ClaimRxOrder` (`EthDwmac`) | `ch32-eth-dwmac.c:936`: the descriptor at the cursor was consumed by the firmware (OWN=0), so the scan goes on from it | in a ring that is full of unread frames the scan passes over all of them and wraps; with a size that does not divide 16 the cursor comes to rest elsewhere than it began, and the next frame is written in front of older ones: frames change places |

Without one. The `MeipClaims` need `MaxHandlers = 1`, `Faults = "none"`, `GuestReset = FALSE`, the `Irqs` in the table and
`Pended = {}` unless it says otherwise; the others take the constants of the configuration named, but for what is added:

| Formula (module; constants) | Statement | Counterexample |
|---|---|---|
| `ResetWithdrawsMeip` (`MeipClaims`; {77}, `GuestReset = TRUE`) | `ch32-eth-dwmac.c:1426`: the reset withdraws the ETH interrupt | the hart forgets the owner before the MAC is reset; MEIP stays up |
| `DmaPendRetried` (`MeipClaims`; {27, 53}) | `ch32-dma.c:151`: a pended DMA interrupt is tried again after `mret` | the retry masks the DMA bits out; with TCIF gone nobody injects it |
| `ExceptionReturnsAlone` (`MeipClaims`; {53}, `MaxHandlers = 2`, `Faults = "anywhere"`) | `op_helper.c:426`: only VTF interrupts count down at `mret` | the `mret` of a HardFault handler inside an interrupt counts down and pops a bank |
| `IdleHasNoActive` (`MeipClaims`; {27}, all of them `Pended`) | `ch32-stk-pfic.c:89`: the active bit is cleared at `mret` | INTFCR frees the slot of a pended channel, so `mret` finds no owner |
| `Eth10mFirst` (`MeipClaims`; {53, 61}) | `ch32-stk-pfic.c:378`: ETH10M comes first | the table has the USARTs and the timers before it |
| `RccKeepsCount` (`SysTickClaims`; `SysTick.cfg`) | `ch32-stk-pfic.c:907`: the count is read at the old frequency | CFGR0 is stored before the hook runs, so the elapsed time is converted at the new frequency and the count jumps |
| `FlagNeedsWrap` (`SysTickClaims`; `ClaimLostTick.cfg`) | `ch32-stk-pfic.c:175` | rounding rings one count early and sets the flag twice |
| `SoftResetRestarts` (`EthDwmac`; `EthTx.cfg`, `Reinit = TRUE`) | `CH32V307-ETH-*.md`, section 6.1: DMABMR.SR resets the whole MAC | SR leaves the cursors as they are; a firmware that builds its rings anew and starts at the first descriptor is not heard: the MAC looks at another one |
| `PrescalerKeepsCount` (`TimClaims`; `ClaimTimOverflow.cfg`) | `ch32-tim.c:489`: the prescaler takes effect at the next update | it takes effect at once, and for the time since the epoch as well |
| `ClockKeepsCount` (`TimClaims`; `ClaimTimOverflow.cfg`) | `ch32-tim.c:650`: the count is settled with the old TIMxCLK | as for SysTick |
| `HartDisableHolds` (`Hart`; `Board.cfg`) | `csr.c:6709`: `__disable_irq` through `gintenr` | user code may write `gintenr`, but in user mode MIE does not count and interrupts are taken |
| `HartRuleDecides` (`Hart`; `Board.cfg`, `HartRules = {{}, {"rule"}}`) | `cpu_helper.c:1131`: a rule about the address decides | `pmp_hart_has_privs` answers with the rights; a rule that grants none looks like no rule, and the access is let through |
| `IsaZcbLoads` (`QingKe`; `Board.cfg`, in the initial state) | `wch-qingke-cpu.c.inc:50`: Zcb is the baseline of all models | where the XW decoder is asked first it takes the encodings of Zcb's loads |
| `BootModeDecides` (`Boot`; `SPECIFICATION BootSpec`, `BootFlash = 2`, `BootBase = 16`, `BootJump = BootBadJump = 1`) | `ch32-v.c:404-415`: mode sysmem starts at 0x1FFF8000 and sram at 0x20000000 | each path of image loading overwrites the start address with one in the flash |
| `BootJumpFollowed` (`Boot`; `Board.cfg`) | `ch32-v.c:592-599`: the jump in the first word is followed as the hart would, from the start of the flash | its offset is added to the entry of the HEX file, wherever in the flash that is |
| `I2cStartAnswered` (`SerialBuses`; `Board.cfg`) | `ch32-i2c.c:22`: GenerateSTART leads to SB, BUSY and MSL | START and STOP stay set in CTLR1, so that the read-modify-write of a second START brings the old STOP along, which is obeyed last |
| `RtcSecondFlagClears` (`Backup`; `Board.cfg`) | `ch32-rtc.c:43`: SECF stays until a zero is written to it | the zero clears the stored bit, and the read computes it from the clock again |
| `BkpSurvivesReset` (`Backup`; `Board.cfg`) | section 1 of the BKP chapter: only a reset of the backup domain clears the words | the machine reset clears them |
| `PinsSetWins` (`Pins`; `Board.cfg`) | section 5 of the GPIO chapter: a pin that BSHR sets and clears is set | the handler sets first and clears after |
| `FlashLockReads` (`Flash`; `Board.cfg`) | section on CTLR in the FLASH chapter: LOCK reads 0 when the controller is open | LOCK reads 0 after a write that cleared it while the controller stayed closed |

Noticed while reading, without a formula: TXE is "transmit FIFO empty" where the comment at
`ch32-usart.c:147` says "not full", and with UE=1, TE=0 both TXE and TC are 0 where the comment at
line 150 says 1; a byte written with UE=0 overtakes those in the FIFO; a DMA transfer of more than 63 bytes to
DATAR loses the rest; INIT with SysTick counting down sets the count to 0 where the comment says CMP; the
count goes on with STE=0; a write of CNTL clears the upper half; comments say that the V2 cores have no PMP and their
descriptions have four regions; `gintenr` reads back the whole of `mstatus` where `csr.c:6711` says MIE and MPIE only.

## Proofs

TLAPS checks the following for every value of the constants that their assumptions allow: any set of devices
`Irqs`, any bound on the handlers, any ring size, any frequency, any number of flash sectors.

**`MeipSlotProofs`.** The invariant `Inv` is typing (`RouteOK`, `RequestOK`, `HartOK`) together with
`IactrIsOwner`, `LatchMatches`, `OwnerAsks` and, without guest resets, `MeipMatchesOwner`. They need each other: that the active bits are the owner's after a
walk rests on the owner having been the only active one before; that a latch never outlives its request rests
on the resync functions of the TIMs and MACs releasing the slot in the same step in which they drop the latch;
that owners ask rests on both. One lemma per resync shape (`UsartResync`, `LatchResync`, …, `Rescan`)
states what it keeps, and the step lemma has one step per action. From `Inv`:

| Theorem | Says | Besides the assumptions of the constants |
|---|---|---|
| `TypeCorrect`, `ActiveBits`, `Latches`, `OwnersAsk` | the parts of `Inv` | — |
| `Arbitration` | `OwnerNeverPreempted` | — |
| `MeipIsOwners` | `MeipMatchesOwner` | no guest resets (`ResetWithdrawsMeip` of `MeipClaims` fails with them) |
| `Nesting`, `UsartHandlers` | `VtfMatchesHandlers`, `UsartKeepsSlot` | exceptions stay out of handlers (`ExceptionReturnsAlone` fails otherwise) |
| `FreeSlotServes` | `NobodyWaitsForFreeSlot` | no DMA channel (`ClaimDmaRelease`) and no USB host, whose release on leaving host mode does not walk |

`OwnerAsks`, `LatchMatches` and `NobodyWaitsForFreeSlot` say nothing of a device that is `untold`: a store to DMAIER may take the request from
under an owner, or make one that nobody hears of. By `Hear` the exception ends with the device's resync or
with the next walk; that the MAC's resync comes is `EventHeard` of `EthTx`.

`Nesting` needs a second invariant that ties `gie`, `vtfInIsr`, `swSkip` and the handler stack together:
the counters alone do not say why a second interrupt cannot enter.

**`Numbers`.** Division by a number that is not a literal, and induction, are not within the provers' own reach, so what
is needed of them is proved once. The library states induction for an operator, which no installed prover can
instantiate; here it is a fact about a set (`NatInduct`, `IntervalInduct`): the property is the set of the
numbers that have it. `IterateExists` says that a function defined by its value at 0 and by a step exists, from which a proof about a
function in the model that is defined by recursion starts. The rest is what determines a quotient and a remainder
(`DivisionUnique`), sums and successors under the modulo (`ModSum`, `ModNext`), and two facts about timers: how many ticks
have passed when a delay that was rounded has run down (`TicksAfterDelay`), and which counts are next to a
multiple (`NextMultiple`).

**`SysTickProofs`.** `Inv` is typing, `ArmedWhileRunning` and `MtipHasFlag`; `CallbackAdvances` (`TickMovesOn`)
follows from a lemma that a delay of at least one count is at least one clock unit, which is where the
assumption that no counter is faster than the clock is used. `RingsAtCompare` (`RingsNearWrap`) takes the instant that
`ch32_stk_schedule` computes through both conversions, from ticks to time and back to the count at that time
(`RingsNear`), and then shows of every action that it re-arms the timer or leaves alone all that the instant was
computed from.

**`TimProofs`.** `Inv` is typing, `ArmedWhileCounting` and `AskIsCurrent`; `UpdateAdvances` (`TickMovesOn`) rests on the
lemmas that there is always a count left to the overflow, wrapped or not (`TicksAhead`), and that a count takes
time (`DelayPositive`). `TimTyped` says that the modulo keeps every saved count within the register.
`RingsAtOverflow` (`RingsAtNextOverflow`) is shown as for SysTick, with the count taken modulo the period, and with the passing
of time: an armed deadline stays within one period of a clock that moves on under it (`DelayMonotone`, `CountInPeriod`).

**`Usart1Proofs`.** `Inv` is the conjunction of the type invariant and the four invariants of the run. `BackendWakes` is not inductive alone: a
backend is refused when the stage is full, and only `TimersMatchQueues` says that a tick is then ahead.
`AskIsCurrent` holds because each step either ends in the resync or leaves everything the transmitter's
request is made of. `Refinement` maps the abstract queue to `fifo \o stage`: `BackendSend` appends, `RxTick`
moves a head across the seam and stutters (`MoveHead`), `ReadDatar` takes the head because `rdr` is
it (`FlagsMatchFifo`, `TakeHead`), `Reset` flushes.

**`EthDwmacProofs`.** `TypeInv` is typing together with the claim that the descriptors the firmware holds are the last ones in
its reading order and are free, without which `GiveRx` might hand over a frame. `TapResumed` and `PollTimerKept` are inductive over it
(`TapStep`, `PollStep`). The refinement `ReceiveIsLossyQueue` needs `RingInv`: from the firmware's position on come first the unread
frames, then the descriptors the MAC owns, then those the firmware holds, and the cursor of the MAC stands where its
part begins. The scan that passes over descriptors is a recursive function; `ScanEquation` and `ScanWalk` find what it returns, and `ScanPlace`
that it stops at the MAC's first descriptor or, if there is none, `MaxRing` further on, which is the place it started from because
the ring size divides `MaxRing` (`RingDivides`). The frames an abstract queue holds are the frames in the ring, the stash and the
NIC queue; lemmas on appending to that list and taking its head (`FramesAppend`, `FramesTail`) turn each action into a step of
`LossyQueue` or a stutter (`LossyStep`). Both conditions of the theorem are needed: `ClaimRxOrder` shows what happens if the size does
not divide `MaxRing`, `SoftResetRestarts` what a firmware meets that builds its rings anew (`Reinit`).

The type invariants of these five modules are theorems (`TypeCorrect`, `SysTickTyped`, `TimTyped`, `Usart1Typed`, `EthTyped`) and
no run repeats them.

**`BoardProofs`.** Each unit has an invariant of its own, shown for the unit's `Next`: `UsbInv` (typing, and both USB
properties: what shows as an answer was asked for because what is in flight was); `Eth10mInv` (typing, that a stashed packet
needs a closed buffer or one opened by the high byte of ERXST alone, and the link timer, pending at the deadline or behind it); `RccInv` (the told frequencies,
with the lemma that they depend on the compared fields only, which is what the code's mask claims); `DogInv` (typing, and the
timer within the timeout of the parameters in force, for which a timeout is at least one tick: `DogTakesTime`). `FlashProtects` is an action property and
follows from the shape of the state. Then `BoardSteps…` say that every step of the board, `BoardReset` included,
is a step of the unit or leaves it alone, and the theorems `BoardUsbRequestKept`, `BoardUsbDeviceAnnounced`,
`BoardEth10mFrameTold`, `BoardEth10mLinkInTime`, `BoardRccTimersKnowClock`, `BoardDogWatches` and
`BoardFlashProtects` carry the invariants over. `DogAssumption` asks that the reload values have a greatest one, as the
12-bit register has.

The rest of the units:

| Theorem | The inductive invariant and the argument |
|---|---|
| `BoardLiteRingIsQueue` | `LiteInv`: `sent` is read off the ring from `head`, with the remainders written out (`LiteFill`, `LitePlace`); putting fills the cell behind the last, taking moves the head |
| `BoardBootStartsInImage` | `BootInv`: until a record named a start the entry is the start of the flash |
| `BoardHartBooksMatch` | `HartInv`: only the frame at the bottom can be user code (`HartStacked`), and the books (`HartBooks`). While `lost` is not set faults come first and then interrupts, whose registers are the bank in its order, or one yield (`HartTidy`): an exception inside either sets `lost`. When it is set, bank and counters are still bounded by the number of frames (`HartBounded`), and that is why they are empty at the bottom again. The frames of one kind, a recursive function in the model, are a section of the stack (`HartPickedIsSection`) |
| `BoardMcpyCopiesOnce` | `McpyInv`: a copy that runs fits into the memory and has changed only its target. After n turns of the loop the first n bytes of the target are those of the source and all other cells as they were (`McpyMemCopies`); that a copy which begins again does nothing else the second time follows |
| `BoardIsaRunsWhatWasWritten` | `XwInv` is the property with the model's name. The work is in the fields: each offset is cut into bits and put together again, and each field of the word is a quotient and a remainder of a sum of powers of two (`IsaRunsBytes`, `IsaRunsHalves`, `IsaRunsStack`, `IsaRunsMcpy`, `IsaTellsMarchid`), for all eight compressed registers, all 32 of mcpy and every offset |
| `BoardMapDevicesAnswer` | `BusInv`: the size is the board's or one the option accepts. The map is cut into the memories, which depend on board and size, and four lists of regions. `MapSound` says of one part that none of its regions hides the first or the last register of another, `MapApart` the same of two parts, and `MapJoins` that sound parts which lie apart may be put together; so the regions are compared list by list (`MapFirst`, `MapDevicesApart`, `MapMemoriesApart`, …), where the bounds of the sizes (`BusSizesBounded`) decide, and `MapWhole` is the map |

**`PficHandlersProofs`.** `HandlersRefine` says that `HandlerSpec` implements `MeipSlot!Spec`, for every set of peripherals; it needs the typing part of
`Inv` from `MeipSlotProofs` and is otherwise a statement about functions on routing states.

- The walk. It starts with a free slot. `Passed(q, c, e, S)` is what is true of the routing `e` when the walk began with `c` and the devices of `S` had their turn:
  if the slot is free nobody of `S` asks whose latch was open; if it has an owner, that is the first such device of `S` in the order of the table; every device of `S` that
  does not ask has dropped its latch, and MEIP follows the owner. `Touched` adds what a turn does to `ipr` and to the mask of MEIP. `StepPasses` shows both for one turn, from one lemma for each of the
  resync functions; `RowPasses` for the loop of a row; a device that comes a second time (the light USARTs, the TIMs and the DMA controllers
  have several rows) changes nothing once the slot has an owner or nobody asks. `WalkCloses` runs the fifteen rows and
  finds `Rescan`. In none of these turns does an owner release the slot, so `Entered` is never reached.
- A device's own call, on the other hand, finds the slot in any state. `RowActs` says where a row ends in which only one device, or a device and the owner,
  have something to do; `UsartRow`, `LatchRow`, `Eth10mRow`, `UsbRow` and `DmaRowFires` compare that with `UsartResync`, `LatchResync`, `Eth10mResync`, `UsbResync` and `DmaFire`.
- `MretRescans` is the callback of `mret`: release, walk, software pending. `HandlerStep` goes through the actions.

The order of the table is a sequence in the code and a ranking in `MeipSlot`; `RankIsPlace` and `LowestIs` relate the two. Besides what `MeipSlotProofs` assumes of the constants for `Inv`, it uses `IrqsAssumption`,
that peripherals have the numbers 16 to 103.

Model-checked only: `BackendHeard`, `DogBites` and the
properties of `EthTx`, which are liveness; and the conditional theorems outside their conditions.

## Done and left

Done: every device of the machine has its module; the routing, the hart, the instructions of WCH's own, the boards and
power-on; every safety property of the runs is a theorem. Left, in the order of their worth:

1. The composition of `Usart1` and `EthDwmac` with `MeipSlot`: their `asked` drives `DeviceEvent`, so that "a received byte is announced" spans both.
2. An abstract "periodic ticker" that both `Tim` and `SysTick` implement.

## Not modelled

- The rest of QEMU's RISC-V target: the standard instructions, their CSRs, the MMU. It is QEMU's own, and the larger part
  of the lines under `target/riscv`; what WCH changed there is in `MeipSlot`, `Hart` and `QingKe`.
- `intsyscr`: stored, never used. The repair of `mstatus.FS` at trap entry: it concerns
  the floating-point unit alone. The lock bits of the PMP, which are QEMU's.
- The contents of frames and packets, checksums, and the data the DMA moves.
- The window watchdog's counter, what TIM channels and capture would do, EXTI interrupts, I2C slaves, HTIF: the code does not have them.
- The build scripts and patches: they configure and build QEMU.
