--------------------------------- MODULE Boards ---------------------------------
(***************************************************************************)
(* The boards of ch32-boards.c: what the machine that -M names is made of, *)
(* and what its electronic signature (ESIG) tells the firmware of it.      *)
(* Sizes are in KiB, frequencies in MHz.                                   *)
(***************************************************************************)
EXTENDS Naturals

BoardCpusAll ==
    {"V5F", "V4F", "V4J", "V4C", "V4B", "V4A", "V3V", "V3F", "V3C", "V3B", "V3A",
     "V2C", "V2A", "base32"}
BoardCpusV3 == {"V3A", "V2A", "base32"}
BoardCpusV2 == {"V2C", "V2A", "base32"}

BoardDesc(tag, flash, ram, cpu, cpus, nic, hsi, hse) ==
    [tag |-> tag, flash |-> flash, ram |-> ram, cpu |-> cpu, cpus |-> cpus, nic |-> nic,
     hsi |-> hsi, hse |-> hse]

\* nic is the network device and its PHY.
BoardTable ==
    {BoardDesc("ch32v317", 480, 192, "V4F", BoardCpusAll, "dwmac", 8, 8),
     BoardDesc("ch32v307", 256, 64, "V4F", BoardCpusAll, "dwmac-10m", 8, 8),
     BoardDesc("ch32v305", 288, 64, "V4F", BoardCpusAll, "dwmac", 8, 8),
     BoardDesc("ch32v303", 256, 64, "V4F", BoardCpusAll, "dwmac", 8, 8),
     BoardDesc("ch32v203", 256, 64, "V4B", BoardCpusAll, "none", 8, 8),
     BoardDesc("ch32v203rb", 256, 64, "V4B", BoardCpusAll, "eth10m", 8, 8),
     BoardDesc("ch32v103", 64, 20, "V3A", BoardCpusV3, "none", 8, 8),
     BoardDesc("ch32v003", 16, 2, "V2C", BoardCpusV2, "none", 24, 24),
     BoardDesc("ch32h417", 896, 768, "V5F", BoardCpusAll, "none", 8, 8),
     BoardDesc("ch32v407", 992, 200, "V3V", BoardCpusAll, "none", 20, 8)}

\* The machine of a board starts without -cpu.
ASSUME BoardDefaultCpu == \A b \in BoardTable : b.cpu \in b.cpus

\* The chip that the signature names: a board that ch32_esig_populate does not
\* know says that it is a CH32V307.
BoardChip(b) ==
    IF b.tag \in {"ch32v103", "ch32h417", "ch32v407"} THEN "ch32v307" ELSE b.tag

\* The flash size in the signature, a register of 16 bits.
BoardEsigFlash(bytes) == IF bytes \div 1024 > 65535 THEN 65535 ELSE bytes \div 1024

BoardLargestFlash == 16 * 1024 * 1024

\* ch32_prop_set_flash_size: what -machine flash-size accepts; 0 stands for
\* the empty string, the board's own size.
BoardFlashSizes(sizes) == {s \in sizes : s = 0 \/ s \in 4096 .. BoardLargestFlash}
===============================================================================
