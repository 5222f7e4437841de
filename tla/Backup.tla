-------------------------------- MODULE Backup --------------------------------
(***************************************************************************)
(* The backup domain: the real-time clock, the backup data registers, the  *)
(* power controller and RCC_BDCTLR, whose BDRST bit clears the backup      *)
(* registers.                                                              *)
(*                                                                         *)
(* The RTC registers are halfwords; a counter or alarm value is a pair of  *)
(* digits to the base RtcBase, 65536 in the code.  A second of virtual     *)
(* time is one step.  The 42 backup data registers and those of the tamper *)
(* pin are all alike, one of them stands for them.                         *)
(***************************************************************************)
EXTENDS Naturals

CONSTANT RtcBase

ASSUME RtcBaseAssumption == RtcBase \in Nat /\ RtcBase >= 2

VARIABLE backup

RtcHalf == 0 .. RtcBase - 1
RtcCount == 0 .. RtcBase * RtcBase - 1
RtcJoin(high, low) == high * RtcBase + low
RtcHigh(count) == count \div RtcBase
RtcLow(count) == count % RtcBase

\* cnt is the count at this moment, rtc_cnt0 plus the seconds since then; the
\* shadows are what was written last to CNTH, CNTL, ALRMH, ALRML and CTLRL.
BackupState ==
    [running : BOOLEAN, cnt : RtcCount, alr : RtcCount,
     cnth : RtcHalf, cntl : RtcHalf, alrmh : RtcHalf, alrml : RtcHalf,
     ctlrl : SUBSET {"SECF", "ALRF"},
     datar : {0, 1}, bdctlr : SUBSET {"LSEON", "BDRST"}, dbp : BOOLEAN]

-----------------------------------------------------------------------------
(***************************************************************************)
(* The real-time clock.                                                    *)
(***************************************************************************)

\* rtc_base_ns is set to now: the count goes on from n.
RtcRestart(b, n) == [b EXCEPT !.running = TRUE, !.cnt = n]

\* A halfword written to CNTH or CNTL is joined with what was last written to
\* the other half, and restarts the clock.
RtcWriteCnt ==
    \E h \in RtcHalf :
        \/ backup' = RtcRestart([backup EXCEPT !.cnth = h], RtcJoin(h, backup.cntl))
        \/ backup' = RtcRestart([backup EXCEPT !.cntl = h], RtcJoin(backup.cnth, h))

RtcWriteAlarm ==
    \E h \in RtcHalf :
        \/ backup' = [backup EXCEPT !.alrmh = h, !.alr = RtcJoin(h, backup.alrml)]
        \/ backup' = [backup EXCEPT !.alrml = h, !.alr = RtcJoin(backup.alrmh, h)]

\* A word at the address of CNTH or ALRMH is the whole count or alarm, though
\* its low half is what the shadow of the high half gets; the halfword after it
\* is not a register.
RtcWriteWord ==
    \E n \in RtcCount :
        \/ backup' = RtcRestart([backup EXCEPT !.cnth = RtcLow(n)], n)
        \/ backup' = [backup EXCEPT !.alrmh = RtcLow(n), !.alr = n]

\* A word at the address of CNTL or ALRML, and a byte at any of the four, change
\* the shadow and neither the count nor the alarm.
RtcWriteShadow ==
    \E h \in RtcHalf :
        \/ backup' = [backup EXCEPT !.cntl = h]
        \/ backup' = [backup EXCEPT !.alrml = h]
        \/ backup' = [backup EXCEPT !.cnth = h]
        \/ backup' = [backup EXCEPT !.alrmh = h]

RtcWriteCtlrl ==
    \E bits \in SUBSET {"SECF", "ALRF"} : backup' = [backup EXCEPT !.ctlrl = bits]

\* RTOFF and RSF always read as one.  The flags of a running clock are what the
\* count says, whatever was written.
RtcReadCtlrl ==
    backup.ctlrl \cup
    (IF backup.running THEN {"SECF"} ELSE {}) \cup
    (IF backup.running /\ backup.alr # 0 /\ backup.cnt >= backup.alr THEN {"ALRF"} ELSE {})

\* The count as it is read, in halves or, at CNTH, as a word.
RtcReadCnth == IF backup.running THEN RtcHigh(backup.cnt) ELSE backup.cnth
RtcReadCntl == IF backup.running THEN RtcLow(backup.cnt) ELSE backup.cntl
RtcReadWord == IF backup.running THEN backup.cnt ELSE RtcJoin(0, backup.cnth)

\* A second passes.
RtcSecond ==
    /\ backup.running
    /\ backup' = [backup EXCEPT !.cnt = (@ + 1) % (RtcBase * RtcBase)]

(***************************************************************************)
(* Backup registers, power control and BDCTLR.                             *)
(***************************************************************************)

\* Writing needs neither DBP nor a clock.
BkpWrite ==
    \E v \in {0, 1} : backup' = [backup EXCEPT !.datar = v]

PwrWrite == \E on \in BOOLEAN : backup' = [backup EXCEPT !.dbp = on]

BkpReset(b) == [b EXCEPT !.datar = 0]

\* The BDCTLR part of ch32_rcc_write: the bit stays set, so that every later
\* write that keeps it resets the registers again.  A byte or halfword leaves
\* the other bits as they were.
RccWriteBdctlr ==
    \E bits \in SUBSET {"LSEON", "BDRST"}, touched \in SUBSET {"LSEON", "BDRST"} :
        \E new \in {(backup.bdctlr \ touched) \cup (bits \cap touched)} :
            backup' = IF "BDRST" \in new
                      THEN BkpReset([backup EXCEPT !.bdctlr = new])
                      ELSE [backup EXCEPT !.bdctlr = new]

\* LSE is always ready.
RccReadBdctlr == backup.bdctlr \cup {"LSERDY"}

-----------------------------------------------------------------------------
\* What ch32_soft_state_reset sets, at power-on and at every machine reset.
BackupPowerOn ==
    [running |-> FALSE, cnt |-> 0, alr |-> 0, cnth |-> 0, cntl |-> 0, alrmh |-> 0,
     alrml |-> 0, ctlrl |-> {}, datar |-> 0, bdctlr |-> {}, dbp |-> FALSE]

BackupInit == backup = BackupPowerOn
BackupMachineReset == backup' = BackupPowerOn

BackupRegisters ==
    \/ RtcWriteCnt \/ RtcWriteAlarm \/ RtcWriteWord \/ RtcWriteShadow \/ RtcWriteCtlrl
    \/ BkpWrite \/ PwrWrite \/ RccWriteBdctlr

BackupNext == BackupRegisters \/ RtcSecond \/ BackupMachineReset

BackupSpec == BackupInit /\ [][BackupNext]_backup

-----------------------------------------------------------------------------
BackupTypeOK == backup \in BackupState

\* The comment on ch32_rtc_read_ctlrl (lines 43 and 57): SECF stays until the
\* software writes a zero to it, which therefore clears it.
RtcSecondFlagClears ==
    [][backup'.ctlrl # backup.ctlrl /\ "SECF" \notin backup'.ctlrl
           /\ backup'.cnt = backup.cnt => "SECF" \notin RtcReadCtlrl']_backup

\* Section 1 of docs/CH32FV2x_V3xRM-*/04-BKP-*.md (line 11): only a reset of the
\* backup domain clears the backup registers, a system reset does not.
BkpSurvivesReset ==
    [][backup.datar # 0 /\ backup'.datar = 0 =>
           BkpWrite \/ "BDRST" \in backup'.bdctlr]_backup
===============================================================================
