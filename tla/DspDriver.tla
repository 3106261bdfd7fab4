------------------------------ MODULE DspDriver ------------------------------
(***************************************************************************)
(* The PCIe transport driver, class Driver of                              *)
(* src/src/core/dsp/driver_shannon.cpp, against the DSP chips it drives.   *)
(*                                                                         *)
(* The host calls open(), then reset_and_load(chip), write(), get_symbol() *)
(* and finally close() (the runtime that calls them is not among the       *)
(* sources; the order is the TransportDriver interface of spec section 6). *)
(* Every pciedrv / dnldmgr call may fail; the code's ERR macro then prints *)
(* and exit(-1)s, which is the state "exited".                            *)
(*                                                                         *)
(* Booting: dnldmgr_reset_dsp(chip, 1, init image, entry, ...) starts the *)
(* init image on every core, with the entry point in the core's boot-entry *)
(* word; a core clears its word when its init has run (CoreInitDone, the   *)
(* DSP side). wait_for_ready polls the words core by core, one read per    *)
(* step, so the cores finish between the host's reads. Addresses keep the *)
(* code's arithmetic: a core's L2 seen from the PCIe side is               *)
(* ((0x10 + core) << 24) + local address.                                 *)
(***************************************************************************)
EXTENDS Naturals, FiniteSets

CONSTANTS
    Chips,          \* the DSP chips pciedrv_get_num_devices() reports
    SwitchDevice,   \* pDevices_info[chip].switch_device
    NumCores,       \* TOTAL_NUM_CORES_PER_CHIP (8 in the code)
    MaxWaitCount,   \* the 1000 of "++execution_wait_count > 1000"
    Addrs,          \* DSP addresses the host writes to
    Sizes,          \* transfer sizes
    Values          \* data written

Cores == 0..(NumCores - 1)
SMALL_WRITE_LIMIT == 24 * 1024

(* ((0x10 + core) << 24) + addr: core's local address seen from outside.  *)
GlobalAddr(core, addr) == (16 + core) * 16777216 + addr

(* (addr >> 20) == 0x008: a local L2 address.                              *)
IsL2(addr) == addr \div 1048576 = 8

VARIABLES
    drv,        \* "closed", "open" or "exited"
    devinfo,    \* pDevices_info: "none", "valid" or "freed"
    entry,      \* entry[chip][core]: the boot-entry word is non-zero
    loaded,     \* the chips the monitor image was loaded on
    rl,         \* the reset_and_load in progress: chip, pc, core, count
    mem         \* mem[chip][global address]: last value written, or 0

vars == <<drv, devinfo, entry, loaded, rl, mem>>

Idle == [pc |-> "idle", chip |-> 0, core |-> 0, count |-> 0]

(* The global addresses the host may write, as write_core sees them.      *)
Targets == Addrs \cup {GlobalAddr(c, a) : c \in Cores, a \in {a2 \in Addrs : IsL2(a2)}}

Init ==
    /\ drv = "closed"
    /\ devinfo = "none"
    /\ entry = [ch \in Chips |-> [c \in Cores |-> FALSE]]
    /\ loaded = {}
    /\ rl = Idle
    /\ mem = [ch \in Chips |-> [a \in Targets |-> 0]]

-----------------------------------------------------------------------------
(* open(): pciedrv_open, malloc and pciedrv_get_pci_info; any failing is *)
(* fatal.                                                                  *)
Open(ok) ==
    /\ drv = "closed"
    /\ IF ok THEN drv' = "open" /\ devinfo' = "valid"
             ELSE drv' = "exited" /\ UNCHANGED devinfo
    /\ UNCHANGED <<entry, loaded, rl, mem>>

(* close(): free(pDevices_info), then pciedrv_close.                      *)
Close(ok) ==
    /\ drv = "open" /\ rl.pc = "idle"
    /\ devinfo' = "freed"
    /\ drv' = IF ok THEN "closed" ELSE "exited"
    /\ UNCHANGED <<entry, loaded, rl, mem>>

(* get_board: an unknown switch device is fatal.                          *)
BoardSupported(chip) == SwitchDevice[chip] \in {34340, 34632}   \* 0x8624, 0x8748

(* reset_and_load(chip) up to wait_for_ready: reset in, get_board, get the *)
(* init image, reset out with it (every core now holds its entry point),  *)
(* free the image. ok is whether the three dnldmgr calls succeed.         *)
ResetAndStart(chip, ok) ==
    /\ drv = "open" /\ rl.pc = "idle"
    /\ IF ok /\ BoardSupported(chip)
       THEN /\ entry' = [entry EXCEPT ![chip] = [c \in Cores |-> TRUE]]
            /\ loaded' = loaded \ {chip}
            /\ rl' = [pc |-> "poll", chip |-> chip, core |-> 0, count |-> 0]
            /\ UNCHANGED drv
       ELSE drv' = "exited" /\ UNCHANGED <<entry, loaded, rl>>
    /\ UNCHANGED <<devinfo, mem>>

(* The DSP side: a core's init image has run and cleared its boot entry.  *)
CoreInitDone(chip, core) ==
    /\ drv # "exited"
    /\ entry[chip][core]
    /\ entry' = [entry EXCEPT ![chip][core] = FALSE]
    /\ UNCHANGED <<drv, devinfo, loaded, rl, mem>>

SweepDoneSkipLast(core) == core + 1 >= NumCores - 1

(* for (core = 0; core < TOTAL_NUM_CORES_PER_CHIP; core++): the read of  *)
(* the last core was clear.                                                *)
SweepDone(core) == core + 1 = NumCores

TimedOutPostIncrement(count) == count > MaxWaitCount

(* ++execution_wait_count > 1000                                           *)
TimedOut(count) == count + 1 > MaxWaitCount

NextSweepNoCount(r) == [r EXCEPT !.core = 0]

(* ++execution_wait_count, usleep(1000), and the sweep starts again at     *)
(* core 0.                                                                 *)
NextSweep(r) == [r EXCEPT !.core = 0, !.count = @ + 1]

(* One read of wait_for_ready's loop: pciedrv_dsp_read of the core's boot *)
(* entry (a failed read is fatal). A non-zero word ends the sweep; after  *)
(* a sweep that found every core clear it returns true, and after the     *)
(* MaxWaitCount-th failed sweep false, which reset_and_load makes fatal.  *)
PollCore(ok) ==
    /\ drv = "open" /\ rl.pc = "poll"
    /\ LET busy == entry[rl.chip][rl.core] IN
       IF ~ok THEN drv' = "exited" /\ UNCHANGED rl
       ELSE IF ~busy /\ SweepDone(rl.core)
            THEN rl' = [rl EXCEPT !.pc = "load"] /\ UNCHANGED drv
       ELSE IF ~busy THEN rl' = [rl EXCEPT !.core = @ + 1] /\ UNCHANGED drv
       ELSE IF TimedOut(rl.count) THEN drv' = "exited" /\ UNCHANGED rl
       ELSE rl' = NextSweep(rl) /\ UNCHANGED drv
    /\ UNCHANGED <<devinfo, entry, loaded, mem>>

(* The rest of reset_and_load: get the monitor image and load it on all  *)
(* cores (0xFFFF); either call failing is fatal.                          *)
LoadMonitor(ok) ==
    /\ drv = "open" /\ rl.pc = "load"
    /\ IF ok THEN loaded' = loaded \cup {rl.chip} /\ UNCHANGED drv
             ELSE drv' = "exited" /\ UNCHANGED loaded
    /\ rl' = Idle
    /\ UNCHANGED <<devinfo, entry, mem>>

(* write_core: under 24K a pciedrv_dsp_write (fatal on error), otherwise *)
(* a Cmem DMA write under the driver's lock, whose result is ignored.     *)
WriteCore(m, chip, addr, size, v, ok) ==
    IF size < SMALL_WRITE_LIMIT /\ ~ok THEN m
    ELSE [m EXCEPT ![chip][addr] = v]

(* mem after the L2 copies of addr on cores 0..n-1 were written.          *)
L2Written(chip, addr, v, n) ==
    [mem EXCEPT ![chip] = [a \in Targets |->
        IF \E c \in 0..(n - 1) : a = GlobalAddr(c, addr) THEN v ELSE @[a]]]

(* A mutant: the fan-out loop stops one core short.                       *)
WriteOneCoreShort(chip, addr, size, v, ok) ==
    IF IsL2(addr) THEN {L2Written(chip, addr, v, NumCores - 1)}
    ELSE {WriteCore(mem, chip, addr, size, v, ok)}

(* write(): an L2 address is written to each core's L2 in turn, anything  *)
(* else once. The set of memories the call can leave: when a short write  *)
(* fails (ok = FALSE), the core whose pciedrv_dsp_write failed and those  *)
(* after it are not written, and ERR exits the process.                   *)
WriteTargets(chip, addr, size, v, ok) ==
    IF IsL2(addr)
    THEN IF size < SMALL_WRITE_LIMIT /\ ~ok
         THEN {L2Written(chip, addr, v, n) : n \in 0..(NumCores - 1)}
         ELSE {L2Written(chip, addr, v, NumCores)}
    ELSE {WriteCore(mem, chip, addr, size, v, ok)}

Write(chip, addr, size, v, ok) ==
    /\ drv = "open" /\ rl.pc = "idle"
    /\ mem' \in WriteTargets(chip, addr, size, v, ok)
    /\ drv' = IF size < SMALL_WRITE_LIMIT /\ ~ok THEN "exited" ELSE drv
    /\ UNCHANGED <<devinfo, entry, loaded, rl>>

(* get_symbol on a loaded image with dnldmgr_get_symbol_address failing: *)
(* the process exits (on success nothing changes).                       *)
GetSymbolFails(chip) ==
    /\ drv = "open" /\ rl.pc = "idle" /\ chip \in loaded
    /\ drv' = "exited"
    /\ UNCHANGED <<devinfo, entry, loaded, rl, mem>>

(* The process has exited; nothing more happens.                          *)
Exited ==
    /\ drv = "exited"
    /\ UNCHANGED vars

Next ==
    \/ \E ok \in BOOLEAN : Open(ok) \/ Close(ok) \/ PollCore(ok) \/ LoadMonitor(ok)
    \/ \E ch \in Chips, ok \in BOOLEAN : ResetAndStart(ch, ok)
    \/ \E ch \in Chips, c \in Cores : CoreInitDone(ch, c)
    \/ \E ch \in Chips, a \in Addrs, s \in Sizes, v \in Values, ok \in BOOLEAN :
          Write(ch, a, s, v, ok)
    \/ \E ch \in Chips : GetSymbolFails(ch)
    \/ Exited

Spec == Init /\ [][Next]_vars

-----------------------------------------------------------------------------
TypeOK ==
    /\ drv \in {"closed", "open", "exited"}
    /\ devinfo \in {"none", "valid", "freed"}
    /\ entry \in [Chips -> [Cores -> BOOLEAN]]
    /\ loaded \subseteq Chips
    /\ rl.pc \in {"idle", "poll", "load"} /\ rl.count \in 0..MaxWaitCount
    /\ mem \in [Chips -> [Targets -> Values \cup {0}]]

(* reset_and_load loads the monitor only once wait_for_ready has seen    *)
(* every core of the chip clear its boot entry, however the cores'       *)
(* progress interleaves with the host's reads.                            *)
BootedBeforeLoad ==
    rl.pc = "load" => \A c \in Cores : ~entry[rl.chip][c]

(* A write() to a local L2 address reaches the L2 of every core: while   *)
(* the process runs, the copies of a local L2 address in the cores'       *)
(* global windows agree. A short write that fails leaves some cores       *)
(* written and exits, so only a live process can rely on the copies.     *)
L2AliasesAgree ==
    drv # "exited" =>
    \A ch \in Chips, a \in {a2 \in Addrs : IsL2(a2)}, c1, c2 \in Cores :
        mem[ch][GlobalAddr(c1, a)] = mem[ch][GlobalAddr(c2, a)]
=============================================================================
