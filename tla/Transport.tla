------------------------------ MODULE Transport ------------------------------
(***************************************************************************)
(* The DSP transport as the runtime uses it: the PCIe driver (DspDriver)   *)
(* boots the chips and writes their memory, and host threads send control  *)
(* messages through the mailbox (Mailbox) to the monitor that              *)
(* reset_and_load put on MonitorChip.                                      *)
(*                                                                         *)
(* The two interact through the DSP: the monitor drains the mailbox only   *)
(* while it is loaded, and a reset_and_load of MonitorChip resets the      *)
(* running monitor under the mailbox, after which every mpm_mailbox_write *)
(* fails (the mailbox is created once, by the runtime outside src/). An    *)
(* exit(-1) of the driver ends every thread of the process.               *)
(***************************************************************************)
EXTENDS Naturals

CONSTANTS
    Chips, SwitchDevice, NumCores, MaxWaitCount, Addrs, Sizes, Values,
    Writers, Slots, MaxMsgs,
    MonitorChip     \* the chip whose monitor reads the mailbox

ASSUME MonitorChip \in Chips

VARIABLES
    drv, devinfo, entry, loaded, rl, mem,
    box, received, pc, sent, result, wret, lost, broken,
    pInstance, created, constructed, holder, ipc, itmp

dvars == <<drv, devinfo, entry, loaded, rl, mem>>
mvars == <<box, received, pc, sent, result, wret, lost, broken>>
ivars == <<pInstance, created, constructed, holder, ipc, itmp>>
vars == <<dvars, mvars, ivars>>

D == INSTANCE DspDriver
M == INSTANCE Mailbox

Init == D!Init /\ M!Init

-----------------------------------------------------------------------------
(* The host thread's driver calls other than reset_and_load.              *)
HostStep ==
    /\ \/ \E ok \in BOOLEAN : D!Open(ok) \/ D!Close(ok) \/ D!PollCore(ok)
                                \/ D!LoadMonitor(ok)
       \/ \E ch \in Chips, a \in Addrs, s \in Sizes, v \in Values, ok \in BOOLEAN :
             D!Write(ch, a, s, v, ok)
       \/ \E ch \in Chips : D!GetSymbolFails(ch)
    /\ UNCHANGED <<mvars, ivars>>

(* reset_and_load(chip): resetting MonitorChip while its monitor runs     *)
(* breaks the monitor's mailbox.                                           *)
Reset(ch, ok) ==
    /\ D!ResetAndStart(ch, ok)
    /\ broken' = (broken \/ (ch = MonitorChip /\ MonitorChip \in loaded))
    /\ UNCHANGED <<box, received, pc, sent, result, wret, lost, ivars>>

(* The host thread inside reset_and_load: a read of wait_for_ready, or    *)
(* the monitor load after it.                                             *)
BootStep ==
    /\ \E ok \in BOOLEAN : D!PollCore(ok) \/ D!LoadMonitor(ok)
    /\ UNCHANGED <<mvars, ivars>>

CoreStep(ch, c) == D!CoreInitDone(ch, c) /\ UNCHANGED <<mvars, ivars>>

(* The process is alive.                                                   *)
Alive == drv # "exited"

(* A writer thread: Mailbox::instance(), then write() calls, made once the *)
(* monitor is loaded.                                                      *)
GetMailbox(w) == Alive /\ M!S!Step(w) /\ UNCHANGED <<dvars, mvars>>
CallWrite(w) == Alive /\ MonitorChip \in loaded /\ M!Call(w) /\ UNCHANGED <<dvars, ivars>>
AttemptWrite(w) == Alive /\ M!Attempt(w) /\ UNCHANGED <<dvars, ivars>>
ReturnWrite(w) == Alive /\ M!Return(w) /\ UNCHANGED <<dvars, ivars>>

(* The monitor on MonitorChip reads a message.                            *)
MonitorReceive == Alive /\ MonitorChip \in loaded /\ M!Receive /\ UNCHANGED dvars

Exited == D!Exited /\ UNCHANGED <<mvars, ivars>>

Next ==
    \/ HostStep
    \/ \E ch \in Chips, ok \in BOOLEAN : Reset(ch, ok)
    \/ \E ch \in Chips, c \in 0..(NumCores - 1) : CoreStep(ch, c)
    \/ \E w \in Writers : GetMailbox(w) \/ CallWrite(w) \/ AttemptWrite(w)
                          \/ ReturnWrite(w)
    \/ MonitorReceive
    \/ Exited

(* Writer threads are scheduled by the OS while they run, and so is the  *)
(* host thread inside reset_and_load (its usleep returns); the monitor     *)
(* keeps reading its mailbox while it is loaded. Which calls the host     *)
(* makes, and the cores' boot, are not fair: the host may stop calling,   *)
(* and a core may hang in its init image.                                  *)
Fairness ==
    /\ WF_vars(BootStep)
    /\ \A w \in Writers : /\ WF_vars(GetMailbox(w))
                          /\ WF_vars(AttemptWrite(w)) /\ WF_vars(ReturnWrite(w))
    /\ WF_vars(MonitorReceive)

Spec == Init /\ [][Next]_vars /\ Fairness

-----------------------------------------------------------------------------
TypeOK == D!TypeOK
BootedBeforeLoad == D!BootedBeforeLoad
L2AliasesAgree == D!L2AliasesAgree
OneMailbox == M!OneMailbox
NoSilentLoss == M!NoSilentLoss

(* Every Mailbox::write returns unless the process exits: a full mailbox  *)
(* is retried until the monitor drains a slot, and a mailbox broken by a  *)
(* reset of its chip does not keep the writer spinning.                   *)
WriteReturns ==
    \A w \in Writers : pc[w] = "write" ~> (pc[w] # "write" \/ drv = "exited")

(* Every reset_and_load returns, with the monitor loaded, or ends the     *)
(* process, even when a core never finishes its init image: wait_for_ready *)
(* gives up after its bounded number of sweeps.                           *)
ResetAndLoadReturns == rl.pc # "idle" ~> (rl.pc = "idle" \/ drv = "exited")
=============================================================================
