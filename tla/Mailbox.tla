------------------------------- MODULE Mailbox -------------------------------
(***************************************************************************)
(* The host side of the mailbox to the DSP, class Mailbox of               *)
(* src/src/core/dsp/mailbox.h: thin wrappers over the mpm_mailbox library. *)
(* Mailbox::write retries mpm_mailbox_write while it reports               *)
(* MPM_MAILBOX_ERR_MAIL_BOX_FULL and then returns true whatever the last   *)
(* attempt returned.                                                       *)
(*                                                                         *)
(* Host threads get the mailbox through Mailbox::instance() (the          *)
(* double-checked locking of module Singleton) and send messages; the DSP  *)
(* monitor drains the mailbox. The library is the environment: an attempt *)
(* on a full mailbox reports FULL, and once the mailbox is broken (module  *)
(* Transport: the DSP chip was reset under it) every attempt fails with    *)
(* another error code. Each call of the library is one step.              *)
(***************************************************************************)
EXTENDS Naturals, Sequences, FiniteSets

CONSTANTS
    Writers,     \* the host threads that call Mailbox::write
    Slots,       \* the mailbox's message slots (mpm_mailbox_config_t)
    MaxMsgs      \* messages each writer sends

MPM_MAILBOX_ERR_MAIL_BOX_FULL == "full"
OK == "ok"
ERR == "error"     \* any other error code of mpm_mailbox_write

Msgs == Writers \X (1..MaxMsgs)

VARIABLES
    box,        \* the messages in the mailbox, oldest first
    received,   \* what the DSP has read, in order
    pc,         \* per writer: "idle", "write" (in the do-while) or "done"
    sent,       \* per writer: messages whose write() has returned
    result,     \* per writer: result of its last mpm_mailbox_write
    wret,       \* per writer: what the last Mailbox::write returned
    lost,       \* messages a write() returned for without putting them in
    broken,     \* the mailbox has failed: every write attempt errors
    pInstance, created, constructed, holder, ipc, itmp  \* Mailbox::instance()

mvars == <<box, received, pc, sent, result, wret, lost, broken>>
ivars == <<pInstance, created, constructed, holder, ipc, itmp>>
vars == <<mvars, ivars>>

S == INSTANCE Singleton WITH Threads <- Writers, pc <- ipc, tmp <- itmp

Init ==
    /\ box = <<>>
    /\ received = <<>>
    /\ pc = [w \in Writers |-> "idle"]
    /\ sent = [w \in Writers |-> 0]
    /\ result = [w \in Writers |-> "none"]
    /\ wret = [w \in Writers |-> TRUE]
    /\ lost = {}
    /\ broken = FALSE
    /\ S!Init

Msg(w) == <<w, sent[w] + 1>>

-----------------------------------------------------------------------------
RetryOnAnyError(r) == r # OK

(* The loop condition: retry only on a full mailbox.                       *)
Retry(r) == r = MPM_MAILBOX_ERR_MAIL_BOX_FULL

(* The do-while goes on: no attempt yet, or the last one is retried.    *)
Continue(w) == result[w] = "none" \/ Retry(result[w])

(* A writer calls Mailbox::instance()->write() with its next message.      *)
Call(w) ==
    /\ pc[w] = "idle" /\ sent[w] < MaxMsgs /\ ipc[w] = "done"
    /\ pc' = [pc EXCEPT ![w] = "write"]
    /\ UNCHANGED <<box, received, sent, result, wret, lost, broken>>

(* do result = mpm_mailbox_write(...) while (result == ..._FULL):          *)
(* one attempt. The library puts the message in when there is a free slot *)
(* and reports FULL otherwise; a broken mailbox reports another error.    *)
Attempt(w) ==
    /\ pc[w] = "write" /\ Continue(w)
    /\ IF broken THEN result' = [result EXCEPT ![w] = ERR] /\ UNCHANGED box
       ELSE IF Len(box) < Slots
       THEN box' = Append(box, Msg(w)) /\ result' = [result EXCEPT ![w] = OK]
       ELSE result' = [result EXCEPT ![w] = MPM_MAILBOX_ERR_MAIL_BOX_FULL]
            /\ UNCHANGED box
    /\ UNCHANGED <<received, pc, sent, wret, lost, broken>>

(* The loop has ended: write() returns true.                               *)
Return(w) ==
    /\ pc[w] = "write"
    /\ result[w] # "none"
    /\ ~Retry(result[w])
    /\ pc' = [pc EXCEPT ![w] = IF sent[w] + 1 = MaxMsgs THEN "done" ELSE "idle"]
    /\ sent' = [sent EXCEPT ![w] = @ + 1]
    /\ wret' = [wret EXCEPT ![w] = TRUE]
    /\ lost' = IF result[w] = OK THEN lost ELSE lost \cup {Msg(w)}
    /\ result' = [result EXCEPT ![w] = "none"]
    /\ UNCHANGED <<box, received, broken>>

(* The DSP monitor reads the oldest message (its side of mpm_mailbox_read).*)
Receive ==
    /\ box # <<>> /\ ~broken
    /\ received' = Append(received, Head(box))
    /\ box' = Tail(box)
    /\ UNCHANGED <<pc, sent, result, wret, lost, broken>>
    /\ UNCHANGED ivars

-----------------------------------------------------------------------------
(* Mailbox::instance() makes one Mailbox for all writers.                 *)
OneMailbox == S!OneInstance

(* A write whose message never reached the mailbox does not report       *)
(* success: the caller learns that the message was lost.                  *)
NoSilentLoss == \A w \in Writers : <<w, sent[w]>> \in lost => ~wret[w]
=============================================================================
