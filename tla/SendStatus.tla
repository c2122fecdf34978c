----------------------------- MODULE SendStatus -----------------------------
(***************************************************************************)
(* Sending from the open chat: the optimistic bubble of a send             *)
(* (addOptimistic), the own messages the server delivers (addMessage with  *)
(* fromMe), the return of the send command (confirmOptimistic or           *)
(* failOptimistic) and the receipts (applyReceipt), which may come in any  *)
(* order, in stores/messages.svelte.ts.                                    *)
(*                                                                         *)
(* Sends are numbered in the order the user makes them, which is the order *)
(* of their bubbles; a send's number is also the id the server gives it.   *)
(* Own messages sent from another device have the ids above NSends.  A     *)
(* message of the open chat stays resident, and every change of it is      *)
(* persisted in the same step (modules Persist and MessageStore), so the   *)
(* cache plays no part here.                                               *)
(***************************************************************************)
EXTENDS Naturals, SequencesExt

CONSTANTS
    NSends,     \* sends the user makes
    NOthers,    \* own messages sent from another device
    Body,       \* what a message says: its kind, text and quoted message
    Preview,    \* what the bubble of a send says: a label for a file, not its text
    EarlyMax,   \* EARLY_RECEIPTS_MAX
    None

Sends == 1..NSends
Ids == 1..(NSends + NOthers)

\* STATUS_RANK of the statuses a message with a real id has.
Sent == 1
Delivered == 2
Read == 3
Statuses == {Sent, Delivered, Read}

ASSUME SendAssumption ==
    /\ NSends \in Nat /\ NOthers \in Nat /\ EarlyMax \in Nat \ {0}
    /\ None \notin Statuses /\ None \notin {"sending", "failed"}

VARIABLES
    call,      \* the send commands
    bubble,    \* Sends -> status of the tmp- bubble, or None
    mem,       \* Ids -> status of the message under its real id, or None
    early,     \* earlyReceipts, oldest first
    asked,     \* receipts being looked up in the database
    echoed,    \* own messages the server has delivered
    moved,     \* sends whose bubble a LID merge has moved to another chat key
    told       \* history: the highest receipt that has arrived, per id

view == <<bubble, mem>>
sendVars == <<call, view, early, asked, echoed, moved, told>>

Receipt == Ids \X {Delivered, Read}

\* Well-typedness; the early receipts stay within their bound, one per id.
SendTypeOK ==
    /\ call \in [Sends -> {"new", "sending", "accepted", "confirmed", "failed"}]
    /\ bubble \in [Sends -> {"sending", "failed", None}]
    /\ mem \in [Ids -> Statuses \cup {None}]
    /\ early \in Seq(Receipt)
    /\ Len(early) <= EarlyMax
    /\ \A m, n \in DOMAIN early : early[m][1] = early[n][1] => m = n
    /\ asked \subseteq Receipt
    /\ echoed \subseteq Ids
    /\ moved \subseteq Sends
    /\ told \in [Ids -> Statuses]

(***************************************************************************)
(* Early receipts                                                          *)
(***************************************************************************)
EarlyAt(i) == {n \in DOMAIN early : early[n][1] = i}

\* earlyReceipts.delete(i)
Forgotten(i) ==
    IF EarlyAt(i) = {} THEN early
    ELSE RemoveAt(early, CHOOSE n \in EarlyAt(i) : TRUE)

\* rememberEarlyReceipt: the highest per id; over the bound the oldest goes.
Remembered(i, st) ==
    LET all == Append(Forgotten(i), <<i, st>>)
    IN  IF \E n \in EarlyAt(i) : early[n][2] >= st THEN early
        ELSE IF Len(all) > EarlyMax THEN Tail(all) ELSE all

(***************************************************************************)
(* The user and the send command                                           *)
(***************************************************************************)
\* addOptimistic or addOptimisticMedia, then the command is invoked.
Send(s) ==
    /\ call[s] = "new"
    /\ \A r \in 1..(s - 1) : call[r] # "new"
    /\ call' = [call EXCEPT ![s] = "sending"]
    /\ bubble' = [bubble EXCEPT ![s] = "sending"]
    /\ UNCHANGED <<mem, early, asked, echoed, moved, told>>

\* The server has accepted the message; the command has not returned yet.
Accept(s) ==
    /\ call[s] = "sending"
    /\ call' = [call EXCEPT ![s] = "accepted"]
    /\ UNCHANGED <<view, early, asked, echoed, moved, told>>

\* The bubble of s is where the send function looks for it.
Found(s) == bubble[s] # None /\ s \notin moved

\* Fault: the latest early receipt is taken, whoever it is for.
ConfirmedByAny(s) == IF early = <<>> THEN Sent ELSE early[Len(early)][2]

\* The status confirmOptimistic gives the message.
ConfirmedStatus(s) ==
    IF EarlyAt(s) = {} THEN Sent ELSE early[CHOOSE n \in EarlyAt(s) : TRUE][2]

\* Fault: the bubble stays when the message was delivered first.
ConfirmKeepingBubble(s) ==
    /\ call[s] = "accepted"
    /\ call' = [call EXCEPT ![s] = "confirmed"]
    /\ IF Found(s) /\ mem[s] = None
       THEN /\ bubble' = [bubble EXCEPT ![s] = None]
            /\ mem' = [mem EXCEPT ![s] = ConfirmedStatus(s)]
            /\ early' = Forgotten(s)
       ELSE UNCHANGED <<view, early>>
    /\ UNCHANGED <<asked, echoed, moved, told>>

\* confirmOptimistic: the command returns the real id.
Confirm(s) ==
    /\ call[s] = "accepted"
    /\ call' = [call EXCEPT ![s] = "confirmed"]
    /\ bubble' = [bubble EXCEPT ![s] = IF Found(s) THEN None ELSE @]
    /\ IF Found(s) /\ mem[s] = None
       THEN mem' = [mem EXCEPT ![s] = ConfirmedStatus(s)] /\ early' = Forgotten(s)
       ELSE UNCHANGED <<mem, early>>
    /\ UNCHANGED <<asked, echoed, moved, told>>

\* failOptimistic: the command fails, before or after the server has accepted.
Fail(s) ==
    /\ call[s] \in {"sending", "accepted"}
    /\ call' = [call EXCEPT ![s] = "failed"]
    /\ bubble' = [bubble EXCEPT ![s] = IF Found(s) THEN "failed" ELSE @]
    /\ UNCHANGED <<mem, early, asked, echoed, moved, told>>

(***************************************************************************)
(* Events                                                                  *)
(***************************************************************************)
\* Message i exists on the server.
Exists(i) == i \in Sends => call[i] \in {"accepted", "confirmed", "failed"}

\* Bubbles that may stand for own message i.
Twins(i) == {s \in Sends : bubble[s] = "sending" /\ Preview[s] = Body[i]}

\* addMessage for an own message: the first bubble that looks like it becomes it.
Echo(i) ==
    LET first == CHOOSE s \in Twins(i) : \A r \in Twins(i) : s <= r
    IN  /\ Exists(i) /\ i \notin echoed
        /\ echoed' = echoed \cup {i}
        /\ IF mem[i] # None
           THEN UNCHANGED view
           ELSE /\ mem' = [mem EXCEPT ![i] = Sent]
                /\ bubble' = IF Twins(i) = {} THEN bubble ELSE [bubble EXCEPT ![first] = None]
        /\ UNCHANGED <<call, early, asked, moved, told>>

\* Fault: a receipt overwrites the status without comparing ranks.
ApplyReceiptUnranked(i, st) ==
    /\ Exists(i)
    /\ told' = [told EXCEPT ![i] = IF st > @ THEN st ELSE @]
    /\ IF mem[i] = None
       THEN asked' = asked \cup {<<i, st>>} /\ UNCHANGED mem
       ELSE mem' = [mem EXCEPT ![i] = st] /\ UNCHANGED asked
    /\ UNCHANGED <<call, bubble, early, echoed, moved>>

\* applyReceipt: a resident message is upgraded; an unknown id is looked up.
ApplyReceipt(i, st) ==
    /\ Exists(i)
    /\ told' = [told EXCEPT ![i] = IF st > @ THEN st ELSE @]
    /\ IF mem[i] = None
       THEN asked' = asked \cup {<<i, st>>} /\ UNCHANGED mem
       ELSE mem' = [mem EXCEPT ![i] = IF st > @ THEN st ELSE @] /\ UNCHANGED asked
    /\ UNCHANGED <<call, bubble, early, echoed, moved>>

\* patchPersistedMessage returns and has found no row: its transaction was created
\* before any later write of this message.  The receipt is kept for a send that is
\* not confirmed yet.
ReceiptMissed(i, st) ==
    /\ <<i, st>> \in asked
    /\ asked' = asked \ {<<i, st>>}
    /\ early' = Remembered(i, st)
    /\ UNCHANGED <<call, view, echoed, moved, told>>

\* The chat is a LID chat and is merged into its PN chat.
MergeChat ==
    /\ moved = {}
    /\ moved' = {s \in Sends : call[s] \in {"sending", "accepted"}}
    /\ UNCHANGED <<call, view, early, asked, echoed, told>>

(***************************************************************************)
(* Specification                                                           *)
(***************************************************************************)
SendInit ==
    /\ call = [s \in Sends |-> "new"]
    /\ bubble = [s \in Sends |-> None]
    /\ mem = [i \in Ids |-> None]
    /\ early = <<>>
    /\ asked = {}
    /\ echoed = {}
    /\ moved = {}
    /\ told = [i \in Ids |-> Sent]

SendNext ==
    \/ \E s \in Sends : Send(s) \/ Accept(s) \/ Confirm(s) \/ Fail(s)
    \/ \E i \in Ids : Echo(i)
    \/ \E i \in Ids, st \in {Delivered, Read} : ApplyReceipt(i, st) \/ ReceiptMissed(i, st)
    \/ MergeChat

SendSpec == SendInit /\ [][SendNext]_sendVars

(***************************************************************************)
(* Properties                                                              *)
(***************************************************************************)
\* Optimistic bubbles "are persisted once the server assigns a real id"
\* (persist.ts:43-44): a send that was confirmed is shown under its real id, and
\* once: its bubble is gone, whichever of delivery and return came first.  The
\* exception is a send that was in progress when its chat was merged.
ConfirmedIsShown ==
    \A s \in Sends \ moved : call[s] = "confirmed" => mem[s] # None /\ bubble[s] = None

\* "Upgrade delivery status for the given message ids (never downgrades)"
\* (messages.svelte.ts:573), whatever order receipts, deliveries and returns come
\* in.
StatusNeverDowngraded ==
    [][\A i \in Ids : mem[i] # None => mem'[i] # None /\ mem'[i] >= mem[i]]_sendVars

\* A tick is never shown for a receipt that has not arrived for that message, not
\* even by way of the early receipts.
StatusWasTold ==
    /\ \A i \in Ids : mem[i] # None => mem[i] <= told[i]
    /\ \A n \in DOMAIN early : early[n][2] <= told[early[n][1]]

=============================================================================
