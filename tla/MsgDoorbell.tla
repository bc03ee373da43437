----------------------------- MODULE MsgDoorbell -----------------------------
(***************************************************************************)
(* How the card learns that there are messages for it: after each message  *)
(* the host writes to the card's mailbox (ax_pcie_msg_transfer.c and       *)
(* ax_pcie_opt.c).  The two sides count doorbells in shared memory, the    *)
(* host the ones it rang and the card the ones it saw, and the host rings  *)
(* only while the difference is small.  A refused doorbell is tried again  *)
(* a few times and then given up, and the send succeeds all the same.      *)
(*                                                                         *)
(* The ring is here only a number of messages; MsgRing has the bytes.  The *)
(* card's handler reads until the ring is empty, or until the notifier of  *)
(* a message fails, which leaves that one and those behind it.             *)
(***************************************************************************)
EXTENDS Integers

CONSTANTS
  Threads,     \* sending threads of the host
  Room,        \* messages the ring holds
  Limit,       \* MAILBOX_REQ_LIMIT_COUNT
  Slots,       \* slots of the mailbox
  Shared,      \* TRUE: other users of the mailbox may have taken them all
  Retries,     \* 10: both for a full ring and for a refused doorbell
  MaxSends,    \* bound: messages
  MaxRestarts, \* bound: restarts of the card
  NoThread

ASSUME MsgDoorbellAssumption ==
  /\ Room \in Nat /\ Limit \in Nat /\ Slots \in Nat \ {0} /\ Retries \in Nat
  /\ MaxSends \in Nat /\ MaxRestarts \in Nat
  /\ Shared \in BOOLEAN
  /\ NoThread \notin Threads

VARIABLES
  lock,      \* holder of the data lock, or NoThread
  tpc,       \* where each thread is
  full,      \* how often it found the ring full
  refused,   \* how often its doorbell was refused
  unread,    \* messages in the ring
  req,       \* host's count of doorbells, at offset 0x20
  clr,       \* the card's, at 0x28
  pending,   \* doorbells in the mailbox
  cpc,       \* where the card's handler is
  sends,     \* messages so far
  restarts,  \* restarts so far
  lost,      \* history: doorbells rung but not counted by a card that restarted
  failing    \* history: the card's last drain ended at a notifier that failed

threadVars == <<tpc, full, refused, sends>>
doorCardVars == <<clr, cpc, failing>>
doorbellVars == <<lock, threadVars, unread, req, pending, doorCardVars, restarts, lost>>

DoorbellInit ==
  /\ lock = NoThread
  /\ tpc = [t \in Threads |-> "idle"]
  /\ full = [t \in Threads |-> 0]
  /\ refused = [t \in Threads |-> 0]
  /\ unread = 0
  /\ req = 0
  /\ clr = 0
  /\ pending = 0
  /\ cpc = "idle"
  /\ sends = 0
  /\ restarts = 0
  /\ lost = 0
  /\ failing = FALSE

-----------------------------------------------------------------------------
(* The host: ax_pcie_send_message.                                         *)

\* mailbox_requst_count_check, in unsigned arithmetic, and a free slot.
MutGranted == req - clr \in 0 .. Limit + 1 /\ pending < Slots
Granted == req - clr \in 0 .. Limit /\ pending < Slots

StartSend(t) ==
  /\ tpc[t] = "idle"
  /\ sends < MaxSends
  /\ sends' = sends + 1
  /\ tpc' = [tpc EXCEPT ![t] = "send"]
  /\ full' = [full EXCEPT ![t] = 0]
  /\ refused' = [refused EXCEPT ![t] = 0]
  /\ UNCHANGED <<lock, unread, req, pending, doorCardVars, restarts, lost>>

\* ax_send_data_irq puts the message into the ring and keeps the lock.
Enqueue(t) ==
  /\ tpc[t] = "send"
  /\ lock = NoThread
  /\ unread < Room
  /\ lock' = t
  /\ unread' = unread + 1
  /\ tpc' = [tpc EXCEPT ![t] = "ring"]
  /\ UNCHANGED <<full, refused, sends, req, pending, doorCardVars, restarts, lost>>

\* The ring is full: Retries times the send tries again, then it fails.
Full(t) ==
  /\ tpc[t] = "send"
  /\ lock = NoThread
  /\ unread = Room
  /\ \/ full[t] < Retries /\ full' = [full EXCEPT ![t] = @ + 1] /\ UNCHANGED tpc
     \/ full[t] = Retries /\ tpc' = [tpc EXCEPT ![t] = "idle"] /\ UNCHANGED full
  /\ UNCHANGED <<lock, refused, sends, unread, req, pending, doorCardVars, restarts, lost>>

\* ax_pcie_host_irq_to_slave
Ring(t) ==
  /\ tpc[t] = "ring"
  /\ Granted
  /\ pending' = pending + 1
  /\ tpc' = [tpc EXCEPT ![t] = "count"]
  /\ UNCHANGED <<lock, full, refused, sends, unread, req, doorCardVars, restarts, lost>>

Count(t) ==
  /\ tpc[t] = "count"
  /\ req' = req + 1
  /\ lock' = NoThread
  /\ tpc' = [tpc EXCEPT ![t] = "idle"]
  /\ UNCHANGED <<full, refused, sends, unread, pending, doorCardVars, restarts, lost>>

\* The message stays in the ring.  The last try of a send that met a full ring
\* fails with an error, and has no further attempts to ring.
NoMoreRinging(t) == refused[t] = Retries \/ (refused[t] = 0 /\ full[t] = Retries)

Refused(t) ==
  /\ tpc[t] = "ring"
  /\ Shared \/ ~Granted
  /\ lock' = NoThread
  /\ refused' = [refused EXCEPT ![t] = @ + 1]
  /\ tpc' = [tpc EXCEPT ![t] = IF NoMoreRinging(t) THEN "idle" ELSE "wait"]
  /\ UNCHANGED <<full, sends, unread, req, pending, doorCardVars, restarts, lost>>

RingAgain(t) ==
  /\ tpc[t] = "wait"
  /\ lock = NoThread
  /\ lock' = t
  /\ tpc' = [tpc EXCEPT ![t] = "ring"]
  /\ UNCHANGED <<full, refused, sends, unread, req, pending, doorCardVars, restarts, lost>>

-----------------------------------------------------------------------------
(* The card: slave_message_irq_handler.                                    *)

MutHandle ==
  /\ cpc = "idle"
  /\ pending > 0
  /\ pending' = pending - 1
  /\ clr' = clr + 1
  /\ UNCHANGED <<cpc, failing, lock, threadVars, unread, req, restarts, lost>>

Handle ==
  /\ cpc = "idle"
  /\ pending > 0
  /\ pending' = pending - 1
  /\ cpc' = "count"
  /\ UNCHANGED <<clr, failing, lock, threadVars, unread, req, restarts, lost>>

CountSeen ==
  /\ cpc = "count"
  /\ clr' = clr + 1
  /\ cpc' = "drain"
  /\ UNCHANGED <<failing, lock, threadVars, unread, req, pending, restarts, lost>>

\* ax_pcie_recv_irq_mem reads until the ring is empty ...
MutDrainOne ==
  /\ cpc = "drain"
  /\ cpc' = "idle"
  /\ unread' = IF unread > 0 THEN unread - 1 ELSE 0
  /\ failing' = FALSE
  /\ UNCHANGED <<clr, lock, threadVars, req, pending, restarts, lost>>

Drain ==
  /\ cpc = "drain"
  /\ \/ unread > 0 /\ unread' = unread - 1 /\ UNCHANGED <<cpc, failing>>
     \/ unread = 0 /\ cpc' = "idle" /\ failing' = FALSE /\ UNCHANGED unread
  /\ UNCHANGED <<clr, lock, threadVars, req, pending, restarts, lost>>

\* ... or returns with a message, and all behind it, unread: its notifier has
\* no memory.  Only another doorbell makes the card try again.
DrainFails ==
  /\ cpc = "drain"
  /\ unread > 0
  /\ cpc' = "idle"
  /\ failing' = TRUE
  /\ UNCHANGED <<clr, lock, threadVars, unread, req, pending, restarts, lost>>

\* The card dies, at any point of its handler.
Hang ==
  /\ cpc \in {"idle", "drain"}
  /\ cpc' = "off"
  /\ UNCHANGED <<clr, failing, lock, threadVars, unread, req, pending, restarts, lost>>

HangUncounted ==
  /\ cpc = "count"
  /\ cpc' = "off"
  /\ lost' = lost + 1
  /\ UNCHANGED <<clr, failing, lock, threadVars, unread, req, pending, restarts>>

\* RESET and BOOT empty the mailbox and the rings (init_mem), not the counts:
\* the handshake clears 32 bytes, and init_mem begins at 64.
Restart ==
  /\ cpc = "off"
  /\ restarts < MaxRestarts
  /\ restarts' = restarts + 1
  /\ cpc' = "idle"
  /\ pending' = 0
  /\ unread' = 0
  /\ lost' = lost + pending
  /\ failing' = FALSE
  /\ UNCHANGED <<clr, lock, threadVars, req>>

Host(t) ==
  StartSend(t) \/ Enqueue(t) \/ Full(t) \/ Ring(t) \/ Count(t) \/ Refused(t) \/ RingAgain(t)

Card == Handle \/ CountSeen \/ Drain \/ DrainFails

DoorbellNext ==
  \/ \E t \in Threads : Host(t)
  \/ Card \/ Hang \/ HangUncounted \/ Restart

\* The kernel schedules the sender, and the card's interrupts are handled as
\* long as it lives.  Nobody needs to send, to hang or to restart.
Fairness ==
  /\ \A t \in Threads : WF_doorbellVars(tpc[t] # "idle" /\ Host(t))
  /\ WF_doorbellVars(Card)

DoorbellSpec == DoorbellInit /\ [][DoorbellNext]_doorbellVars /\ Fairness

-----------------------------------------------------------------------------
(* Properties.                                                             *)

\* The variables have their types.
DoorbellTypeOK ==
  /\ lock \in Threads \cup {NoThread}
  /\ tpc \in [Threads -> {"idle", "send", "ring", "count", "wait"}]
  /\ full \in [Threads -> Nat]
  /\ refused \in [Threads -> Nat]
  /\ unread \in Nat /\ req \in Nat /\ clr \in Nat /\ pending \in Nat
  /\ sends \in Nat /\ restarts \in Nat /\ lost \in Nat /\ failing \in BOOLEAN
  /\ cpc \in {"idle", "count", "drain", "off"}

\* Rung, but not counted yet; and seen, but not counted yet.
Ringing == IF \E t \in Threads : tpc[t] = "count" THEN 1 ELSE 0
Seeing == IF cpc = "count" THEN 1 ELSE 0

\* The counts tell the truth: whoever rings, and whatever the card is doing,
\* their difference is the number of doorbells still in the mailbox or in the
\* card's hands, and those lost to restarts.  So clr is never ahead of req
\* when a host thread looks at them.
CountsAddUp == req + Ringing = clr + pending + Seeing + lost

\* The host never has more than Limit + 1 doorbells in the mailbox.
MailboxBounded == pending + Seeing <= Limit + 1

\* Nobody will make the card look at the ring.
Stranded ==
  /\ unread > 0
  /\ pending = 0
  /\ cpc = "idle"
  /\ \A t \in Threads : tpc[t] \notin {"ring", "count", "wait"}

\* It is right to report success when the doorbell was refused to the last: a
\* running card reads the message all the same, because doorbells are refused
\* only while others are on their way.  Unless more than Limit of them were
\* lost to restarts of the card, or others fill the mailbox, or the notifier
\* of a message failed and no doorbell has come since.
StrandedForCause == Stranded => lost > Limit \/ Shared \/ failing

\* Once more than Limit doorbells are lost to restarts, the host rings no
\* doorbell ever again: no later restart of the card heals that.
DeafForGood == [][lost > Limit => pending' <= pending]_doorbellVars

\* Whatever is in the ring is read, also a message whose doorbell was refused
\* to the last, unless the card dies, a notifier of the card fails or more
\* than Limit doorbells were lost.
EventuallyRead == unread > 0 ~> unread = 0 \/ cpc = "off" \/ lost > Limit \/ failing

\* Every send ends, with or without a card.
SendEnds == \A t \in Threads : tpc[t] # "idle" ~> tpc[t] = "idle"

\* Nobody waits for ever: neither a sender nor a message.
GetsThrough == EventuallyRead /\ SendEnds
=============================================================================
