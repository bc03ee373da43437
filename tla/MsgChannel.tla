----------------------------- MODULE MsgChannel -----------------------------
(***************************************************************************)
(* What one direction of the message transfer promises its users: messages *)
(* come out in the order in which they were accepted, each of them once    *)
(* and whole, at the port it was sent to; a message whose port nobody has  *)
(* open when its turn comes is thrown away.                                *)
(***************************************************************************)
EXTENDS Naturals, Sequences

CONSTANTS Ports, MaxMsgs

VARIABLES
  count,     \* messages accepted so far; they are numbered from 1
  queue,     \* those that were neither delivered nor thrown away
  delivered, \* delivered[p]: numbers of the messages port p got, in order
  handlers   \* ports that are open

vars == <<count, queue, delivered, handlers>>

Init ==
  /\ count = 0
  /\ queue = <<>>
  /\ delivered = [p \in Ports |-> <<>>]
  /\ handlers = {}

Send(p) ==
  /\ count < MaxMsgs
  /\ count' = count + 1
  /\ queue' = Append(queue, [id |-> count + 1, port |-> p])
  /\ UNCHANGED <<delivered, handlers>>

Deliver ==
  /\ queue # <<>>
  /\ delivered' = [delivered EXCEPT ![Head(queue).port] = Append(@, Head(queue).id)]
  /\ queue' = Tail(queue)
  /\ UNCHANGED <<count, handlers>>

ThrowAway ==
  /\ queue # <<>>
  /\ Head(queue).port \notin handlers
  /\ queue' = Tail(queue)
  /\ UNCHANGED <<count, delivered, handlers>>

OpenOrClose ==
  /\ handlers' \in SUBSET Ports
  /\ UNCHANGED <<count, queue, delivered>>

Next == (\E p \in Ports : Send(p)) \/ Deliver \/ ThrowAway \/ OpenOrClose

Spec == Init /\ [][Next]_vars
=============================================================================
