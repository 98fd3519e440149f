------------------------------- MODULE Kitchen -------------------------------
(***************************************************************************)
(* The kitchen board: one ticket (kds_orders row) per sale and zone.  A     *)
(* display that changes a ticket reads its status first and writes with     *)
(* that status as predicate; voids and full refunds cancel the tickets of   *)
(* a sale in their own transaction, from other connections.  Not modelled:  *)
(* the line items of a ticket, its delivery targets and the 30-day cleanup. *)
(***************************************************************************)
EXTENDS Integers

CONSTANTS Sales, Zones, Screens, Idle

VARIABLES
    ticket,   \* ticket[s][z]: status of the ticket of sale s in zone z
    intent    \* intent[d]: update display d has validated and not written yet

kitchenVars == <<ticket, intent>>

OnBoard == {"pending", "preparing", "ready"}
TicketStatus == OnBoard \union {"none", "served", "cancelled"}
Intents == [sale : Sales, zone : Zones, from : OnBoard, to : TicketStatus]

KitchenTypeOK ==
    /\ ticket \in [Sales -> [Zones -> TicketStatus]]
    /\ intent \in [Screens -> Intents \union {Idle}]

KitchenInit ==
    /\ ticket = [s \in Sales |-> [z \in Zones |-> "none"]]
    /\ intent = [d \in Screens |-> Idle]

MayBecome(from, to) ==
    \/ <<from, to>> \in {<<"pending", "preparing">>, <<"preparing", "ready">>,
                         <<"ready", "served">>}
    \/ from \in OnBoard /\ to = "cancelled"

\* The board without the active tickets of sale s (served food stays served).
Cancelled(s) ==
    [ticket EXCEPT ![s] = [z \in Zones |->
        IF ticket[s][z] \in OnBoard THEN "cancelled" ELSE ticket[s][z]]]

\* complete_sale_to_kds_fanout: every zone that has no ticket yet gets one.
\* The status of the sale is not looked at.
FanOut(s) ==
    /\ \E z \in Zones : ticket[s][z] = "none"
    /\ ticket' = [ticket EXCEPT ![s] = [z \in Zones |->
                     IF ticket[s][z] = "none" THEN "pending" ELSE ticket[s][z]]]
    /\ UNCHANGED intent

\* update_kds_status, first half: the status is read and the move validated.
ReadTicket(d, s, z) ==
    /\ intent[d] = Idle
    /\ \E to \in TicketStatus :
          /\ MayBecome(ticket[s][z], to)
          /\ intent' = [intent EXCEPT ![d] =
                           [sale |-> s, zone |-> z, from |-> ticket[s][z], to |-> to]]
    /\ UNCHANGED ticket

\* MUTANT: the write forgets the status that was read.
WriteTicketBlind(d) ==
    /\ intent[d] # Idle
    /\ ticket' = [ticket EXCEPT ![intent[d].sale][intent[d].zone] = intent[d].to]
    /\ intent' = [intent EXCEPT ![d] = Idle]

\* Second half: a write that requires the status read (a Conflict otherwise).
WriteTicket(d) ==
    /\ intent[d] # Idle
    /\ LET i == intent[d] IN
          ticket' = IF ticket[i.sale][i.zone] = i.from
                    THEN [ticket EXCEPT ![i.sale][i.zone] = i.to]
                    ELSE ticket
    /\ intent' = [intent EXCEPT ![d] = Idle]

\* ack_kds_order: one statement, so only one device wins.
AckTicket(s, z) ==
    /\ ticket[s][z] = "pending"
    /\ ticket' = [ticket EXCEPT ![s][z] = "preparing"]
    /\ UNCHANGED intent

KitchenNext ==
    \/ \E d \in Screens, s \in Sales, z \in Zones : ReadTicket(d, s, z)
    \/ \E d \in Screens : WriteTicket(d)
    \/ \E s \in Sales, z \in Zones : AckTicket(s, z)

-----------------------------------------------------------------------------
Stage == [none |-> 0, pending |-> 1, preparing |-> 2, ready |-> 3,
          served |-> 4, cancelled |-> 4]

\* A ticket moves one way along the board: no update that lost the race with
\* another display, a void or a refund takes it back, and a ticket that was
\* cancelled or served stays so (update_kds_status, ack_kds_order).
TicketsOnlyAdvance ==
    [][\A s \in Sales, z \in Zones :
          ticket'[s][z] # ticket[s][z] => Stage[ticket'[s][z]] > Stage[ticket[s][z]]
      ]_kitchenVars
=============================================================================
