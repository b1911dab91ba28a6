----------------------------- MODULE MCDeliveries -----------------------------
(***************************************************************************)
(* The parts of the system that owe somebody an answer, for TLC: who       *)
(* learns that a job ended, the requests of a client, the deliveries of    *)
(* jobs, the restores of the database.  They share no state here, so each  *)
(* is explored alone: `part` says which, the others stand still.           *)
(***************************************************************************)
EXTENDS Completion, Transport, Delivery, Restore

VARIABLE part

allVars == <<part, waitsVars, transportVars, deliveryVars, rsVars>>

\* The flow on its own, or one of the other jobs.
FlowOrAnother == {Flow} \union {{j} : j \in Job \ Flow}
\* One call over two connections, or two over one.
TwoOpenings == {[calls |-> {"a"}, size |-> 2], [calls |-> {"a", "b"}, size |-> 1]}
\* A stream and a worker after a job with a timeout, or two pullers of a worker; one
\* puller with two jobs without.
ThreeDeliveries == {[jobs |-> {"j1"}, feeders |-> {"s1", "v1"}],
                    [jobs |-> {"j1"}, feeders |-> {"w1", "w2"}],
                    [jobs |-> {"j2", "j3"}, feeders |-> {"w1"}]}
\* One of the two workers has pulls nobody waits for.
Owners == [f \in {"s1", "v1", "w1", "w2"} |->
            CASE f = "s1" -> "s" [] f = "v1" -> "v" [] OTHER -> "w"]
Orphans == [c \in {"s", "v", "w"} |-> IF c = "w" THEN 1 ELSE 0]
\* A job that is tried twice, and two that are tried once.
Attempts == [j \in {"j1", "j2", "j3"} |-> IF j = "j1" THEN 2 ELSE 1]

DeliveriesInit ==
  /\ part \in {"waits", "transport", "delivery", "restore"}
  /\ IF part = "waits" THEN WaitsInit ELSE WaitsStart({})
  /\ IF part = "transport" THEN TransportInit ELSE TransportStart([calls |-> {}, size |-> 1])
  /\ IF part = "delivery" THEN DeliveryInit ELSE DeliveryStart([jobs |-> {}, feeders |-> {}])
  /\ RsInit

DeliveriesNext ==
  \/ /\ part = "waits" /\ WaitsNext
     /\ UNCHANGED <<part, transportVars, deliveryVars, rsVars>>
  \/ /\ part = "transport" /\ TransportNext
     /\ UNCHANGED <<part, waitsVars, deliveryVars, rsVars>>
  \/ /\ part = "delivery" /\ DeliveryNext
     /\ UNCHANGED <<part, waitsVars, transportVars, rsVars>>
  \/ /\ part = "restore" /\ RsNext
     /\ UNCHANGED <<part, waitsVars, transportVars, deliveryVars>>

DeliveriesSpec ==
  /\ DeliveriesInit /\ [][DeliveriesNext]_allVars
  /\ WaitsFairness /\ TransportFairness /\ DeliveryFairness /\ RsFairness
=============================================================================
