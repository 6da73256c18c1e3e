------------------------------ MODULE CAGateway ------------------------------
(***************************************************************************)
(* The communication gateway (as2_ca::CAGatewayClient), which is not part  *)
(* of the repository: what forward_IA_msg and register_module do for their *)
(* caller.  A message is copied to every destination but the sender; each  *)
(* pair of nodes has a channel.  Whether a channel keeps the order between *)
(* the two registered modules is a parameter, and up to MaxLoss messages   *)
(* may disappear.                                                          *)
(***************************************************************************)
EXTENDS AuctionProblem, Sequences, SequencesExt

CONSTANTS
    Fifo,     \* deliver each channel in the order it was sent
    MaxLoss   \* how many messages may be lost (a bound of the model)

ASSUME GatewayAssumption == Fifo \in BOOLEAN /\ MaxLoss \in Nat

VARIABLES
    net,      \* net[<<s, d>>]: what s forwarded to d and d has not handled
    lost      \* messages lost so far

netVars == <<net, lost>>

Channel == Agent \X Agent

\* forward_IA_msg(m, _, dests) by node s, on the network nt.
Forward(nt, s, dests, m) ==
    [c \in Channel |-> IF c[1] = s /\ c[2] \in dests /\ c[2] # s
                       THEN Append(nt[c], m)
                       ELSE nt[c]]

\* Positions of channel c the gateway may hand over next.
Deliverable(c) == {k \in DOMAIN net[c] : Fifo => k = 1}

\* The network once message k of channel c has been taken off it.
Without(c, k) == [net EXCEPT ![c] = RemoveAt(@, k)]

Lose(c) == \E k \in DOMAIN net[c] :
    /\ lost < MaxLoss
    /\ net' = Without(c, k)
    /\ lost' = lost + 1
=============================================================================
