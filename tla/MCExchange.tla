----------------------------- MODULE MCExchange -----------------------------
(***************************************************************************)
(* Instances of ExchangeReceiver for model checking.                       *)
(***************************************************************************)
EXTENDS ExchangeReceiver

CONSTANTS a, b, w1, w2, w3, r1, r2

MCFrom == w1 :> a @@ w2 :> a @@ w3 :> b

\* One packet fills the queue of a tunnel; in the receiver's queue there is room
\* for two small packets or for one large one.
MCSendLimits == [max_size |-> 1, max_bytes |-> 1]
MCRecvLimits == [max_size |-> 2, max_bytes |-> 2]

Exchange(remote, local, p1, p2, p3, readers, kinds, budget) ==
  [remote |-> remote, local |-> local, plan |-> w1 :> p1 @@ w2 :> p2 @@ w3 :> p3,
   readers |-> readers, kinds |-> kinds, faults |-> budget]

AnyFault == {"abort", "break", "timeout", "connect", "cancel", "limit"}

MCWorkloads ==
  { \* a remote or a local source alone, with any fault
    Exchange({a}, {}, <<2, 1>>, <<>>, <<>>, {r1}, AnyFault, 1),
    Exchange({}, {a}, <<2, 1>>, <<1>>, <<>>, {r1}, AnyFault, 1),
    \* a packet behind one that was parked with its tag
    Exchange({a}, {}, <<2, 2, 1>>, <<>>, <<>>, {r1}, {}, 0),
    \* no connection can be made
    Exchange({a}, {}, <<1>>, <<>>, <<>>, {r1}, {"connect"}, 2),
    \* several writers of one source, several readers, a packet without rows
    Exchange({a}, {}, <<2>>, <<1>>, <<>>, {r1}, {}, 0),
    Exchange({a}, {}, <<0, 1>>, <<1>>, <<>>, {r1, r2}, {}, 0),
    \* two sources, whose packets may not fit into the receiver's queue together
    Exchange({a}, {b}, <<1>>, <<>>, <<2>>, {r1}, {}, 0),
    Exchange({a, b}, {}, <<2>>, <<>>, <<1>>, {r1}, {}, 0),
    Exchange({}, {a, b}, <<2>>, <<1>>, <<1>>, {r1}, {}, 0),
    \* two sources, one of which may be aborted at any time
    Exchange({}, {a, b}, <<>>, <<>>, <<1>>, {r1}, {"abort"}, 1),
    \* a packet without rows between two local writers
    Exchange({}, {a, b}, <<2>>, <<0>>, <<1>>, {r1}, {}, 0) }

\* The packet of w1 fills the receiver's queue, and the one of w2 has no rows.
ParkedWorkloads == {Exchange({}, {a, b}, <<2>>, <<0>>, <<1>>, {r1}, {}, 0)}
=============================================================================
