--------------------------- MODULE MCBoltzClient ---------------------------
(***************************************************************************)
(* BoltzClient on small instances: the settings and orders a configuration *)
(* cannot write down.                                                      *)
(***************************************************************************)
EXTENDS BoltzClient

MainSettings ==
    [network |-> "main", network_liquid |-> "liquidv1", url |-> "boltz"]

\* A mirror that serves the same networks, and regtest.
MCSettings ==
    {MainSettings, [MainSettings EXCEPT !.url = "mirror"],
     [network |-> "regtest", network_liquid |-> "elementsregtest",
      url |-> "local"]}

\* A quarter as percentage divides many amounts, which shows the floats.
MCFeeTables ==
    {[percentage |-> 2500, percentageSwapIn |-> 2000,
      claim |-> 2, lockup |-> 1, normal |-> 3],
     [percentage |-> 1000, percentageSwapIn |-> 0,
      claim |-> 4, lockup |-> 2, normal |-> 5]}

Ordered(kind, pair, direction, amount) ==
    [kind |-> kind, pair |-> pair, direction |-> direction, amount |-> amount,
     network |-> NetworkOf(MainSettings, pair)]

\* A reverse swap of 3 is below Boltz's minimum.
MCOrders ==
    {Ordered("submarine", Bitcoin, "send", 63),
     Ordered("submarine", Bitcoin, "send", 2),
     Ordered("submarine", Liquid, "receive", 6),
     Ordered("reverse", Bitcoin, "receive", 3),
     Ordered("reverse", Liquid, "receive", 4),
     Ordered("reverse", Bitcoin, "send", 5),
     Ordered("reverse", Liquid, "send", 3),
     Ordered("sweep", Bitcoin, "send", 8),
     Ordered("sweep", Liquid, "send", 8)}

=============================================================================
