------------------------------- MODULE MCLane -------------------------------
EXTENDS Lane

CONSTANTS a, b, o, relay, app

MCOthers == app :> o
Sender(confirms, mandatory, x, y, z) ==
    [confirms |-> confirms, mandatory |-> mandatory, fate |-> a :> x @@ b :> y @@ o :> z,
     troubles |-> AllTroubles]
Config(s, log, poison) ==
    [sender |-> s, log |-> log, page |-> 2, poison |-> poison, claims |-> {},
     identified |-> TRUE, saves |-> TRUE, shared |-> FALSE]

MCLaneCases ==
    {\* an unsendable message and no handler, while position saves fail
     [Config(Sender(TRUE, FALSE, "good", "bad", "good"), <<a, b>>, FALSE)
        EXCEPT !.saves = FALSE],
     \* an unsendable message and a handler
     Config(Sender(TRUE, FALSE, "bad", "good", "good"), <<a, b>>, TRUE),
     \* a page that closes its channel half way
     Config(Sender(TRUE, FALSE, "good", "noExchange", "good"), <<a, b>>, FALSE),
     \* a channel that another caller's publish closes
     [Config(Sender(TRUE, FALSE, "good", "good", "noExchange"), <<a>>, FALSE)
        EXCEPT !.shared = TRUE, !.sender.troubles = {}],
     \* mandatory publishing next to a caller whose publishes are returned
     [Config(Sender(TRUE, TRUE, "good", "good", "unroutable"), <<a>>, TRUE)
        EXCEPT !.shared = TRUE, !.claims = {"unroutable"}, !.sender.troubles = {}],
     \* an unroutable message, which nothing claims; its position is not identified
     [Config(Sender(TRUE, TRUE, "good", "unroutable", "good"), <<a, b>>, TRUE)
        EXCEPT !.identified = FALSE],
     \* the same without a handler, while position saves fail
     [Config(Sender(TRUE, TRUE, "good", "unroutable", "good"), <<a, b>>, FALSE)
        EXCEPT !.identified = FALSE, !.saves = FALSE, !.sender.troubles = {}],
     \* no confirms
     Config(Sender(FALSE, FALSE, "good", "good", "good"), <<a, b>>, FALSE)}
MCSenderCases == {l.sender : l \in MCLaneCases}
=============================================================================
