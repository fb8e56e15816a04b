-------------------------- MODULE MCRabbitConsume --------------------------
EXTENDS RabbitConsume

CONSTANTS m1, m2

Plain == [receiver |-> "plain", topology |-> TRUE, bindings |-> TRUE, dlx |-> FALSE,
          requeue |-> TRUE, limit |-> 0, prefetch |-> 1, rival |-> FALSE]
Parking == [Plain EXCEPT !.receiver = "parkinglot", !.requeue = FALSE, !.prefetch = 2]
Msg(e, k, enc, f) == [event |-> e, kind |-> k, encoding |-> enc, death |-> f]
Ok == Msg("created", "ok", "integer", "own")
Case(o, a, b) == [opts |-> o, traits |-> m1 :> a @@ m2 :> b]

\* The receivers that start, each with messages of the kinds it treats differently.
Running ==
    {Case([Plain EXCEPT !.limit = 2], Msg("created", "failing", "integer", "own"), Ok),
     Case([Plain EXCEPT !.dlx = TRUE, !.limit = 1],
          Msg("created", "flaky", "float", "own"), Msg("removed", "panic", "integer", "own")),
     Case([Plain EXCEPT !.requeue = FALSE, !.prefetch = 2],
          Msg("created", "flaky", "other", "own"), Ok),
     Case(Parking, Msg("created", "failing", "integer", "first"), Ok),
     Case(Parking, Msg("created", "flaky", "digits", "own"),
          Msg("removed", "garbled", "integer", "own")),
     Case([Parking EXCEPT !.topology = FALSE, !.bindings = FALSE],
          Msg("created", "failing", "integer", "entry"), Msg("removed", "ok", "other", "own")),
     Case([Parking EXCEPT !.topology = FALSE, !.prefetch = 1],
          Msg("created", "failing", "integer", "unnamed"), Ok),
     Case([Parking EXCEPT !.prefetch = 1], Msg("created", "flaky", "integer", "flattened"), Ok),
     Case([Parking EXCEPT !.prefetch = 1], Msg("created", "flaky", "other", "own"), Ok)}
\* The ones Setup or Run refuses.
Refusing ==
    {Case([Plain EXCEPT !.topology = FALSE, !.bindings = FALSE, !.dlx = TRUE], Ok, Ok),
     Case([Parking EXCEPT !.rival = TRUE], Ok, Ok),
     Case([Plain EXCEPT !.prefetch = 0], Ok, Ok)}
MCCases == Running \cup Refusing
=============================================================================
