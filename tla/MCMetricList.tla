---------------------------- MODULE MCMetricList ----------------------------
(***************************************************************************)
(* A small instance of MetricList and Wire: the cache, the current list    *)
(* and a batch, whose metrics are of two kinds, one for each weight.       *)
(***************************************************************************)
EXTENDS Wire, TLC

MCSymmetry == Permutations(Nodes) \union Permutations(Lists)

\* Numbers of two digits of base 2, and of four digits of base 4
MCShort == [n \in 0 .. ShortMod - 1 |-> <<n \div 2, n % 2>>]
MCLong  == [n \in 0 .. LongMod - 1 |-> <<n \div 64, (n \div 16) % 4, (n \div 4) % 4, n % 4>>]

Clock(sec, usec) == [sec |-> sec, usec |-> usec]

MCContents ==
  {<<MetricInteger(<<97>>, Clock(27, 9), <<1, 2, 3, 4>>, 1),
     MetricString(<<97, 98>>, Clock(28, 0), <<>>)>>,
   <<MetricFloat(<<>>, Clock(27, 1), <<5, 6>>, 0),
     MetricString(<<98>>, Clock(0, 200), <<120, 121, 122>>)>>}
=============================================================================
