---------------------------- MODULE MCResultParser ----------------------------
EXTENDS ResultParser, TLC

\* Lines of memtier-style reports, of the specification's example, and lines
\* that set the traps: a decimal throughput, p99 next to p99.9, a zero count,
\* several labels on one line and a line no pattern reads.
MCLines ==
    { << Num(10000, NoFrac), W("requests") >>,
      << Num(5000, 5), W("requests/sec") >>,
      << W("avg:"), Num(2, 3) >>,
      << W("p99:"), Num(9, 8) >>,
      << W("p99.9:"), Num(12, 0) >>,
      << Num(0, NoFrac), W("requests") >>,
      << Num(3, NoFrac), W("errors"), W("in"), Num(10, 2), W("seconds") >>,
      << W("p50:"), Num(1, 5), W("p90:"), Num(2, 0), W("p95:"), Num(0, NoFrac) >>,
      << W(Other), Num(7, 1), W(Other) >> }

\* Every report of at most three of those lines.
MCReports == UNION {[1..n -> MCLines] : n \in 0..3}

\* Simulated runs of 10000 and of 500 requests over about ten seconds.
MCSimulatedReports ==
    {SimulatedOutput(10000, Num(10, 0), 990, Num(4, 2)),
     SimulatedOutput(500, Num(10, 1), 49, Num(1, 7))}
====
