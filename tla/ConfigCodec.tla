----------------------------- MODULE ConfigCodec -----------------------------
(***************************************************************************)
(* BenchmarkConfigManager (src/shared/benchmark-config.ts): configToArgs,  *)
(* validateConfig and mergeWithDefaults, over the MemtierConfig record of  *)
(* src/shared/types.ts.  A config is a function from field names to        *)
(* values.  Text is abstracted to a few strings, and a ratio text "a:b" to *)
(* the record Ratio(a, b), with BadText for a part that is not digits.     *)
(* An argument is a record: Flag(f) for the option of field f and Val(v)   *)
(* for the value that follows it.  Numbers are passed as they are: for the *)
(* integers used here toString and memtier's parsing are inverse.          *)
(***************************************************************************)
EXTENDS Integers, Sequences, SequencesExt

CONSTANTS
    Absent,     \* undefined: an optional field that is not set
    BadText,    \* a part of a ratio text that is not a run of digits
    AllKeys     \* the 'allkeys' alternative of requests

Ratio(a, b) == [set |-> a, get |-> b]
Flag(f) == [flag |-> f]
Val(v) == [val |-> v]

(***************************************************************************)
(* DEFAULT_CONFIG.                                                         *)
(***************************************************************************)
DEFAULT_CONFIG ==
    [server |-> "localhost", port |-> 6379, ipv4 |-> FALSE, ipv6 |-> FALSE,
     protocol |-> "redis", tls |-> FALSE, tlsSkipVerify |-> FALSE,
     runCount |-> 1, requests |-> 10000, clients |-> 50, threads |-> 4,
     ratio |-> Ratio(1, 10), pipeline |-> 1, multiKeyGet |-> 0,
     distinctClientSeed |-> FALSE, randomize |-> FALSE, dataSize |-> 32,
     dataOffset |-> 0, randomData |-> FALSE, dataSizePattern |-> "R",
     dataVerify |-> FALSE, verifyOnly |-> FALSE, generateKeys |-> FALSE,
     noExpiry |-> FALSE, keyPrefix |-> "memtier-", keyMinimum |-> 0,
     keyMaximum |-> 10000000, keyPattern |-> "R:R", waitRatio |-> "1:0",
     commands |-> <<>>, debug |-> FALSE, showConfig |-> FALSE,
     hideHistogram |-> FALSE, printAllRuns |-> FALSE, clusterMode |-> FALSE]

(***************************************************************************)
(* How configToArgs decides whether a field is emitted: its kind (boolean, *)
(* number, text or the ratio text, from MemtierConfig) and the test of its *)
(* if statement.                                                           *)
(***************************************************************************)
Rule(f, kind, test, lit) == [field |-> f, kind |-> kind, test |-> test, lit |-> lit]
Neq(f, kind, lit) == Rule(f, kind, "neq", lit)          \* config.f !== lit
Opt(f, kind) == Rule(f, kind, "truthy", Absent)         \* if (config.f)
Switch(f) == Rule(f, "bool", "truthy", Absent)          \* if (config.f), no value
Positive(f) == Rule(f, "num", "positive", Absent)       \* config.f > 0
Defined(f) == Rule(f, "num", "defined", Absent)         \* config.f !== undefined
SetAndNeq(f, lit) == Rule(f, "num", "truthyNeq", lit)   \* config.f && config.f !== lit

ConnectionOptions ==
    << Neq("server", "text", "localhost"), Neq("port", "num", 6379),
       Opt("unixSocket", "text"), Switch("ipv4"), Switch("ipv6"),
       Neq("protocol", "text", "redis"), Opt("authenticate", "text") >>

TlsOptions ==
    << Switch("tls"), Opt("tlsCert", "text"), Opt("tlsKey", "text"),
       Opt("tlsCacert", "text"), Switch("tlsSkipVerify"),
       Opt("tlsProtocols", "text"), Opt("sni", "text") >>

\* Mutant: the clients test copied from the threads line (!== 4).
TestOptionsClientsTypo ==
    << Neq("runCount", "num", 1), Neq("requests", "num", 10000),
       Opt("rateLimiting", "num"), Neq("clients", "num", 4),
       Neq("threads", "num", 4), Opt("testTime", "num"),
       Neq("ratio", "ratio", Ratio(1, 10)), Neq("pipeline", "num", 1),
       Opt("reconnectInterval", "num"), Positive("multiKeyGet"),
       Defined("selectDb"), Switch("distinctClientSeed"), Switch("randomize") >>

TestOptions ==
    << Neq("runCount", "num", 1), Neq("requests", "num", 10000),
       Opt("rateLimiting", "num"), Neq("clients", "num", 50),
       Neq("threads", "num", 4), Opt("testTime", "num"),
       Neq("ratio", "ratio", Ratio(1, 10)), Neq("pipeline", "num", 1),
       Opt("reconnectInterval", "num"), Positive("multiKeyGet"),
       Defined("selectDb"), Switch("distinctClientSeed"), Switch("randomize") >>

ObjectOptions ==
    << SetAndNeq("dataSize", 32), Positive("dataOffset"), Switch("randomData"),
       Opt("dataSizeRange", "text"), Opt("dataSizeList", "text"),
       Neq("dataSizePattern", "text", "R"), Opt("expiryRange", "text") >>

ImportOptions ==
    << Opt("dataImport", "text"), Switch("dataVerify"), Switch("verifyOnly"),
       Switch("generateKeys"), Switch("noExpiry") >>

KeyOptions ==
    << Neq("keyPrefix", "text", "memtier-"), Neq("keyMinimum", "num", 0),
       Neq("keyMaximum", "num", 10000000), Neq("keyPattern", "text", "R:R"),
       Opt("keyStddev", "num"), Opt("keyMedian", "num"), Opt("keyZipfExp", "num") >>

WaitOptions ==
    << Neq("waitRatio", "text", "1:0"), Opt("numSlaves", "text"),
       Opt("waitTimeout", "text") >>

OutputOptions ==
    << Switch("debug"), Switch("showConfig"), Switch("hideHistogram"),
       Opt("printPercentiles", "text"), Switch("printAllRuns"),
       Opt("clientStats", "text"), Opt("outFile", "text"),
       Opt("jsonOutFile", "text"), Opt("hdrFilePrefix", "text"),
       Switch("clusterMode") >>

OptionRules ==
    ConnectionOptions \o TlsOptions \o TestOptions \o ObjectOptions
        \o ImportOptions \o KeyOptions \o WaitOptions \o OutputOptions

Fields == {OptionRules[i].field : i \in 1..Len(OptionRules)} \cup {"commands"}

(***************************************************************************)
(* JavaScript truthiness of a value of the given kind.                     *)
(***************************************************************************)
Truthy(kind, v) ==
    CASE kind = "bool" -> v = TRUE
      [] kind = "num"  -> v # Absent /\ v # 0
      [] kind = "text" -> v # Absent /\ v # ""

Emits(r, v) ==
    CASE r.test = "neq"       -> v # r.lit
      [] r.test = "truthy"    -> Truthy(r.kind, v)
      [] r.test = "positive"  -> v \in Int /\ v > 0
      [] r.test = "defined"   -> v # Absent
      [] r.test = "truthyNeq" -> Truthy(r.kind, v) /\ v # r.lit

\* args.push('--option') or args.push('--option', value.toString())
OptionArgs(c, r) ==
    IF ~Emits(r, c[r.field]) THEN << >>
    ELSE IF r.kind = "bool" THEN << Flag(r.field) >>
    ELSE << Flag(r.field), Val(c[r.field]) >>

GroupArgs(c, rules) == FlattenSeq([i \in 1..Len(rules) |-> OptionArgs(c, rules[i])])

\* One entry of config.commands.forEach.
CommandArgs(cmd) ==
    << Flag("command"), Val(cmd.command) >>
    \o (IF cmd.ratio # 1 THEN << Flag("command-ratio"), Val(cmd.ratio) >> ELSE << >>)
    \o (IF cmd.keyPattern # "R"
        THEN << Flag("command-key-pattern"), Val(cmd.keyPattern) >> ELSE << >>)

configToArgs(c) ==
    GroupArgs(c, ConnectionOptions) \o GroupArgs(c, TlsOptions)
    \o GroupArgs(c, TestOptions) \o GroupArgs(c, ObjectOptions)
    \o GroupArgs(c, ImportOptions) \o GroupArgs(c, KeyOptions)
    \o GroupArgs(c, WaitOptions)
    \o FlattenSeq([i \in 1..Len(c.commands) |-> CommandArgs(c.commands[i])])
    \o GroupArgs(c, OutputOptions)

(***************************************************************************)
(* validateConfig: every rule is checked, in this order.                   *)
(***************************************************************************)
ValidationRules ==
    << "server", "port", "clients", "threads", "pipeline", "requests", "ratio",
       "keyRange", "dataSize" >>

RatioMatches(v) == v.set \in Nat /\ v.get \in Nat     \* /^\d+:\d+$/

Violates(c, rule) ==
    CASE rule = "server"   -> ~Truthy("text", c.server)
      [] rule = "port"     -> c.port < 1 \/ c.port > 65535
      [] rule = "clients"  -> c.clients < 1
      [] rule = "threads"  -> c.threads < 1
      [] rule = "pipeline" -> c.pipeline < 1
      [] rule = "requests" -> c.requests \in Int /\ c.requests < 1
      [] rule = "ratio"    -> ~RatioMatches(c.ratio)
      [] rule = "keyRange" -> c.keyMinimum >= c.keyMaximum
      [] rule = "dataSize" -> Truthy("num", c.dataSize) /\ c.dataSize < 1

validateConfig(c) == SelectSeq(ValidationRules, LAMBDA rule : Violates(c, rule))

(***************************************************************************)
(* mergeWithDefaults: { ...DEFAULT_CONFIG, ...partialConfig }.             *)
(***************************************************************************)
mergeWithDefaults(partial) ==
    [f \in Fields |-> IF f \in DOMAIN partial THEN partial[f]
                      ELSE IF f \in DOMAIN DEFAULT_CONFIG THEN DEFAULT_CONFIG[f]
                      ELSE Absent]
-----------------------------------------------------------------------------
(***************************************************************************)
(* Reference: how memtier_benchmark reads its command line.  An option     *)
(* that is absent takes memtier's default, which DEFAULT_CONFIG records    *)
(* (an optional field has none); the last occurrence of an option wins; a  *)
(* boolean option is a switch; --command-ratio and --command-key-pattern   *)
(* belong to the --command before them.                                    *)
(***************************************************************************)
RuleOf(f) == OptionRules[CHOOSE i \in 1..Len(OptionRules) : OptionRules[i].field = f]

FlagsAt(args, f) == {i \in 1..Len(args) : args[i] = Flag(f)}

ReadOption(args, r) ==
    LET at == FlagsAt(args, r.field) IN
    IF at = {} THEN (IF r.field \in DOMAIN DEFAULT_CONFIG
                     THEN DEFAULT_CONFIG[r.field] ELSE Absent)
    ELSE IF r.kind = "bool" THEN TRUE
    ELSE args[Max(at) + 1].val

ReadCommand(args, i) ==
    LET hasRatio == i + 2 <= Len(args) /\ args[i + 2] = Flag("command-ratio")
        k == IF hasRatio THEN i + 4 ELSE i + 2
        hasPattern == k <= Len(args) /\ args[k] = Flag("command-key-pattern")
    IN [command |-> args[i + 1].val,
        ratio |-> IF hasRatio THEN args[i + 3].val ELSE 1,
        keyPattern |-> IF hasPattern THEN args[k + 1].val ELSE "R"]

Decode(args) ==
    LET starts == SetToSortSeq(FlagsAt(args, "command"), <) IN
    [f \in Fields |->
        IF f = "commands"
        THEN [j \in 1..Len(starts) |-> ReadCommand(args, starts[j])]
        ELSE ReadOption(args, RuleOf(f))]

\* Two values of field f mean the same run: equal, or both an unset option.
SameSetting(f, x, y) ==
    \/ x = y
    \/ /\ f \notin DOMAIN DEFAULT_CONFIG
       /\ ~Truthy(RuleOf(f).kind, x)
       /\ ~Truthy(RuleOf(f).kind, y)

\* The arguments make memtier run with config c.
ArgsMean(args, c) ==
    LET d == Decode(args) IN \A f \in Fields : SameSetting(f, d[f], c[f])
=============================================================================
