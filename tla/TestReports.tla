---------------------------- MODULE TestReports ----------------------------
(***************************************************************************)
(* What the manager's Dashboard and Statistics pages                       *)
(* (managerServer/frontend/src/pages) make of the latest results: cards,   *)
(* charts and rows.  The two pages compute the same figures in code of     *)
(* their own.                                                              *)
(*                                                                         *)
(* Averages are in hundredths of a millisecond and success rates in        *)
(* percent (Dashboard) or tenths of it (Statistics), rounded half up as    *)
(* Math.round and toFixed do.  A device filter is the set of devices whose *)
(* serial holds it.  Dashboard cuts its chart and table at 20 and 10       *)
(* results, Statistics at 50 and 20: Cut and WideCut.                      *)
(***************************************************************************)
EXTENDS Integers, SequencesExt

CONSTANTS
    Devices, TestTypes,    \* device serials and test types
    Latencies,         \* the latencies measured
    NoLatency,         \* a result without one
    MaxResults,        \* bound on the results recorded
    DashboardLimit,    \* how many results the dashboard asks for
    Cut, WideCut       \* how many results a chart or a table shows

ASSUME ReportsAssumption ==
    /\ Latencies \subseteq Nat /\ NoLatency \notin Latencies
    /\ {MaxResults, DashboardLimit, Cut, WideCut} \subseteq Nat \ {0}
    /\ Cut <= WideCut

VARIABLES
    recorded,          \* the server's results, the latest first
    limit,             \* Statistics: how many it asked for
    deviceFilter,      \* Statistics: the devices it matches, all for ""
    testTypeFilter     \* Statistics: the types it matches, all for ""

reportVars == <<recorded, limit, deviceFilter, testTypeFilter>>

Result == [device : Devices, type : TestTypes, latency : Latencies \cup {NoLatency},
           success : BOOLEAN]     \* success !== false

ReportsInit ==
    /\ \E n \in 0..MaxResults : recorded \in [1..n -> Result]
    /\ limit = DashboardLimit
    /\ deviceFilter = Devices /\ testTypeFilter = TestTypes

ReportsTypeOK ==
    /\ recorded \in Seq(Result) /\ limit \in Nat
    /\ deviceFilter \subseteq Devices /\ testTypeFilter \subseteq TestTypes

First(n, s) == SubSeq(s, 1, IF n < Len(s) THEN n ELSE Len(s))
getRecentTests(n) == First(n, recorded)

-----------------------------------------------------------------------------
Measured(s) == {i \in DOMAIN s : s[i].latency # NoLatency}
Succeeded(s) == {i \in DOMAIN s : s[i].success}
DevicesOf(s) == {s[i].device : i \in DOMAIN s}

(* Array.filter: the elements of s at these indices, in their order.       *)
Kept(s, which) ==
    [n \in 1..Cardinality(which) |->
        s[CHOOSE i \in which : Cardinality({j \in which : j <= i}) = n]]

(* numerator / denominator, rounded half up.                               *)
Rounded(numerator, denominator) == (2 * numerator + denominator) \div (2 * denominator)

TotalLatency(s, which) == SumFunctionOnSet([i \in which |-> s[i].latency], which)

(* Dashboard.  Mutant: a latency of 0 is taken for none.                   *)
CalculateStatsTruthy(tests) ==
    LET measured == {i \in Measured(tests) : tests[i].latency # 0}
    IN  [totalTests |-> Len(tests),
         successRate |-> IF tests = <<>> THEN 0
                         ELSE Rounded(100 * Cardinality(Succeeded(tests)), Len(tests)),
         avgLatency |-> IF measured = {} THEN 0
                        ELSE Rounded(100 * TotalLatency(tests, measured), Cardinality(measured)),
         uniqueDevices |-> Cardinality(DevicesOf(tests))]

calculateStats(tests) ==
    LET measured == Measured(tests)
    IN  [totalTests |-> Len(tests),
         successRate |-> IF tests = <<>> THEN 0
                         ELSE Rounded(100 * Cardinality(Succeeded(tests)), Len(tests)),
         avgLatency |-> IF measured = {} THEN 0
                        ELSE Rounded(100 * TotalLatency(tests, measured), Cardinality(measured)),
         uniqueDevices |-> Cardinality(DevicesOf(tests))]

(* The latest latencies, oldest first.                                     *)
prepareChartData(tests) ==
    Reverse(First(Cut, Kept(tests, Measured(tests))))

DashboardReport ==
    LET recentTests == getRecentTests(DashboardLimit)
    IN  [cards |-> calculateStats(recentTests),
         chart |-> prepareChartData(recentTests),
         rows |-> First(Cut, recentTests)]

-----------------------------------------------------------------------------
(* Statistics.                                                             *)
tests == getRecentTests(limit)
filteredTests ==
    Kept(tests, {i \in DOMAIN tests : /\ tests[i].device \in deviceFilter
                                      /\ tests[i].type \in testTypeFilter})

uniqueTestTypes == {tests[i].type : i \in DOMAIN tests}

prepareLatencyChart ==
    Reverse(First(WideCut, Kept(filteredTests, Measured(filteredTests))))

prepareTestTypeChart ==
    [type \in {filteredTests[i].type : i \in DOMAIN filteredTests} |->
        Cardinality({i \in DOMAIN filteredTests : filteredTests[i].type = type})]

(* The devices with the most tests: any choice among equals.               *)
DeviceCounts ==
    [d \in DevicesOf(filteredTests) |->
        Cardinality({i \in DOMAIN filteredTests : filteredTests[i].device = d})]
prepareDeviceChart ==
    {top \in SUBSET DOMAIN DeviceCounts :
        /\ Cardinality(top) = IF Cut < Cardinality(DOMAIN DeviceCounts) THEN Cut
                              ELSE Cardinality(DOMAIN DeviceCounts)
        /\ \A d \in top, e \in DOMAIN DeviceCounts \ top : DeviceCounts[d] >= DeviceCounts[e]}

calculateSuccessRate ==
    IF filteredTests = <<>> THEN 0
    ELSE Rounded(1000 * Cardinality(Succeeded(filteredTests)), Len(filteredTests))

calculateAvgLatency ==
    LET latencies == Measured(filteredTests)
    IN  IF latencies = {} THEN 0
        ELSE Rounded(100 * TotalLatency(filteredTests, latencies), Cardinality(latencies))

(* The cards and charts of the page.  Unique Devices, unlike the others,   *)
(* is not filtered.                                                        *)
StatisticsReport ==
    [cards |-> [totalTests |-> Len(filteredTests),
                successRate |-> calculateSuccessRate,
                avgLatency |-> calculateAvgLatency,
                uniqueDevices |-> Cardinality(DevicesOf(tests))],
     chart |-> prepareLatencyChart,
     types |-> prepareTestTypeChart,
     devices |-> prepareDeviceChart]
StatisticsRows == First(WideCut, filteredTests)

(* The filters; a type that is chosen stays chosen when another limit      *)
(* leaves no result of it.                                                 *)
Filter ==
    /\ \/ /\ deviceFilter' \in (SUBSET Devices) \ {deviceFilter}
          /\ UNCHANGED testTypeFilter
       \/ /\ testTypeFilter' \in {TestTypes} \cup {{type} : type \in uniqueTestTypes}
          /\ UNCHANGED deviceFilter
    /\ UNCHANGED <<recorded, limit>>

SetLimit ==
    /\ limit' \in 1..MaxResults
    /\ UNCHANGED <<recorded, deviceFilter, testTypeFilter>>

ReportsNext == Filter \/ SetLimit

ReportsSpec == ReportsInit /\ [][ReportsNext]_reportVars

-----------------------------------------------------------------------------
(* The two pages agree about the same results, in every figure they both   *)
(* show: what the dashboard draws and lists are the latest of what         *)
(* Statistics does.  And whatever is filtered, each result is counted in   *)
(* the bar of its type, and there is a curve when there is an average.     *)
ReportsAgree ==
    LET d == DashboardReport  s == StatisticsReport
        Unfiltered == /\ deviceFilter = Devices /\ testTypeFilter = TestTypes
                      /\ limit = DashboardLimit
    IN  /\ Unfiltered =>
              /\ d.cards.totalTests = s.cards.totalTests
              /\ d.cards.avgLatency = s.cards.avgLatency
              /\ d.cards.uniqueDevices = s.cards.uniqueDevices
              /\ 10 * d.cards.successRate <= s.cards.successRate + 5
              /\ s.cards.successRate <= 10 * d.cards.successRate + 5
              /\ IsSuffix(d.chart, s.chart) /\ IsPrefix(d.rows, StatisticsRows)
        /\ SumFunction(s.types) = s.cards.totalTests
        /\ s.cards.avgLatency > 0 => s.chart # <<>>
=============================================================================
