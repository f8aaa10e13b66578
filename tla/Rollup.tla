------------------------------- MODULE Rollup -------------------------------
(***************************************************************************)
(* The aggregation of internal/rollup/rollup.go: what one performRollup    *)
(* makes of a batch of metrics and a batch of logs, at whatever level the  *)
(* trigger loop sets meanwhile.                                            *)
(*                                                                         *)
(* The nested loops over signals, resources, scopes, metrics and points    *)
(* find or create their way to one destination per point, so a batch is a  *)
(* sequence of points that carry their path:                               *)
(*   res, scope, name  the resource's attributes, scope and metric         *)
(*   type              "sum", "gauge" or another type of metric            *)
(*   attrs             <<key, value>> pairs in order, values as AsString() *)
(*   kind, value       "int", "double" or "empty", and the number          *)
(* and of log records, with severity, body (its first 20 bytes, and the    *)
(* rest if there is one) and attribute names.                              *)
(***************************************************************************)
EXTENDS Integers, Sequences, SequencesExt

CONSTANTS
    Enabled,            \* cfg.Enabled
    Points, Records,    \* the points and log records that may arrive
    MaxPoints, MaxRecords   \* bounds on a batch

ASSUME BoundsAreNaturals == MaxPoints \in Nat /\ MaxRecords \in Nat

\* A metric without data has no points, "panic" is no type of metric, and a
\* point without a number counts as zero.
ASSUME PointsAssumption ==
    \A p \in Points : /\ p.type \notin {"empty", "panic"}
                      /\ p.kind \in {"int", "double", "empty"}
                      /\ p.value \in Int /\ (p.kind = "empty" => p.value = 0)

Levels == {"fine", "medium", "coarse"}
Allowed == {"http.method", "http.status_code", "error"}
Numeric == {"sum", "gauge"}

VARIABLES level, pc, points, records, metricsOut, logsOut,
          metricsLevel, logsLevel   \* history: the levels that were used

vars == <<level, pc, points, records, metricsOut, logsOut, metricsLevel,
          logsLevel>>

\* A table of what belongs to each key, after m[key] = value.
Put(m, key, value) ==
    [k \in DOMAIN m \cup {key} |-> IF k = key THEN value ELSE m[k]]

-----------------------------------------------------------------------------
(* Metrics.                                                                *)

\* Name and version are put together without a separator.
ScopeKey(scope) == scope.name \o scope.version

MetricKey(p) == <<p.res, ScopeKey(p.scope), p.name>>

\* filterAttributesKey and applyFilteredAttributes agree on what they keep.
FilterAttributes(attrs, lvl) ==
    IF lvl = "coarse" THEN <<>>
    ELSE SelectSeq(attrs, LAMBDA a : a[1] \in Allowed)

\* What IntValue() and DoubleValue() read: zero for a value of another kind.
ValueAs(kind, p) == IF p.kind = kind THEN p.value ELSE 0

\* A point that replaces what its group has added up so far.
AddPoint_Overwrite(old, p) == [kind |-> p.kind, value |-> p.value]

AddPoint(old, p) ==
    LET kind == IF p.kind = "int" THEN "int" ELSE "double"
    IN [kind |-> kind, value |-> ValueAs(kind, old) + ValueAs(kind, p)]

RollupDataPoint(groups, p, lvl) ==
    LET key == FilterAttributes(p.attrs, lvl) IN
    IF key \in DOMAIN groups
      THEN [groups EXCEPT ![key] = AddPoint(@, p)]
      ELSE Put(groups, key, [kind |-> p.kind, value |-> p.value])

NoMetric == [type |-> "empty", groups |-> <<>>]
Panic == [type |-> "panic", groups |-> <<>>]

\* A destination that takes the type of whatever comes.
RollupMetricData_Retype(dest, p, lvl) ==
    IF p.type \in Numeric
      THEN [type |-> p.type, groups |-> RollupDataPoint(dest.groups, p, lvl)]
      ELSE dest

\* dest.Sum() of a metric of another type is an invalid value, and to use it is
\* a nil dereference.  Of other types of metric the first is copied as it is.
RollupMetricData(dest, p, lvl) ==
    IF p.type \in Numeric
      THEN IF dest.type \in {"empty", p.type}
             THEN [type   |-> p.type,
                   groups |-> RollupDataPoint(dest.groups, p, lvl)]
             ELSE Panic
      ELSE IF dest.type = "empty"
             THEN [type   |-> p.type,
                   groups |-> Put(<<>>, p.attrs,
                                  [kind |-> p.kind, value |-> p.value])]
             ELSE dest

\* mergeScopeMetrics and mergeMetricsList, for one point: find its metric, or
\* append an empty one.
MergePoint(out, p, lvl) ==
    LET key  == MetricKey(p)
        dest == IF key \in DOMAIN out THEN out[key] ELSE NoMetric
    IN Put(out, key, RollupMetricData(dest, p, lvl))

\* What the loops have made of the first i points.
MergedPoints(batch, lvl) ==
    LET out[i \in 0..Len(batch)] ==
          IF i = 0 THEN <<>> ELSE MergePoint(out[i - 1], batch[i], lvl)
    IN out

RolledUp(batch, lvl) == MergedPoints(batch, lvl)[Len(batch)]

Panics(out) == \E k \in DOMAIN out : out[k] = Panic

-----------------------------------------------------------------------------
(* Logs.                                                                   *)

\* Long bodies are cut at the coarse level, behind the twentieth byte.
LogKey(r, lvl) ==
    <<r.res, ScopeKey(r.scope), r.severity, r.first,
      IF r.rest # "" /\ lvl = "coarse" THEN "..." ELSE r.rest>>

Identities == {"request_id", "user_id"}

\* A first record that is not counted.
RollupLogRecord_FromZero(out, r, lvl) ==
    LET key == LogKey(r, lvl) IN
    IF key \in DOMAIN out
      THEN [out EXCEPT ![key].count = @ + 1]
      ELSE Put(out, key, [attrs |-> r.attrs, count |-> 0])

\* The first record of a group stands for it, with the number of occurrences.
RollupLogRecord(out, r, lvl) ==
    LET key == LogKey(r, lvl) IN
    IF key \in DOMAIN out
      THEN [out EXCEPT ![key].count = @ + 1]
      ELSE Put(out, key, [attrs |-> IF lvl = "coarse"
                                      THEN r.attrs \ Identities
                                      ELSE r.attrs,
                          count |-> 1])

\* What the loops have made of the first i records.
MergedRecords(batch, lvl) ==
    LET out[i \in 0..Len(batch)] ==
          IF i = 0 THEN <<>> ELSE RollupLogRecord(out[i - 1], batch[i], lvl)
    IN out

LogsRolledUp(batch, lvl) == MergedRecords(batch, lvl)[Len(batch)]

-----------------------------------------------------------------------------

Merges(lvl) == lvl = "fine" \/ ~Enabled

Init ==
    /\ level = "fine"
    /\ pc = "metrics"
    /\ points \in BoundedSeq(Points, MaxPoints)
    /\ records \in BoundedSeq(Records, MaxRecords)
    /\ metricsOut = <<>> /\ logsOut = <<>>
    /\ metricsLevel = "none" /\ logsLevel = "none"

SetLevel(l) ==
    /\ level' = l
    /\ UNCHANGED <<pc, points, records, metricsOut, logsOut, metricsLevel,
                   logsLevel>>

\* At the fine level mergeMetrics passes all points on as they are.
RollupMetrics ==
    /\ pc = "metrics"
    /\ metricsLevel' = level
    /\ metricsOut' = IF Merges(level) THEN points ELSE RolledUp(points, level)
    /\ pc' = IF ~Merges(level) /\ Panics(metricsOut') THEN "dead" ELSE "logs"
    /\ UNCHANGED <<level, points, records, logsOut, logsLevel>>

\* The level is read anew.
RollupLogs ==
    /\ pc = "logs"
    /\ logsLevel' = level
    /\ logsOut' = IF Merges(level) THEN records
                                   ELSE LogsRolledUp(records, level)
    /\ pc' = "done"
    /\ UNCHANGED <<level, points, records, metricsOut, metricsLevel>>

Next ==
    \/ \E l \in Levels : SetLevel(l)
    \/ RollupMetrics \/ RollupLogs

Spec == Init /\ [][Next]_vars

-----------------------------------------------------------------------------
(* Properties: what the loops compute, without following them.             *)

MetricsRolled == metricsLevel # "none" /\ ~Merges(metricsLevel)
LogsRolled == logsLevel # "none" /\ ~Merges(logsLevel)

IsInt(p) == p.kind = "int"

\* The points of one metric and one group of attributes.
GroupOf(batch, lvl, key, group) ==
    {i \in DOMAIN batch : /\ MetricKey(batch[i]) = key
                          /\ batch[i].type \in Numeric
                          /\ FilterAttributes(batch[i].attrs, lvl) = group}

\* Those of them behind the last change between integers and doubles.
LastRun(batch, members) ==
    {i \in members : \A j \in members :
                       j >= i => (IsInt(batch[j]) <=> IsInt(batch[i]))}

PartialSums(f, n) ==
    LET sum[i \in 0..n] == IF i = 0 THEN 0 ELSE sum[i - 1] + f[i] IN sum

\* The sum of f[1], ..., f[n].
Total(f, n) == PartialSums(f, n)[n]

TotalOf(batch, members) ==
    Total([i \in 1..Len(batch) |-> IF i \in members THEN batch[i].value ELSE 0],
          Len(batch))

\* A rolled-up sum or gauge has one point for every group of attributes that
\* occurs, and its value is the total of the group's last run of integers or of
\* doubles: all of the group if it is of one kind, and what came before the last
\* change of kind is lost.
LastRunIsKept ==
    MetricsRolled /\ pc # "dead" =>
      \A key \in DOMAIN metricsOut :
        LET out == metricsOut[key]
            Members(g) == GroupOf(points, metricsLevel, key, g)
        IN out.type \in Numeric =>
             /\ DOMAIN out.groups =
                  {FilterAttributes(points[i].attrs, metricsLevel) :
                     i \in {j \in DOMAIN points :
                              /\ MetricKey(points[j]) = key
                              /\ points[j].type \in Numeric}}
             /\ \A g \in DOMAIN out.groups :
                  out.groups[g].value =
                    TotalOf(points, LastRun(points, Members(g)))

\* A sum or gauge whose metric began with another type.
TypeClash(batch) ==
    \E i, j \in DOMAIN batch :
      /\ MetricKey(batch[i]) = MetricKey(batch[j])
      /\ \A k \in 1..i-1 : MetricKey(batch[k]) # MetricKey(batch[i])
      /\ batch[j].type \in Numeric
      /\ batch[i].type # batch[j].type

\* A rollup stops the node if, and only if, a sum or gauge has the name of a
\* metric of the same resource and scope that began with another type.
PanicIsTypeClash ==
    MetricsRolled => (pc = "dead" <=> TypeClash(points))

Uniform(batch) ==
    \A i, j \in DOMAIN batch :
      MetricKey(batch[i]) = MetricKey(batch[j]) =>
        /\ IsInt(batch[i]) <=> IsInt(batch[j])
        /\ batch[i].type = batch[j].type /\ batch[i].type \in Numeric

Values(out) == [k \in DOMAIN out |-> [g \in DOMAIN out[k].groups |->
                                        out[k].groups[g].value]]

\* The batch in the order given by a permutation of its positions.
Reordered(batch, order) == [i \in 1..Len(batch) |-> batch[order[i]]]

\* Signals reach a rollup in an order that depends on evictions.  As long as
\* every metric is of one type and of one kind of number, the order does not
\* matter.
OrderIsImmaterial ==
    MetricsRolled /\ Uniform(points) =>
      \A order \in Bijection(1..Len(points), 1..Len(points)) :
        Values(RolledUp(Reordered(points, order), metricsLevel)) =
          Values(metricsOut)

\* Every log record is counted once, in the group of its severity and pattern,
\* also when the level has changed since the metrics were rolled up; and the
\* record that stands for a group shows no identities at the coarse level.
LogsAreCountedOnce ==
    LogsRolled =>
      /\ \A i \in DOMAIN records :
           LogKey(records[i], logsLevel) \in DOMAIN logsOut
      /\ \A k \in DOMAIN logsOut :
           /\ logsOut[k].count =
                Cardinality({i \in DOMAIN records :
                               LogKey(records[i], logsLevel) = k})
           /\ logsLevel = "coarse" => logsOut[k].attrs \cap Identities = {}
=============================================================================
