--------------------------- MODULE ProcessTables ---------------------------
(***************************************************************************)
(* What a tick says of the running processes: the few that use the CPU and *)
(* the GPU most, which alerts and sessions are attributed to, and the      *)
(* longer table of the APPS tab.  Both compare the counters of two         *)
(* samples of a worker that knows processes by their identifier only,      *)
(* while processes end, identifiers are used again and the clock is set.   *)
(*                                                                         *)
(* A CPU unit is what one logical CPU does in a unit of time.              *)
(***************************************************************************)
EXTENDS Values, Integers, FiniteSets, FiniteSetsExt

CONSTANTS
    ProcessIds,   \* identifiers of processes
    Programs,     \* their names
    Access,       \* what Windows tells of each program, of {"reads", "memory"}
    GpuUses,      \* what the counters of the GPU may say: sets of [process, engine, load],
                  \* the load in percent and above the noise floor, the engine None where
                  \* the driver names none
    TopCpu,       \* top_n of cpu_top_processes
    TopApps,      \* APPS_TAB_TOP_N
    MaxUnits,     \* bound on the time between two samples
    MaxWork       \* bound on the CPU units of a process

ASSUME TableConstants ==
    /\ ProcessIds \subseteq Nat /\ IsFiniteSet(ProcessIds) /\ None \notin ProcessIds
    /\ {TopCpu, TopApps, MaxUnits, MaxWork} \subseteq Nat /\ TopCpu <= TopApps
    /\ \A use \in GpuUses : IsFiniteSet(use) /\ \A counter \in use : counter.load \in Nat

VARIABLES
    processes,  \* what runs under each identifier: None or [name, cpu, read]
    spent,      \* CPU units under each identifier since the last sample
    replaced,   \* identifiers given to another process since the last sample
    elapsed,    \* units of time since the last sample
    adjusted,   \* by how much the clock was set since the last sample
    samples,    \* prev_proc_times
    tables      \* of the last tick: [cpu, gpu, apps, engines, ...], until something happens

tableVars == <<processes, spent, replaced, elapsed, adjusted, samples, tables>>

NoSample == [p \in {} |-> None]
Nobody == [p \in ProcessIds |-> 0]

TablesInit ==
    /\ processes \in [ProcessIds -> {None} \cup [name : Programs, cpu : {0}, read : {0}]]
    /\ spent = Nobody
    /\ replaced = {}
    /\ elapsed = 0
    /\ adjusted = 0
    /\ samples = NoSample
    /\ tables = None

Worked(process, read) == [name |-> process.name, cpu |-> process.cpu + 1, read |-> read]

\* A unit of time in which one process at most works, and perhaps reads its disk.
UnitPasses ==
    /\ elapsed < MaxUnits
    /\ elapsed' = elapsed + 1
    /\ \/ UNCHANGED <<processes, spent>>
       \/ \E p \in ProcessIds :
              /\ processes[p] # None /\ processes[p].cpu < MaxWork
              /\ \E read \in processes[p].read .. 1 :
                     processes' = [processes EXCEPT ![p] = Worked(@, read)]
              /\ spent' = [spent EXCEPT ![p] = @ + 1]
    /\ tables' = None
    /\ UNCHANGED <<replaced, adjusted, samples>>

\* A process ends and another one starts under its identifier, or none.
ProcessChanges ==
    /\ \E p \in ProcessIds, name \in {None} \cup Programs :
           /\ processes' = [processes EXCEPT ![p] =
                               IF name = None THEN None ELSE [name |-> name, cpu |-> 0, read |-> 0]]
           /\ spent' = [spent EXCEPT ![p] = 0]
           /\ replaced' = replaced \cup {p}
    /\ tables' = None
    /\ UNCHANGED <<elapsed, adjusted, samples>>

ClockIsSet ==
    /\ adjusted = 0
    /\ adjusted' \in {-1, 1}
    /\ tables' = None
    /\ UNCHANGED <<processes, spent, replaced, elapsed, samples>>

-----------------------------------------------------------------------------
\* _sample_process_stats: those that can be opened, with what they read if it is told.
Stats(open) ==
    [p \in {x \in open : processes[x] # None} |->
        [name |-> processes[p].name, cpu |-> processes[p].cpu,
         read |-> IF "reads" \in Access[processes[p].name] THEN processes[p].read ELSE None]]

\* Mutant, used by no specification: the samples of a tick without a duration are not kept.
BugKept(now, seconds) == IF seconds <= 0 THEN samples ELSE now

\* prev_proc_times of the next tick.
Kept(now, seconds) == now

Delta(now, p) == now[p].cpu - samples[p].cpu
Share(now, p, seconds) ==
    IF Delta(now, p) > 0 THEN (100 * Delta(now, p)) \div seconds ELSE 0

\* Of equals the one sampled first comes first.
Leading(n, these, share) ==
    {p \in these : Cardinality({o \in these : \/ share[o] > share[p]
                                              \/ share[o] = share[p] /\ o < p}) < n}

Only(these, share) == [p \in these |-> share[p]]

Known(now) == DOMAIN now \cap DOMAIN samples
Shares(now, seconds) == [p \in Known(now) |-> Share(now, p, seconds)]

CpuTop(now, seconds) ==
    LET shares == Shares(now, seconds)
    IN Only(Leading(TopCpu, {p \in Known(now) : shares[p] > 0}, shares), shares)

Total(f) == MapThenSumSet(LAMBDA x : f[x], DOMAIN f)

\* GpuProcessSampler: a process is at its busiest engine, an engine at the sum.
ByProcess(counters) ==
    [p \in {c.process : c \in counters} |-> Max({c.load : c \in {x \in counters : x.process = p}})]
ByEngine(counters) ==
    [e \in {c.engine : c \in counters} \ {None} |->
        Total([c \in {x \in counters : x.engine = e} |-> c.load])]

\* Mutant, used by no specification: the shares are not capped.
BugCapped(busy) == busy

\* gpu_top_processes: no share above the whole, which the APPS tab does not see to.
Capped(busy) == [p \in DOMAIN busy |-> Min({100, busy[p]})]

GpuTop(now, busy) == Only(Leading(TopCpu, DOMAIN busy \cap DOMAIN now, Capped(busy)), Capped(busy))

Rate(now, p, seconds) ==
    IF now[p].read = None \/ samples[p].read = None THEN None
    ELSE Max({0, now[p].read - samples[p].read}) \div seconds

\* _sample_process_memory, of those in the table only: whose it is, where it can be had.
Memory(now, shown) == [p \in {x \in shown : "memory" \in Access[now[x].name]} |-> p]

AppsTable(now, seconds, busy) ==
    LET shares == Shares(now, seconds)
        shown == Leading(TopApps, Known(now), shares)
        memory == Memory(now, shown)
    IN [p \in shown |->
           [name |-> now[p].name, cpu |-> shares[p], read |-> Rate(now, p, seconds),
            gpu |-> IF p \in DOMAIN busy THEN busy[p] ELSE None,
            memory |-> IF p \in DOMAIN memory THEN memory[p] ELSE None]]

\* The part of worker() that samples processes.  "memory" says whose it is.
SampleProcesses ==
    /\ \E open \in SUBSET ProcessIds, use \in GpuUses :
           LET now == Stats(open)
               seconds == elapsed + adjusted
               counters == {c \in use : processes[c.process] # None}
               busy == ByProcess(counters)
               timed == seconds > 0
           IN /\ tables' = [cpu |-> IF timed THEN CpuTop(now, seconds) ELSE NoSample,
                            apps |-> IF timed THEN AppsTable(now, seconds, busy) ELSE NoSample,
                            gpu |-> GpuTop(now, busy),
                            engines |-> ByEngine(counters), counters |-> counters,
                            spent |-> spent, replaced |-> replaced,
                            elapsed |-> elapsed, adjusted |-> adjusted]
              /\ samples' = Kept(now, seconds)
    /\ spent' = Nobody
    /\ replaced' = {}
    /\ elapsed' = 0
    /\ adjusted' = 0
    /\ UNCHANGED processes

TablesNext == UnitPasses \/ ProcessChanges \/ ClockIsSet \/ SampleProcesses

-----------------------------------------------------------------------------
\* _current_attribution: the process an alert names as likely responsible, "Not identified"
\* without one that leads clearly, and for a component of neither the CPU nor the GPU.
Responsible(bias) ==
    LET top == IF bias = None THEN NoSample ELSE tables[bias]
    IN {p \in Leading(1, DOMAIN top, top) : top[p] >= 5}

\* However processes come, go and take over identifiers: nobody is shown to have used
\* more than it did between the two samples and, while the clock is left alone, no more
\* than there was; who was there throughout is shown exactly; whoever an alert of the CPU
\* is attributed to leads the table of the APPS tab with the same share, and one of the
\* GPU has there what it is blamed for, or more than the whole; and a process is never
\* busier on the GPU than the busiest engine, unless at one the driver does not name.
TablesAgree ==
    tables # None =>
    LET apps == tables.apps
        seconds == tables.elapsed + tables.adjusted
    IN /\ \A p \in DOMAIN apps :
              /\ apps[p].cpu * seconds <= 100 * tables.spent[p]
              /\ p \notin tables.replaced =>
                     apps[p].cpu = (100 * tables.spent[p]) \div seconds
              /\ apps[p].memory = None <=> "memory" \notin Access[apps[p].name]
              /\ apps[p].read # None => "reads" \in Access[apps[p].name]
       /\ tables.adjusted = 0 =>
              Total([p \in ProcessIds |-> IF p \in DOMAIN apps THEN apps[p].cpu ELSE 0]) <= 100
       /\ \A p \in DOMAIN tables.cpu :
              /\ p \in DOMAIN apps /\ apps[p].cpu = tables.cpu[p]
              /\ \A o \in DOMAIN apps \ DOMAIN tables.cpu : apps[o].cpu <= tables.cpu[p]
       /\ \A p \in Responsible("cpu"), o \in DOMAIN apps : apps[p].cpu >= apps[o].cpu
       /\ \A p \in Responsible("gpu") \cap DOMAIN apps :
              tables.gpu[p] = Min({100, apps[p].gpu}) /\ apps[p].gpu >= 5
       /\ \A p \in DOMAIN tables.gpu :
              \/ \E c \in tables.counters : c.process = p /\ c.engine = None /\ c.load >= tables.gpu[p]
              \/ \E e \in DOMAIN tables.engines : tables.engines[e] >= tables.gpu[p]
=============================================================================
