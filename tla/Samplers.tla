------------------------------ MODULE Samplers ------------------------------
(***************************************************************************)
(* The samplers of worker() that hold handles of Windows from one poll to  *)
(* the next: the PDH queries of GPU engines, cores, memory and disks, and  *)
(* the display adapter of an Intel GPU.  They know nothing of each other:  *)
(* a behaviour is one of a single kind.                                    *)
(*                                                                         *)
(* The handles Windows keeps open are counted.  A counter of a rate gives  *)
(* a value from the second collection on, a counter of bytes from the      *)
(* first.                                                                  *)
(***************************************************************************)
EXTENDS Values, Integers, FiniteSets

CONSTANTS
    Instances,      \* what there may be counters of, and adapters
    ReexpandEvery   \* REEXPAND_EVERY_N_SAMPLES

ASSUME SamplerConstants == IsFiniteSet(Instances) /\ ReexpandEvery \in Nat \ {0}

VARIABLES
    kind,     \* which sampler this is
    there,    \* the instances Windows has
    sampler,  \* [ok, query, since, known, primed]: known says of each counter how often it
              \* was collected, and of an adapter that it is the selected one
    held,     \* how many handles Windows keeps open for it
    polled,   \* the instances the last poll gave values of, None if it failed or is outdated
    waited,   \* how many polls each instance was there without a counter of it since
              \* Windows last refused one
    stranded  \* whether an expansion that starts the count of polls left no counter at all

samplerVars == <<kind, there, sampler, held, polled, waited, stranded>>

Kinds == {"gpu", "disk", "cores", "memory", "intel"}

Reexpands == kind \in {"gpu", "disk"}

\* Collections a value takes.
Needs == IF kind = "memory" THEN 1 ELSE 2

NoCounters == [i \in {} |-> 0]

\* What the sampler holds itself: its query and the counters in it.
Own(s) == (IF s.query THEN 1 ELSE 0) + Cardinality(DOMAIN s.known)

Empty == [ok |-> FALSE, query |-> FALSE, since |-> 0, known |-> NoCounters, primed |-> FALSE]

\* The counters of the instances, after the collection that primes those of a rate,
\* which may fail.
Primed(instances, works) ==
    [i \in instances |-> IF works /\ kind # "memory" THEN 1 ELSE 0]

-----------------------------------------------------------------------------
\* Whether the collection that primes the counters may work.
MayPrime(got) == IF got = {} THEN {FALSE} ELSE BOOLEAN

\* A query with the counters Windows let it add, of what is there.
Rebuilt(s, got, works) ==
    [s EXCEPT !.query = TRUE, !.known = Primed(got, works), !.since = 0, !.primed = works]

\* Mutant, used by no specification: the count of polls starts again without a counter.
BugUnexpanded(s, reopened) ==
    [s EXCEPT !.query = reopened, !.known = NoCounters, !.since = 0, !.primed = FALSE]

\* The query may not be opened again, or the path expand to nothing: the count of polls
\* then stays, for the next poll to try again.
Unexpanded(s, reopened) ==
    [s EXCEPT !.query = reopened, !.known = NoCounters, !.primed = FALSE]

\* Does the path expand to anything?  Of disks and cores there always is "_Total".
Expandable == there # {} \/ kind \in {"disk", "cores"}

\* Mutant, used by no specification: the query is left open.
BugExpanded(s) ==
    {[state |-> Rebuilt(s, there, works), freed |-> 0, bare |-> FALSE, refused |-> {}] :
        works \in MayPrime(there)}

\* _expand: closes the query, which frees its counters, and opens one with those it can
\* add of all that is there now.  Without any the count of polls has started all the same.
Expanded(s) ==
    {[state |-> Unexpanded(s, reopened), freed |-> Own(s), bare |-> FALSE, refused |-> {}] :
        reopened \in BOOLEAN}
      \cup
    UNION {{[state |-> Rebuilt(s, got, works), freed |-> Own(s), bare |-> got = {},
             refused |-> there \ got] : works \in MayPrime(got)} :
               got \in {x \in SUBSET there : Expandable}}

\* _connect closes the adapter it has.  Windows opens all there are to enumerate them;
\* all but the selected one are closed again.
Connected ==
    {NoCounters} \cup {[i \in {selected} |-> 2] : selected \in there}

\* Is a sampler with these counters of use?
Usable(got) ==
    CASE Reexpands -> TRUE
      [] kind = "cores" -> got # {}
      [] kind = "memory" -> got = Instances

\* The adapter's constructor.  Without gdi32 there is nothing to enumerate with.
AdapterBuilt == {Empty} \cup {[Empty EXCEPT !.ok = TRUE, !.known = k] : k \in Connected}

\* The constructors.  The query is refused, expands to nothing, or has its counters.
Built ==
    IF kind = "intel" THEN AdapterBuilt
    ELSE {Empty, [Empty EXCEPT !.query = TRUE]} \cup
         (UNION {{[Rebuilt(Empty, got, works) EXCEPT !.ok = Usable(got)] : works \in MayPrime(got)} :
                     got \in SUBSET there}) \cup
         {[Empty EXCEPT !.ok = TRUE, !.query = q] : q \in {x \in BOOLEAN : Reexpands}}

SamplersInit ==
    /\ kind \in Kinds
    /\ there \in SUBSET Instances
    /\ sampler \in Built
    /\ held = Own(sampler)
    /\ polled = None
    /\ waited = [i \in Instances |-> 0]
    /\ stranded = (Reexpands /\ sampler.ok /\ sampler.known = NoCounters)

\* Processes, disks and adapters come and go; cores and pages do not.
Hotplug ==
    /\ Reexpands \/ kind = "intel"
    /\ there' \in SUBSET Instances
    /\ waited' = [i \in Instances |-> IF i \in there \cap there' THEN waited[i] ELSE 0]
    /\ polled' = None
    /\ UNCHANGED <<kind, sampler, held, stranded>>

-----------------------------------------------------------------------------
\* collect() and sample() of the PDH samplers.

Collected(s) ==
    [s EXCEPT !.since = IF Reexpands THEN @ + 1 ELSE 0,
              !.known = [i \in DOMAIN @ |-> IF @[i] < 2 THEN @[i] + 1 ELSE 2]]

\* The state before PdhCollectQueryData, and what was freed and refused for it.
Due == Reexpands /\ sampler.since >= ReexpandEvery
Ready ==
    IF Due THEN Expanded(sampler)
    ELSE {[state |-> sampler, freed |-> 0, bare |-> stranded, refused |-> {}]}

\* One more poll without a counter, which need not be counted further than too many.
Waited(r, i) == IF i \in r.refused THEN 0 ELSE waited[i]
OneMore(n) == IF n > ReexpandEvery THEN n ELSE n + 1

\* There is no value, and without a counter or an attempt to add one nothing came nearer.
PollFails(r) ==
    /\ sampler' = r.state
    /\ polled' = None
    /\ waited' = [i \in Instances |->
                     IF Reexpands /\ i \in there /\ r.state.known = NoCounters /\ ~Due
                     THEN OneMore(waited[i]) ELSE Waited(r, i)]

\* Windows gives a value of what is still there; of the pages all or none are given.
PollWorks(r) ==
    /\ r.state.query /\ r.state.known # NoCounters
    /\ sampler' = Collected(r.state)
    /\ polled' = {i \in DOMAIN sampler'.known : i \in there /\ sampler'.known[i] >= Needs}
    /\ waited' = [i \in Instances |->
                     IF Reexpands /\ i \in there \ DOMAIN sampler'.known
                     THEN OneMore(Waited(r, i)) ELSE 0]

CollectCounters ==
    /\ kind # "intel" /\ sampler.ok
    /\ \E r \in Ready :
           /\ PollFails(r) \/ PollWorks(r)
           /\ held' = IF r.state = sampler /\ r.freed = 0 THEN held
                      ELSE held - r.freed + Own(r.state)
           /\ stranded' = r.bare
    /\ UNCHANGED <<kind, there>>

-----------------------------------------------------------------------------
\* IntelD3DKMTTemperatureSampler.

\* sample(): connects if it is not, and once more if the adapter does not answer.
SampleAdapter ==
    /\ kind = "intel" /\ sampler.ok
    /\ \/ sampler.known # NoCounters /\ UNCHANGED <<sampler, held>>
       \/ \E selected \in Connected :
              /\ sampler' = [sampler EXCEPT !.known = selected]
              /\ held' = held - Own(sampler) + Cardinality(DOMAIN selected)
    /\ polled' \in IF sampler'.known = NoCounters THEN {None}
                   ELSE {None, DOMAIN sampler'.known \cap there}
    /\ UNCHANGED <<kind, there, waited, stranded>>

\* The last statement of worker().
CloseAdapter ==
    /\ kind = "intel"
    /\ sampler' = Empty
    /\ held' = held - Own(sampler)
    /\ UNCHANGED <<kind, there, polled, waited, stranded>>

SamplersNext == Hotplug \/ CollectCounters \/ SampleAdapter \/ CloseAdapter

-----------------------------------------------------------------------------
\* Windows keeps nothing open that its sampler has lost track of, however often the
\* query is rebuilt and whichever of these fails, and a poll that succeeds after a rebuild
\* is not lost for want of a pair of collections.  A sampler that expands tries again at
\* the next poll when it has no counter left, and no instance is there for more polls
\* without one than the rebuilds are apart, since Windows last refused it: unless the
\* first expansion failed or a later one could add no counter, which start the count of
\* polls that only those with a counter go on with.
HandlesAreHeld ==
    /\ held = Own(sampler)
    /\ (polled # None /\ sampler.primed) => polled = DOMAIN sampler.known \cap there
    /\ (Reexpands /\ sampler.ok /\ ~stranded) =>
           /\ sampler.known = NoCounters => sampler.since >= ReexpandEvery
           /\ \A i \in Instances : waited[i] <= ReexpandEvery
=============================================================================
