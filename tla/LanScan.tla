------------------------------ MODULE LanScan ------------------------------
(* Provider.Discover of internal/discovery/lan: a producer hands the addresses  *)
(* of the enabled targets to workers over an unbuffered channel, the workers    *)
(* hand what answers to a collector over a buffered one, and a last goroutine   *)
(* closes that one when every worker has returned.  The context may end at any  *)
(* moment.  A probe is nondeterministic but ends: ping, ports and name lookup   *)
(* have timeouts.                                                               *)
EXTENDS Prefixes, Sequences, FiniteSets

CONSTANTS
    Workers,      \* 64 goroutines in the code
    Targets,
    AddressBits,  \* 32: the width of an address
    MaxHostBits,  \* 12: a larger prefix is not scanned at all
    MaxHosts,     \* 4096: what NewProvider sets
    NoAddress

ASSUME LanAssumption ==
    /\ AddressBits \in Nat /\ MaxHostBits \in 0 .. AddressBits
    /\ MaxHosts = TwoTo[MaxHostBits]
    /\ Workers # {} /\ IsFiniteSet(Workers) /\ IsFiniteSet(Targets)
    /\ NoAddress \notin Targets \X Nat

VARIABLES
    scanTargets,   \* the rows of scan_targets the scan was given
    unsent,        \* <<target, address>> the producer has still to hand over
    jobsClosed,
    probing,       \* per worker: what it probes, NoAddress while it waits for work
    reporting,     \* per worker: it has an observation to hand over
    returned,      \* workers that have returned
    results,       \* the channel of observations
    resultsClosed,
    found,         \* what the collector has
    scanEnded,     \* Discover has returned
    scanCancelled, \* the context has ended
    answered       \* history: what a probe found

lanVars == <<scanTargets, unsent, jobsClosed, probing, reporting, returned, results,
             resultsClosed, found, scanEnded, scanCancelled, answered>>

Masked(address, bits) == FirstOf(address, TwoTo[AddressBits - bits])

(* Faulty: the broadcast address is scanned too. *)
ExpandPrefixToEnd(address, bits) ==
    LET hostBits == AddressBits - bits
    IN  IF hostBits > MaxHostBits THEN {}
        ELSE {Masked(address, bits) + i : i \in 1 .. TwoTo[hostBits] - 1}

(* expandPrefix: the loop runs over indices 1 .. limit - 2 and stops when it    *)
(* leaves the prefix.                                                           *)
ExpandPrefix(address, bits) ==
    LET hostBits == AddressBits - bits
        limit == IF TwoTo[hostBits] < MaxHosts THEN TwoTo[hostBits] ELSE MaxHosts
        base == Masked(address, bits)
    IN  IF hostBits > MaxHostBits THEN {}
        ELSE {a \in {base + i : i \in 1 .. limit - 2} : Masked(a, bits) = base}

(* A CIDR that does not parse yields nothing. *)
ScanJobs(rows) ==
    {job \in Targets \X (0 .. TwoTo[AddressBits] - 1) :
        LET row == rows[job[1]]
        IN  row.enabled /\ row.valid /\ job[2] \in ExpandPrefix(row.address, row.bits)}

TargetRow == [enabled : BOOLEAN, valid : BOOLEAN,
              address : 0 .. TwoTo[AddressBits] - 1, bits : 0 .. AddressBits]

LanStart(rows) ==
    /\ scanTargets = rows
    /\ unsent = ScanJobs(rows)
    /\ jobsClosed = FALSE
    /\ probing = [w \in Workers |-> NoAddress]
    /\ reporting = [w \in Workers |-> FALSE]
    /\ returned = {}
    /\ results = <<>>
    /\ resultsClosed = FALSE
    /\ found = <<>>
    /\ scanEnded = FALSE
    /\ scanCancelled = FALSE
    /\ answered = {}

(* No scan is running. *)
LanRest ==
    /\ scanTargets = [t \in Targets |-> [enabled |-> FALSE, valid |-> TRUE, address |-> 0, bits |-> 0]]
    /\ unsent = {} /\ answered = {}
    /\ jobsClosed = TRUE /\ resultsClosed = TRUE /\ scanEnded = TRUE
    /\ probing = [w \in Workers |-> NoAddress]
    /\ reporting = [w \in Workers |-> FALSE]
    /\ returned = Workers
    /\ results = <<>> /\ found = <<>>
    /\ scanCancelled = FALSE

Free(w) == w \notin returned /\ probing[w] = NoAddress

HandOver(w) ==
    /\ ~jobsClosed
    /\ Free(w)
    /\ \E job \in unsent :
          /\ probing' = [probing EXCEPT ![w] = job]
          /\ unsent' = unsent \ {job}
    /\ UNCHANGED <<scanTargets, jobsClosed, reporting, returned, results, resultsClosed,
                   found, scanEnded, scanCancelled, answered>>

(* Faulty: a producer that stops at the end of the context leaves jobs open.    *)
CloseJobsAtEnd ==
    /\ ~jobsClosed
    /\ unsent = {} /\ ~scanCancelled
    /\ jobsClosed' = TRUE
    /\ UNCHANGED <<scanTargets, unsent, probing, reporting, returned, results, resultsClosed,
                   found, scanEnded, scanCancelled, answered>>

(* The producer is through, or chooses the end of the context in its select.    *)
CloseJobs ==
    /\ ~jobsClosed
    /\ unsent = {} \/ scanCancelled
    /\ jobsClosed' = TRUE
    /\ UNCHANGED <<scanTargets, unsent, probing, reporting, returned, results, resultsClosed,
                   found, scanEnded, scanCancelled, answered>>

(* Faulty: a host that does not answer is tried again.                          *)
ProbeHostAgain(w) ==
    /\ probing[w] # NoAddress /\ ~reporting[w]
    /\ \/ /\ reporting' = [reporting EXCEPT ![w] = TRUE]
          /\ answered' = answered \cup {probing[w]}
          /\ UNCHANGED <<probing, unsent>>
       \/ /\ probing' = [probing EXCEPT ![w] = NoAddress]
          /\ unsent' = unsent \cup {probing[w]}
          /\ UNCHANGED <<reporting, answered>>
    /\ UNCHANGED <<scanTargets, jobsClosed, returned, results, resultsClosed,
                   found, scanEnded, scanCancelled>>

ProbeHost(w) ==
    /\ probing[w] # NoAddress /\ ~reporting[w]
    /\ \/ /\ reporting' = [reporting EXCEPT ![w] = TRUE]
          /\ answered' = answered \cup {probing[w]}
          /\ UNCHANGED probing
       \/ /\ probing' = [probing EXCEPT ![w] = NoAddress]
          /\ UNCHANGED <<reporting, answered>>
    /\ UNCHANGED <<scanTargets, unsent, jobsClosed, returned, results, resultsClosed,
                   found, scanEnded, scanCancelled>>

Report(w) ==
    /\ reporting[w]
    /\ Len(results) < Cardinality(Workers)
    /\ results' = Append(results, probing[w])
    /\ probing' = [probing EXCEPT ![w] = NoAddress]
    /\ reporting' = [reporting EXCEPT ![w] = FALSE]
    /\ UNCHANGED <<scanTargets, unsent, jobsClosed, returned, resultsClosed, found,
                   scanEnded, scanCancelled, answered>>

(* Faulty: a worker that has no work returns while its peers still report.      *)
WorkerReturnsEarly(w) ==
    /\ w \notin returned
    /\ jobsClosed \/ scanCancelled
    /\ returned' = returned \cup {w}
    /\ UNCHANGED <<scanTargets, unsent, jobsClosed, probing, reporting, results,
                   resultsClosed, found, scanEnded, scanCancelled, answered>>

(* A worker returns when jobs is closed, or drops what it has when the context  *)
(* has ended, which the select may choose although the channel has room.        *)
WorkerReturns(w) ==
    /\ w \notin returned
    /\ (jobsClosed /\ Free(w)) \/ (scanCancelled /\ reporting[w])
    /\ returned' = returned \cup {w}
    /\ probing' = [probing EXCEPT ![w] = NoAddress]
    /\ reporting' = [reporting EXCEPT ![w] = FALSE]
    /\ UNCHANGED <<scanTargets, unsent, jobsClosed, results, resultsClosed, found,
                   scanEnded, scanCancelled, answered>>

CloseResults ==
    /\ returned = Workers /\ ~resultsClosed
    /\ resultsClosed' = TRUE
    /\ UNCHANGED <<scanTargets, unsent, jobsClosed, probing, reporting, returned, results,
                   found, scanEnded, scanCancelled, answered>>

Collect ==
    /\ results # <<>>
    /\ found' = Append(found, Head(results))
    /\ results' = Tail(results)
    /\ UNCHANGED <<scanTargets, unsent, jobsClosed, probing, reporting, returned,
                   resultsClosed, scanEnded, scanCancelled, answered>>

DiscoverReturns ==
    /\ resultsClosed /\ results = <<>> /\ ~scanEnded
    /\ scanEnded' = TRUE
    /\ UNCHANGED <<scanTargets, unsent, jobsClosed, probing, reporting, returned, results,
                   resultsClosed, found, scanCancelled, answered>>

CancelScan ==
    /\ ~scanCancelled /\ ~scanEnded
    /\ scanCancelled' = TRUE
    /\ UNCHANGED <<scanTargets, unsent, jobsClosed, probing, reporting, returned, results,
                   resultsClosed, found, scanEnded, answered>>

WorkerStep(w) == HandOver(w) \/ ProbeHost(w) \/ Report(w) \/ WorkerReturns(w)
GoroutineStep == CloseJobs \/ CloseResults \/ Collect \/ DiscoverReturns

LanNext == (\E w \in Workers : WorkerStep(w)) \/ GoroutineStep \/ CancelScan

LanInit == LanRest \/ \E rows \in [Targets -> TargetRow] : LanStart(rows)

LanSpec == LanInit /\ [][LanNext]_lanVars

LanFairness ==
    /\ \A w \in Workers : WF_lanVars(WorkerStep(w))
    /\ WF_lanVars(GoroutineStep)

-----------------------------------------------------------------------------
Found == {found[i] : i \in DOMAIN found}

(* A scan that was not cancelled has probed every address of every enabled      *)
(* target, and returns exactly what answered, each answer once; a cancelled one *)
(* returns part of it.  No worker is left with an observation that has no       *)
(* channel to go to.                                                            *)
ScanComplete ==
    /\ resultsClosed => \A w \in Workers : ~reporting[w] /\ probing[w] = NoAddress
    /\ Cardinality(Found) = Len(found)
    /\ Found \subseteq answered
    /\ (scanEnded /\ ~scanCancelled) => (unsent = {} /\ Found = answered)

(* expandPrefix yields the usable hosts of a prefix, all but the network and    *)
(* the broadcast address, for every prefix that is not too large.  A /31 and a  *)
(* /32 yield nothing, although the topology counts two hosts and one in them.   *)
ScansUsableHosts ==
    \A t \in Targets :
        LET row == scanTargets[t]
            size == TwoTo[AddressBits - row.bits]
            base == Masked(row.address, row.bits)
        IN  (AddressBits - row.bits <= MaxHostBits) =>
                ExpandPrefix(row.address, row.bits) = base + 1 .. base + size - 2

(* What a scan has still to do: an address is handed over, probed, reported and *)
(* collected, a worker returns, the channels are closed, the context ends.      *)
UnderProbe == {w \in Workers : probing[w] # NoAddress /\ ~reporting[w]}
WithAnswer == {w \in Workers : reporting[w]}
Undone(flag) == IF flag THEN 0 ELSE 1
StepsLeft ==
    4 * Cardinality(unsent) + 3 * Cardinality(UnderProbe) + 2 * Cardinality(WithAnswer)
        + Len(results) + Cardinality(Workers \ returned)
        + Undone(jobsClosed) + Undone(resultsClosed) + Undone(scanEnded) + Undone(scanCancelled)

(* No goroutine spins, and no address goes round: however they interleave and   *)
(* whenever the context ends, each step leaves a scan less to do, so that every *)
(* scan comes to rest within StepsLeft steps from its start.                    *)
ScanMovesOn == [][StepsLeft' < StepsLeft]_lanVars

(* The goroutines together do what one sweep over the addresses promises: none  *)
(* is probed twice, what is returned is what answered, and nothing is probed    *)
(* once Discover has returned.                                                  *)
Sweep == INSTANCE HostSweep WITH
    asked <- ScanJobs(scanTargets),
    probed <- ScanJobs(scanTargets) \ (unsent \cup {probing[w] : w \in UnderProbe}),
    answering <- answered,
    outcome <- IF scanEnded THEN Found ELSE {},
    over <- scanEnded,
    cancelled <- scanCancelled

SweepsOnce == Sweep!Sweeps

(* Discover returns, cancelled or not, although its goroutines wait for one     *)
(* another: workers for the producer and the collector, the closer for workers. *)
ScanReturns == <>scanEnded
=============================================================================
