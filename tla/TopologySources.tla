-------------------------- MODULE TopologySources --------------------------
(* The SNMP sources of the topology: runTopologyDiscovery of app/app.go on the  *)
(* worker and by hand, AutoDiscoverTopologySources, and the tables of           *)
(* store/sqlite/topology.go.  A run lists the sources, polls them one by one    *)
(* for seconds, and then stores what each has answered and its status, in two   *)
(* statements, for sources that may have been edited or deleted meanwhile.      *)
EXTENDS Naturals, FiniteSets

CONSTANTS
    SourceIds,      \* ids of sources users add
    Agents,         \* addresses
    Worker, ByHand, \* the runs: the scheduler's job, one at a time, and a request
    Nothing,
    MaxChanges      \* bound: what users and the network do in a behaviour

Pollers == {Worker, ByHand}

VARIABLES
    sources,   \* topology_sources: from ids to address and enabled
    observed,  \* topology_interfaces and the links: by source, whose they are
    lastError, \* the sources whose last_error is set
    polls,     \* per runner: how far it is and what it has left
    down,      \* agents that do not answer
    changes

sourceVars == <<sources, observed, lastError, polls, down, changes>>

Asleep == [at |-> "waiting", left |-> <<>>, known |-> {}, stored |-> Nothing]

SourcesInit ==
    /\ sources = <<>> /\ observed = <<>> /\ lastError = {}
    /\ polls = [r \in Pollers |-> Asleep]
    /\ down = {} /\ changes = 0

SourcesRest == SourcesInit

Entry(f, k, v) == [x \in DOMAIN f \cup {k} |-> IF x = k THEN v ELSE f[x]]
Less(f, k) == [x \in DOMAIN f \ {k} |-> f[x]]

(* The id of a source that auto-discovery adds is made of its address. *)
UserId(s) == <<"user", s>>
ProbeId(a) == <<"probe", a>>
AllIds == {UserId(s) : s \in SourceIds} \cup {ProbeId(a) : a \in Agents}

Change == changes < MaxChanges /\ changes' = changes + 1

SaveTopologySource(s, a, enabled) ==
    /\ s \in {UserId(u) : u \in SourceIds} \cup DOMAIN sources
    /\ Change
    /\ sources' = Entry(sources, s, [address |-> a, enabled |-> enabled])
    /\ observed' = IF s \in DOMAIN sources THEN observed ELSE Entry(observed, s, Nothing)
    /\ UNCHANGED <<lastError, polls, down>>

(* ON DELETE CASCADE *)
DeleteTopologySource(s) ==
    /\ s \in DOMAIN sources
    /\ Change
    /\ sources' = Less(sources, s)
    /\ observed' = Less(observed, s)
    /\ lastError' = lastError \ {s}
    /\ UNCHANGED <<polls, down>>

AgentFails(a) == Change /\ down' = down \cup {a} /\ UNCHANGED <<sources, observed, lastError, polls>>
AgentAnswers(a) == Change /\ down' = down \ {a} /\ UNCHANGED <<sources, observed, lastError, polls>>

Progress(r, at, left) ==
    polls' = [polls EXCEPT ![r].at = at, ![r].left = left]

(* AutoDiscoverTopologySources, before a run by hand: the addresses there are   *)
(* sources for are listed first, the others probed and saved one after another, *)
(* over a source of that id which was edited to another address.                *)
BeginAutoDiscovery ==
    /\ polls[ByHand].at = "waiting"
    /\ Change
    /\ polls' = [polls EXCEPT ![ByHand].at = "probing",
                              ![ByHand].known = {sources[s].address : s \in DOMAIN sources}]
    /\ UNCHANGED <<sources, observed, lastError, down>>

AddProbed(a) ==
    /\ polls[ByHand].at = "probing" /\ a \notin polls[ByHand].known
    /\ polls' = [polls EXCEPT ![ByHand].known = @ \cup {a}]
    /\ IF a \in down THEN UNCHANGED <<sources, observed>>
       ELSE /\ sources' = Entry(sources, ProbeId(a), [address |-> a, enabled |-> TRUE])
            /\ observed' = IF ProbeId(a) \in DOMAIN sources THEN observed
                           ELSE Entry(observed, ProbeId(a), Nothing)
    /\ UNCHANGED <<lastError, down, changes>>

(* ListTopologySourcesForDiscovery; sources that are off are not polled. *)
ListSources(r) ==
    /\ IF r = Worker THEN polls[r].at = "waiting"
       ELSE polls[r].at = "probing" /\ polls[r].known = Agents
    /\ Progress(r, "listed", [s \in {s \in DOMAIN sources : sources[s].enabled} |-> sources[s].address])
    /\ UNCHANGED <<sources, observed, lastError, down, changes>>

(* The answers of all sources are in before the first is stored. *)
PollSources(r) ==
    /\ polls[r].at = "listed"
    /\ Progress(r, "storing", [s \in DOMAIN polls[r].left |->
                                  IF polls[r].left[s] \in down THEN Nothing ELSE polls[r].left[s]])
    /\ UNCHANGED <<sources, observed, lastError, down, changes>>

(* Faulty: a source that has failed ends the run. *)
StopAtError(r, s) ==
    /\ polls[r].left[s] = Nothing
    /\ lastError' = lastError \cup ({s} \cap DOMAIN sources)
    /\ Progress(r, "waiting", <<>>)
    /\ UNCHANGED <<sources, observed, down, changes>>

(* UpdateTopologySourceStatus, which updates no row of a deleted source. *)
StoreFailure(r, s) ==
    /\ polls[r].left[s] = Nothing
    /\ lastError' = lastError \cup ({s} \cap DOMAIN sources)
    /\ Progress(r, "storing", Less(polls[r].left, s))
    /\ UNCHANGED <<sources, observed, down, changes>>

(* ReplaceTopologyObservations; the foreign key fails for a deleted source, and *)
(* the run goes on to the next.                                                 *)
StoreObservations(r, s) ==
    /\ polls[r].left[s] # Nothing
    /\ IF s \in DOMAIN sources
          THEN /\ observed' = [observed EXCEPT ![s] = polls[r].left[s]]
               /\ polls' = [polls EXCEPT ![r].at = "stored", ![r].stored = s]
          ELSE /\ Progress(r, "storing", Less(polls[r].left, s))
               /\ UNCHANGED observed
    /\ UNCHANGED <<sources, lastError, down, changes>>

StampSuccess(r) ==
    /\ polls[r].at = "stored"
    /\ lastError' = lastError \ {polls[r].stored}
    /\ polls' = [polls EXCEPT ![r].at = "storing", ![r].stored = Nothing,
                              ![r].left = Less(@, polls[r].stored)]
    /\ UNCHANGED <<sources, observed, down, changes>>

(* A statement fails: observations are rolled back and the error is noted       *)
(* instead, unless that fails as well; the error of a status is ignored.  The   *)
(* run goes on to the next source.                                              *)
StatementFails(r) ==
    /\ Change
    /\ \/ /\ polls[r].at = "storing"
          /\ \E s \in DOMAIN polls[r].left :
                /\ Progress(r, "storing", Less(polls[r].left, s))
                /\ \/ UNCHANGED lastError
                   \/ polls[r].left[s] # Nothing /\ lastError' = lastError \cup ({s} \cap DOMAIN sources)
       \/ /\ polls[r].at = "stored" /\ UNCHANGED lastError
          /\ polls' = [polls EXCEPT ![r].at = "storing", ![r].stored = Nothing,
                                    ![r].left = Less(@, polls[r].stored)]
    /\ UNCHANGED <<sources, observed, down>>

EndPoll(r) ==
    /\ polls[r].at = "storing" /\ polls[r].left = <<>>
    /\ polls' = [polls EXCEPT ![r] = Asleep]
    /\ UNCHANGED <<sources, observed, lastError, down, changes>>

(* The client of a run by hand goes away, or the process stops. *)
PollCancelled ==
    /\ Change
    /\ \E gone \in {{ByHand}, Pollers} :
          /\ \E r \in gone : polls[r] # Asleep
          /\ polls' = [r \in Pollers |-> IF r \in gone THEN Asleep ELSE polls[r]]
    /\ UNCHANGED <<sources, observed, lastError, down>>

RunnerStep(r) ==
    \/ ListSources(r) \/ PollSources(r) \/ StampSuccess(r) \/ EndPoll(r)
    \/ /\ polls[r].at = "storing"
       /\ \E s \in DOMAIN polls[r].left : StoreFailure(r, s) \/ StoreObservations(r, s)
    \/ r = ByHand /\ \E a \in Agents : AddProbed(a)

SourcesNext ==
    \/ \E s \in AllIds, a \in Agents, enabled \in BOOLEAN : SaveTopologySource(s, a, enabled)
    \/ \E s \in AllIds : DeleteTopologySource(s)
    \/ \E a \in Agents : AgentFails(a) \/ AgentAnswers(a)
    \/ BeginAutoDiscovery \/ PollCancelled
    \/ \E r \in Pollers : RunnerStep(r) \/ StatementFails(r)

(* The scheduler starts its job again and again; a run by hand goes on once it  *)
(* has begun.                                                                   *)
SourcesFairness == \A r \in Pollers : WF_sourceVars(RunnerStep(r))

SourcesSpec == SourcesInit /\ [][SourcesNext]_sourceVars /\ SourcesFairness

-----------------------------------------------------------------------------
(* When users and agents come to rest, what is stored of a source whose agent   *)
(* answers is the answer of its present address and its error is cleared,       *)
(* whatever late answers for an address it had before, failures of other        *)
(* sources, failed statements and overlapping runs have left.                   *)
SourcesCatchUp ==
    \A s \in AllIds :
        <>[](s \in DOMAIN sources /\ sources[s].enabled /\ sources[s].address \notin down
                => observed[s] = sources[s].address /\ s \notin lastError)
=============================================================================
