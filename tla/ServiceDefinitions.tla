------------------------- MODULE ServiceDefinitions -------------------------
(* Service definitions and the checks they manage: the requests that save,      *)
(* delete and reapply definitions and the fingerprinting job (                  *)
(* app/service_definitions.go), with the users who edit services and checks     *)
(* meanwhile.  Between the list a loop works through and what it writes about   *)
(* one entry lie HTTP fetches of up to two seconds each.                        *)
(* What a definition matches is not kept: a fetch may find any page, so that    *)
(* the best match is any enabled definition or none.  Its check templates are   *)
(* an edition: how often it has been saved or deleted.  A built-in definition   *)
(* is one that nobody edits; no template is marked as a user's own.             *)
EXTENDS Integers, FiniteSets

CONSTANTS
    Definitions,  \* ids of service_definitions
    Fallback,     \* no definition: service_definition_id is NULL
    Registered,   \* ids of services
    Found,        \* ids of discovered_services, none of which is deleted
    Appliers,     \* requests and jobs that may overlap
    Nothing,      \* no subject
    MaxEdits      \* bound: how many of them are begun and how often users edit

ASSUME DefinitionsAssumption ==
    Fallback \notin Definitions /\ Registered \cap Found = {} /\ Nothing \notin Registered \cup Found

VARIABLES
    definitions,  \* service_definitions: from ids to enabled
    edition,      \* service_definition_check_templates, by definition: which
    labels,       \* services and discovered_services: from ids to
                  \* health_config_mode and service_definition_id
    managed,      \* health_checks without those of users, by subject: what they were made from
    own,          \* those of users, likewise
    appliers,
    cutShort,     \* history: subjects whose row is written and whose checks never were
    outdated,     \* history: subjects left with the checks of an earlier edition
    edits

definitionVars == <<definitions, edition, labels, managed, own, appliers, cutShort, outdated, edits>>

Subjects == Registered \cup Found
Targets == Definitions \cup {Fallback}
Resting == [at |-> "resting", list |-> {}, known |-> {}, subject |-> Nothing, plan |-> Nothing, next |-> "resting"]

DefinitionsInit ==
    /\ definitions = [d \in {} |-> TRUE]
    /\ edition = [d \in Targets |-> 0]
    /\ labels = [x \in Found |-> [mode |-> "auto", definition |-> Fallback]]
    /\ managed = [x \in Subjects |-> {}]
    /\ own = [x \in Subjects |-> {}]
    /\ appliers = [a \in Appliers |-> Resting]
    /\ cutShort = {} /\ outdated = {}
    /\ edits = 0

Edit == edits < MaxEdits /\ edits' = edits + 1

Labelled(rows, x, mode, d) ==
    [y \in DOMAIN rows \cup {x} |-> IF y = x THEN [mode |-> mode, definition |-> d] ELSE rows[y]]

(* UPDATE services SET health_config_mode = 'custom'; there may be no row. *)
Custom(s) == [y \in DOMAIN labels |-> IF y = s THEN [labels[y] EXCEPT !.mode = "custom"] ELSE labels[y]]

(* InstantiateChecks, and the fallback check, which has one edition. *)
ChecksOf(d) == [of |-> d, edition |-> edition[d]]
UpToDate(checks) == \A c \in checks : c = ChecksOf(c.of)

(* ensureDefaultCheckTx *)
WithDefault(s) ==
    IF managed[s] \cup own[s] = {} THEN [managed EXCEPT ![s] = {ChecksOf(Fallback)}] ELSE managed

Turns(a, fields) == appliers' = [appliers EXCEPT ![a] = fields]
Enabled == {d \in DOMAIN definitions : definitions[d]}

-----------------------------------------------------------------------------
(* Requests and the job begin *)

(* The templates are deleted and inserted again. *)
SaveServiceDefinition(a, d, enabled) ==
    /\ Edit /\ appliers[a].at = "resting"
    /\ definitions' = [e \in DOMAIN definitions \cup {d} |-> IF e = d THEN enabled ELSE definitions[e]]
    /\ edition' = [edition EXCEPT ![d] = @ + 1]
    /\ Turns(a, [Resting EXCEPT !.at = "listing"])
    /\ UNCHANGED <<labels, managed, own, cutShort, outdated>>

DeleteServiceDefinition(a, d) ==
    /\ Edit /\ appliers[a].at = "resting"
    /\ definitions' = [e \in DOMAIN definitions \ {d} |-> definitions[e]]
    /\ edition' = [edition EXCEPT ![d] = @ + 1]
    /\ Turns(a, [Resting EXCEPT !.at = "listing"])
    /\ UNCHANGED <<labels, managed, own, cutShort, outdated>>

ReapplyServiceDefinition(a) ==
    /\ Edit /\ appliers[a].at = "resting"
    /\ Turns(a, [Resting EXCEPT !.at = "listing"])
    /\ UNCHANGED <<definitions, edition, labels, managed, own, cutShort, outdated>>

(* The job looks at discovered services only: no service is on its list. *)
RunFingerprinting(a) ==
    /\ Edit /\ appliers[a].at = "resting"
    /\ Turns(a, [Resting EXCEPT !.at = "services"])
    /\ UNCHANGED <<definitions, edition, labels, managed, own, cutShort, outdated>>

(* A user saves a service, under whatever definition and mode the page shows. *)
SaveService(a, s, mode, d) ==
    /\ Edit /\ appliers[a].at = "resting"
    /\ labels' = Labelled(labels, s, mode, d)
    /\ managed' = WithDefault(s)
    /\ Turns(a, [Resting EXCEPT !.at = "reading back", !.subject = s])
    /\ UNCHANGED <<definitions, edition, own, cutShort, outdated>>

-----------------------------------------------------------------------------
(* reapplyServiceDefinitions and applyBestDefinitionToService *)

ListServices(a) ==
    /\ appliers[a].at = "listing"
    /\ Turns(a, [appliers[a] EXCEPT !.at = "services",
                                   !.list = {s \in DOMAIN labels \cap Registered : labels[s].mode = "auto"}])
    /\ UNCHANGED <<definitions, edition, labels, managed, own, cutShort, outdated, edits>>

(* A service that is custom when it is read back is left alone; one that is     *)
(* gone ends the request, like every error (CutShort).                          *)
ReadBack(a) ==
    LET s == appliers[a].subject
    IN  /\ appliers[a].at = "reading back" /\ s \in DOMAIN labels
        /\ Turns(a, IF labels[s].mode = "custom" THEN Resting ELSE [appliers[a] EXCEPT !.at = "applying"])
        /\ UNCHANGED <<definitions, edition, labels, managed, own, cutShort, outdated, edits>>

(* The definitions are listed and the page is fetched.  Without a match nothing *)
(* is written back.                                                             *)
MatchService(a, s, match) ==
    /\ \/ appliers[a].at = "services" /\ s \in appliers[a].list
       \/ appliers[a].at = "applying" /\ s = appliers[a].subject
    /\ match \in Enabled \cup {Fallback}
    /\ Turns(a, [appliers[a] EXCEPT !.at = IF match = Fallback THEN "written" ELSE "matched",
                                   !.list = @ \ {s}, !.subject = s, !.plan = match,
                                   !.next = IF appliers[a].at = "services" THEN "services" ELSE "resting"])
    /\ UNCHANGED <<definitions, edition, labels, managed, own, cutShort, outdated, edits>>

(* The copy read before the fetch, which was "auto", is saved with the match. *)
WriteBack(a) ==
    LET s == appliers[a].subject
    IN  /\ appliers[a].at = "matched"
        /\ labels' = Labelled(labels, s, "auto", appliers[a].plan)
        /\ managed' = WithDefault(s)
        /\ Turns(a, [appliers[a] EXCEPT !.at = "written"])
        /\ UNCHANGED <<definitions, edition, own, cutShort, outdated, edits>>

-----------------------------------------------------------------------------
(* refreshDiscoveredServiceDefinitions and ApplyDiscoveredServiceDefinition *)

ListFound(a) ==
    /\ appliers[a].at = "services" /\ appliers[a].list = {}
    /\ Turns(a, [Resting EXCEPT !.at = "found", !.list = Found, !.known = Enabled])
    /\ UNCHANGED <<definitions, edition, labels, managed, own, cutShort, outdated, edits>>

(* Without a match the definition is cleared. *)
ApplyDiscovered(a, x, match) ==
    /\ appliers[a].at = "found" /\ x \in appliers[a].list
    /\ match \in appliers[a].known \cup {Fallback}
    /\ labels' = Labelled(labels, x, labels[x].mode, match)
    /\ Turns(a, [appliers[a] EXCEPT !.at = "written", !.list = @ \ {x}, !.subject = x, !.next = "found"])
    /\ UNCHANGED <<definitions, edition, managed, own, cutShort, outdated, edits>>

(* An accepted one is left out; so nothing more may be left to do. *)
Skip(a, x) ==
    /\ appliers[a].at = "found" /\ x \in appliers[a].list
    /\ Turns(a, [appliers[a] EXCEPT !.list = @ \ {x}])
    /\ outdated' = IF UpToDate(managed[x]) THEN outdated ELSE outdated \cup {x}
    /\ UNCHANGED <<definitions, edition, labels, managed, own, cutShort, edits>>

AllDone(a) ==
    /\ appliers[a].at = "found" /\ appliers[a].list = {}
    /\ Turns(a, Resting)
    /\ UNCHANGED <<definitions, edition, labels, managed, own, cutShort, outdated, edits>>

-----------------------------------------------------------------------------
(* SyncServiceHealthChecks and SyncDiscoveredServiceHealthChecks *)

Onward(w) == [w EXCEPT !.at = w.next, !.subject = Nothing, !.plan = Nothing, !.next = "resting"]

ReadSubject(a) ==
    LET x == appliers[a].subject
    IN  /\ appliers[a].at = "written" /\ x \in DOMAIN labels
        /\ Turns(a, IF labels[x].mode = "custom" THEN Onward(appliers[a])
                   ELSE [appliers[a] EXCEPT !.at = "read", !.plan = labels[x].definition])
        /\ UNCHANGED <<definitions, edition, labels, managed, own, cutShort, outdated, edits>>

(* A disabled definition is listed like any other.  The checks are made here,   *)
(* before the transaction that writes them.                                     *)
FindDefinition(a) ==
    /\ appliers[a].at = "read"
    /\ Turns(a, [appliers[a] EXCEPT !.at = "replacing",
                                   !.plan = ChecksOf(IF @ \in DOMAIN definitions THEN @ ELSE Fallback)])
    /\ UNCHANGED <<definitions, edition, labels, managed, own, cutShort, outdated, edits>>

(* Faulty: the row is left as it is. *)
RowLeft(x, d) == labels

(* The checks are replaced and the row names what they are of; it may be gone. *)
Replaced(x, d) == IF x \in DOMAIN labels THEN Labelled(labels, x, "auto", d) ELSE labels

(* The index on targets: a check of a user's own makes the transaction fail.    *)
(* The definition may have been edited since, and the checks be late.           *)
ReplaceManagedChecks(a) ==
    LET x == appliers[a].subject
        checks == appliers[a].plan
    IN  /\ appliers[a].at = "replacing" /\ checks \notin own[x]
        /\ managed' = [managed EXCEPT ![x] = {checks}]
        /\ labels' = Replaced(x, checks.of)
        /\ cutShort' = cutShort \ {x}
        /\ outdated' = IF UpToDate({checks}) THEN outdated \ {x} ELSE outdated \cup {x}
        /\ Turns(a, Onward(appliers[a]))
        /\ UNCHANGED <<definitions, edition, own, edits>>

(* The row has been written and the checks have not. *)
HalfDone(a, x) ==
    /\ appliers[a].subject = x
    /\ \/ appliers[a].at \in {"reading back", "applying", "written", "read", "replacing"}
       \/ appliers[a].at = "matched" /\ appliers[a].next = "resting"

(* The applier has yet to reach the subject, or is about it. *)
ToDo(a, x) ==
    \/ appliers[a].at = "listing" \/ x \in appliers[a].list \/ x = appliers[a].subject
    \/ x \in Found /\ "services" \in {appliers[a].at, appliers[a].next}

(* An error of any call, the first of which ends the whole loop; the client     *)
(* goes away; the process stops.                                                *)
CutShort(a) ==
    /\ appliers[a].at # "resting"
    /\ cutShort' = cutShort \cup {x \in Subjects : HalfDone(a, x)}
    /\ outdated' = outdated \cup {x \in Subjects : ToDo(a, x) /\ ~UpToDate(managed[x])}
    /\ Turns(a, Resting)
    /\ UNCHANGED <<definitions, edition, labels, managed, own, edits>>

-----------------------------------------------------------------------------
(* Users *)

(* A new check, or a managed one that is edited: it is still managed if the     *)
(* page sends its config_source along, as HomelabWatch's own does.              *)
SaveServiceCheck(s, target, keep) ==
    /\ Edit /\ target \notin own[s]
    /\ IF target \in managed[s] /\ keep THEN UNCHANGED <<managed, own>>
       ELSE /\ own' = [own EXCEPT ![s] = @ \cup {target}]
            /\ managed' = [managed EXCEPT ![s] = @ \ {target}]
    /\ labels' = Custom(s)
    /\ UNCHANGED <<definitions, edition, appliers, cutShort, outdated>>

DeleteServiceCheck(s, target) ==
    /\ Edit /\ target \in own[s] \cup managed[s]
    /\ own' = [own EXCEPT ![s] = @ \ {target}]
    /\ managed' = [managed EXCEPT ![s] = @ \ {target}]
    /\ labels' = Custom(s)
    /\ UNCHANGED <<definitions, edition, appliers, cutShort, outdated>>

RemoveService(s) ==
    /\ Edit /\ s \in DOMAIN labels
    /\ labels' = [y \in DOMAIN labels \ {s} |-> labels[y]]
    /\ UNCHANGED <<definitions, edition, managed, own, appliers, cutShort, outdated>>

(* CopyDiscoveredChecksToService, of an acceptance: what a discovered service   *)
(* has, half done, outdated or neither, is what the service gets.               *)
CopyDiscoveredChecks(x, s) ==
    /\ Edit /\ s \in DOMAIN labels /\ managed[x] \cap own[s] = {}
    /\ managed' = [managed EXCEPT ![s] = managed[x]]
    /\ labels' = [labels EXCEPT ![s] = labels[x]]
    /\ cutShort' = IF x \in cutShort \/ \E a \in Appliers : HalfDone(a, x)
                      THEN cutShort \cup {s} ELSE cutShort \ {s}
    /\ outdated' = IF UpToDate(managed[x]) THEN outdated \ {s} ELSE outdated \cup {s}
    /\ UNCHANGED <<definitions, edition, own, appliers>>

-----------------------------------------------------------------------------
ApplierStep(a) ==
    \/ ListServices(a) \/ ReadBack(a) \/ WriteBack(a) \/ ListFound(a) \/ AllDone(a)
    \/ \E s \in Registered, match \in Targets : MatchService(a, s, match)
    \/ \E x \in Found, match \in Targets : ApplyDiscovered(a, x, match)
    \/ \E x \in Found : Skip(a, x)
    \/ ReadSubject(a) \/ FindDefinition(a) \/ ReplaceManagedChecks(a) \/ CutShort(a)

Begin(a) ==
    \/ \E d \in Definitions, enabled \in BOOLEAN : SaveServiceDefinition(a, d, enabled)
    \/ \E d \in Definitions : DeleteServiceDefinition(a, d)
    \/ ReapplyServiceDefinition(a)
    \/ RunFingerprinting(a)
    \/ \E s \in Registered, mode \in {"auto", "custom"}, d \in Targets : SaveService(a, s, mode, d)

(* What the user's page can name: what is there, and what might be. *)
Checkable(s) == managed[s] \cup own[s] \cup {ChecksOf(d) : d \in Targets}

UserStep ==
    \E s \in Registered :
        \/ \E target \in Checkable(s), keep \in BOOLEAN : SaveServiceCheck(s, target, keep)
        \/ \E target \in Checkable(s) : DeleteServiceCheck(s, target)
        \/ RemoveService(s)
        \/ \E x \in Found : CopyDiscoveredChecks(x, s)

DefinitionsNext == (\E a \in Appliers : ApplierStep(a) \/ Begin(a)) \/ UserStep

DefinitionsSpec == DefinitionsInit /\ [][DefinitionsNext]_definitionVars

-----------------------------------------------------------------------------
(* The checks of a subject are those of the definition its row names. *)
Agrees(x) ==
    IF managed[x] = {} THEN labels[x].definition = Fallback
    ELSE \A c \in managed[x] : c.of = labels[x].definition

(* Whatever overlaps, and whatever was edited or deleted during the fetches: a  *)
(* service that is managed automatically has the checks of the definition it    *)
(* shows, unless somebody is about to replace them or was cut short before he   *)
(* did; and they are made from the templates that the definition has now,       *)
(* unless somebody has yet to reach it, broke off or left it out before he did, *)
(* or wrote what he had read before the edit.  The row is written in one        *)
(* transaction, the checks in a later one, the definition is looked up again in *)
(* between, and it is for whoever saved or deleted it to reach every service.   *)
ChecksFollowDefinition ==
    \A x \in DOMAIN labels : labels[x].mode = "auto" =>
        /\ x \in cutShort \/ (\E a \in Appliers : HalfDone(a, x)) \/ Agrees(x)
        /\ x \in outdated \/ (\E a \in Appliers : ToDo(a, x)) \/ UpToDate(managed[x])
=============================================================================
