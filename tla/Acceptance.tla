------------------------------ MODULE Acceptance ------------------------------
(***************************************************************************)
(* The promotion of discovered services to services with a bookmark:         *)
(* App.CreateBookmarkFromDiscoveredService, called by users (POST             *)
(* discovered-services/{id}/bookmark) and by the discovery jobs               *)
(* (processObservations), which all run concurrently.  It reads the discovered *)
(* service once and then takes up to seven transactions: insert the service,    *)
(* save it again with its definition, replace its checks, copy the checks of    *)
(* the discovered service, save the bookmark, link it, mark the discovered      *)
(* service as accepted.  Between any two of them everything else can happen:    *)
(* other acceptances, observations, users who ignore, restore and delete, the   *)
(* end of the request or of the process.                                      *)
(*                                                                         *)
(* The name of the new service is the one the user typed or the one the         *)
(* discovered service has by now; both are any of Names.  Events on the bus     *)
(* are left out.                                                             *)
(***************************************************************************)
EXTENDS DiscoveryStore

CONSTANTS
    Requests,     \* concurrent requests of users to accept a discovered service
    Jobs,         \* the discovery jobs: docker-sync, lan-scan
    MaxBreaks,    \* bound: so often a call fails or the process stops
    MaxEdited,    \* bound: so many services and bookmarks are edited at a time
    UserRows,     \* what users write of a service they edit
    UsersTriage,  \* whether users ignore and restore discovered services
    UsersEdit     \* whether users delete, bookmark and edit

ASSUME AcceptanceAssumption ==
    /\ Requests \cap Jobs = {}
    /\ MaxBreaks \in Nat /\ MaxEdited \in Nat
    /\ UserRows \subseteq
            [origin: Discovered \cup {None}, source: Origin, ref: Discovered \cup {None}]
    /\ UsersTriage \in BOOLEAN /\ UsersEdit \in BOOLEAN

VARIABLES
    work,     \* what each acceptor is doing, and what it has read so far
    breaks    \* how often a call has failed or the process has stopped

vars == <<tables, work, breaks>>

Acceptors == Requests \cup Jobs

Phase == {"idle", "observed", "inserting", "defining", "syncing", "copying",
          "bookmarking", "linking", "marking"}

Work ==
    [pc: Phase, item: Discovered \cup {None}, source: Origin, name: Names \cup {None},
     service: Services \cup {None}, created: BOOLEAN, bookmark: Bookmarks \cup {None}]

\* The type of every variable.
TypeOK ==
    /\ TablesTypeOK
    /\ work \in [Acceptors -> Work]
    /\ breaks \in 0..MaxBreaks

Resting ==
    [pc |-> "idle", item |-> None, source |-> "lan", name |-> None,
     service |-> None, created |-> FALSE, bookmark |-> None]

Init ==
    /\ TablesInit
    /\ work = [a \in Acceptors |-> Resting]
    /\ breaks = 0

FreeServices == {s \in Services : ~services[s].live /\ \A a \in Acceptors : work[a].service # s}
FreeBookmarks == {b \in Bookmarks : ~bookmarks[b].live /\ \A a \in Acceptors : work[a].bookmark # b}

Goes(a, pc) == work' = [work EXCEPT ![a].pc = pc]
Return(a)   == work' = [work EXCEPT ![a] = Resting]

\* A call fails: the database cannot write, or the context of the request has ended.
Breaks == breaks < MaxBreaks /\ breaks' = breaks + 1

-----------------------------------------------------------------------------
(* Users *)

IgnoreDiscoveredService(d)  == UsersTriage /\ IgnoreRow(d) /\ UNCHANGED <<work, breaks>>
RestoreDiscoveredService(d) == UsersTriage /\ RestoreRow(d) /\ UNCHANGED <<work, breaks>>

DeleteService(s) ==
    /\ UsersEdit /\ services[s].live
    /\ DeleteServiceRow(s)
    /\ UNCHANGED <<work, breaks>>

DeleteBookmark(b) == UsersEdit /\ DeleteBookmarkRow(b) /\ UNCHANGED <<work, breaks>>

CreateBookmarkFromService(s) ==
    /\ UsersEdit
    /\ \E b \in FreeBookmarks \cup BookmarksOf(s) : SaveBookmarkRow(b, s)
    /\ UNCHANGED <<work, breaks>>

Edited ==
    {s \in Services : services[s].edited} \cup {b \in Bookmarks : bookmarks[b].edited}

\* PATCH services/{id}: the row is what the body says, and what the body leaves out is
\* reset: source_type to "manual", source_ref to the id, the origin to NULL.
SaveService(s) ==
    /\ UsersEdit
    /\ \E row \in UserRows, name \in Names :
         EditServiceRow(s, row.origin, row.source, row.ref, name)
    /\ Cardinality(Edited') <= MaxEdited
    /\ UNCHANGED <<work, breaks>>

\* PUT and PATCH bookmarks/{id}: the bookmark is linked to any service, or to none.
PutBookmark(b) ==
    /\ UsersEdit
    /\ \E s \in Services \cup {None} : EditBookmarkRow(b, s)
    /\ Cardinality(Edited') <= MaxEdited
    /\ UNCHANGED <<work, breaks>>

-----------------------------------------------------------------------------
(* An acceptance *)

\* Faulty: the service counts as created by this acceptance in any case.
SnapshotAsCreated(d, name) ==
    [pc |-> IF discovered[d].service = None THEN "inserting" ELSE "bookmarking",
     item |-> d, source |-> PreferredDiscoverySource(d), name |-> name,
     service |-> discovered[d].service, created |-> TRUE, bookmark |-> None]

\* What it reads of the discovered service, and where it goes on: a service that an
\* earlier acceptance has made is used again.
Snapshot(d, name) ==
    [pc |-> IF discovered[d].service = None THEN "inserting" ELSE "bookmarking",
     item |-> d, source |-> PreferredDiscoverySource(d), name |-> name,
     service |-> discovered[d].service, created |-> FALSE, bookmark |-> None]

\* A user accepts a discovered service that has no bookmark yet; with one, the request
\* returns that.
RequestBookmark(a, d) ==
    /\ work[a].pc = "idle"
    /\ discovered[d].state # "absent" /\ discovered[d].bookmark = None
    /\ \E name \in Names : work' = [work EXCEPT ![a] = Snapshot(d, name)]
    /\ UNCHANGED <<tables, breaks>>

\* One round of the loop of processObservations, up to shouldAutoBookmark, which is asked
\* of the row as it has been reloaded and says yes of pending services only.
ProcessObservation(a, d) ==
    /\ work[a].pc = "idle"
    /\ \E source \in Sources, look \in Looks : ObserveRow(d, source, look)
    /\ work' = IF discovered'[d].state = "pending"
               THEN [work EXCEPT ![a] = [Resting EXCEPT !.pc = "observed", !.item = d]]
               ELSE work
    /\ UNCHANGED breaks

\* The job accepts it, whatever its state is when the acceptance reads it again.
AutoBookmark(a) ==
    LET d == work[a].item
    IN  /\ work[a].pc = "observed"
        /\ discovered[d].bookmark = None
        /\ \E name \in Names : work' = [work EXCEPT ![a] = Snapshot(d, name)]
        /\ UNCHANGED <<tables, breaks>>

\* The settings say no, or the service has a bookmark.
SkipObservation(a) ==
    /\ work[a].pc = "observed"
    /\ Return(a)
    /\ UNCHANGED <<tables, breaks>>

InsertService(a) ==
    LET w == work[a]
    IN  /\ w.pc = "inserting"
        /\ \E s \in FreeServices :
             /\ SaveServiceRow(s, w.item, w.source, w.name)
             /\ work' = [work EXCEPT ![a].pc = "defining", ![a].service = s]
        /\ UNCHANGED breaks

\* The insert fails at a unique index; there is nothing to undo.
FailToInsert(a) ==
    LET w == work[a]
    IN  /\ w.pc = "inserting"
        /\ Taken(None, w.item, w.source, w.name)
        /\ Return(a)
        /\ UNCHANGED <<tables, breaks>>

\* applyBestDefinitionToService, after the HTTP request: a definition matches and the
\* service that was read before is saved again, or none does.
ApplyDefinition(a) ==
    LET w == work[a]
    IN  /\ w.pc = "defining"
        /\ SaveServiceRow(w.service, w.item, w.source, w.name) \/ UNCHANGED tables
        /\ Goes(a, "syncing")
        /\ UNCHANGED breaks

\* Faulty: a matching definition has brought its checks, so none are copied.
SyncChecksOnly(a) ==
    /\ work[a].pc = "syncing" /\ services[work[a].service].live
    /\ work' = [work EXCEPT ![a].pc = "bookmarking", ![a].created = TRUE]
    /\ UNCHANGED <<tables, breaks>>

\* SyncServiceHealthChecks, with which SaveManualService of the App ends.
SyncChecks(a) ==
    /\ work[a].pc = "syncing" /\ services[work[a].service].live
    /\ work' = [work EXCEPT ![a].pc = "copying", ![a].created = TRUE]
    /\ UNCHANGED <<tables, breaks>>

\* SaveManualService of the App fails: the service has been deleted, or the second
\* save meets a unique index.  The acceptance returns without a roll-back.
FailToDefine(a) ==
    LET w == work[a]
    IN  /\ w.pc \in {"defining", "syncing"}
        /\ \/ ~services[w.service].live
           \/ w.pc = "defining" /\ Taken(w.service, w.item, w.source, w.name)
        /\ Return(a)
        /\ UNCHANGED <<tables, breaks>>

CopyChecks(a) ==
    /\ work[a].pc = "copying"
    /\ CopyChecksRow(work[a].service)
    /\ Goes(a, "bookmarking")
    /\ UNCHANGED breaks

SaveBookmark(a) ==
    /\ work[a].pc = "bookmarking"
    /\ \E b \in FreeBookmarks \cup BookmarksOf(work[a].service) :
         /\ SaveBookmarkRow(b, work[a].service)
         /\ work' = [work EXCEPT ![a].pc = "linking", ![a].bookmark = b]
    /\ UNCHANGED breaks

\* Deletes the service again, if this acceptance has created it, and returns.
RollBack(a) ==
    /\ IF work[a].created THEN DeleteServiceRow(work[a].service) ELSE UNCHANGED tables
    /\ Return(a)

\* The service has been deleted, or the bookmark between its save and its reload.
FailToBookmark(a) ==
    /\ \/ work[a].pc = "bookmarking" /\ ~services[work[a].service].live
       \/ work[a].pc = "linking" /\ ~bookmarks[work[a].bookmark].live
    /\ RollBack(a)
    /\ UNCHANGED breaks

LinkBookmark(a) ==
    /\ work[a].pc = "linking"
    /\ LinkBookmarkRow(work[a].bookmark, work[a].item)
    /\ Goes(a, "marking")
    /\ UNCHANGED breaks

MarkAccepted(a) ==
    /\ work[a].pc = "marking"
    /\ MarkAcceptedRow(work[a].item, work[a].service, work[a].bookmark)
    /\ Return(a)
    /\ UNCHANGED breaks

\* A foreign key fails; nothing is undone.
FailToMark(a) ==
    /\ work[a].pc = "marking"
    /\ ~(services[work[a].service].live /\ bookmarks[work[a].bookmark].live)
    /\ Return(a)
    /\ UNCHANGED <<tables, breaks>>

\* A call of the store fails and the roll-back, where there is one, works (a folder that
\* does not exist, for one).
FailAndRollBack(a) ==
    /\ Breaks
    /\ work[a].pc \in {"copying", "bookmarking", "linking"}
    /\ RollBack(a)

\* A call fails where nothing is rolled back, or the roll-back fails as well, which it
\* does when the context has ended.
FailForGood(a) ==
    /\ Breaks
    /\ work[a].pc # "idle"
    /\ Return(a)
    /\ UNCHANGED tables

\* The process stops and is started again.
ProcessStops ==
    /\ Breaks
    /\ \E a \in Acceptors : work[a].pc # "idle"
    /\ work' = [a \in Acceptors |-> Resting]
    /\ UNCHANGED tables

-----------------------------------------------------------------------------
(* The specification *)

UserStep ==
    \/ \E d \in Discovered : IgnoreDiscoveredService(d) \/ RestoreDiscoveredService(d)
    \/ \E s \in Services :
         DeleteService(s) \/ CreateBookmarkFromService(s) \/ SaveService(s)
    \/ \E b \in Bookmarks : DeleteBookmark(b) \/ PutBookmark(b)

\* The steps of an acceptance that has begun.
AcceptStep(a) ==
    \/ InsertService(a) \/ FailToInsert(a)
    \/ ApplyDefinition(a) \/ SyncChecks(a) \/ FailToDefine(a)
    \/ CopyChecks(a)
    \/ SaveBookmark(a) \/ FailToBookmark(a)
    \/ LinkBookmark(a)
    \/ MarkAccepted(a) \/ FailToMark(a)

Next ==
    \/ UserStep
    \/ \E a \in Requests, d \in Discovered : RequestBookmark(a, d)
    \/ \E a \in Jobs, d \in Discovered : ProcessObservation(a, d)
    \/ \E a \in Jobs : AutoBookmark(a) \/ SkipObservation(a)
    \/ \E a \in Acceptors : AcceptStep(a) \/ FailAndRollBack(a) \/ FailForGood(a)
    \/ ProcessStops

Spec == Init /\ [][Next]_vars

\* An acceptance that has begun goes on, and a user asks again for what is still pending.
Fairness ==
    /\ \A a \in Acceptors : WF_vars(AcceptStep(a))
    /\ \A a \in Requests, d \in Discovered : SF_vars(RequestBookmark(a, d))

FairSpec == Spec /\ Fairness

-----------------------------------------------------------------------------
(* Safety *)

\* The references that discovered services, services and bookmarks hold of one another
\* agree, although they are written in separate transactions with deletions and edits in
\* between: what a discovered service refers to exists; it is its own, unless a user has
\* rewritten that very row; and when it refers to both a service and a bookmark, that is
\* the bookmark of that service, unless a user has rewritten one of the two.
LinksAgree ==
    /\ \A d \in Discovered :
        LET s == discovered[d].service
            b == discovered[d].bookmark
        IN  /\ s # None => services[s].live /\ (services[s].origin = d \/ services[s].edited)
            /\ b # None =>
                  bookmarks[b].live /\ (bookmarks[b].discovered = d \/ bookmarks[b].edited)
            /\ s # None /\ b # None =>
                  bookmarks[b].service = s \/ services[s].edited \/ bookmarks[b].edited
    /\ \A b \in Bookmarks : bookmarks[b].service # None =>
            bookmarks[b].live /\ services[bookmarks[b].service].live

\* "Accepted discovered services preserve managed health checks and recent health
\* history": the service of an accepted discovered service has had its checks copied,
\* unless it is one that a user has put back under its id after it had been deleted.
HistoryKept ==
    \A d \in Discovered :
        LET s == discovered[d].service
        IN  s # None => services[s].copied \/ services[s].edited

\* The roll-back of a failed acceptance never deletes the service that the discovered
\* service, or another one, refers to: not one that an earlier acceptance has made.
RollBackIsSafe ==
    [][\A a \in Acceptors, d \in Discovered :
          /\ FailToBookmark(a) \/ FailAndRollBack(a)
          /\ discovered[d].service # None
          => discovered'[d].service = discovered[d].service]_vars

\* The jobs and requests together, step by step, do what Promotion promises: an
\* acceptance takes effect when the discovered service is marked, all at once.
Ready == {s \in Services : services[s].live /\ (services[s].copied \/ services[s].edited)}
Saved == {b \in Bookmarks : bookmarks[b].live}

P == INSTANCE Promotion WITH
    state <- [d \in Discovered |-> discovered[d].state],
    promoted <- [d \in Discovered |->
        [service |-> discovered[d].service, bookmark |-> discovered[d].bookmark]],
    ready <- [s \in Ready |-> services[s].origin],
    bookmarkOf <- [b \in Saved |-> bookmarks[b].service],
    rewritten <- Edited

PromotesAtomically == P!Promotes

-----------------------------------------------------------------------------
(* Ignoring *)

\* A user who ignores a discovered service is told "Suggestion ignored.": it is not
\* suggested again as long as every source reports the same of it as before.
IgnoredUntilItChanges ==
    [][\A d \in Discovered :
          /\ discovered[d].state = "ignored"
          /\ evidence' = evidence
          /\ \E a \in Jobs : ProcessObservation(a, d)
          => discovered'[d].state = "ignored"]_vars

-----------------------------------------------------------------------------
(* Liveness *)

\* "Promotion from discovered services into managed services and bookmarks": a user who
\* asks again and again gets a bookmark of a suggested service in the end, unless somebody
\* ignores it.
AcceptingSucceeds ==
    \A d \in Discovered :
        discovered[d].state = "pending" ~>
            discovered[d].bookmark # None \/ discovered[d].state = "ignored"
=============================================================================
