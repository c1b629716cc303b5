---------------------------- MODULE DiscoveryStore ----------------------------
(***************************************************************************)
(* The part of the SQLite store that keeps what discovery has found and      *)
(* what has been made of it: the tables discovered_services,                 *)
(* discovered_service_evidence, services and bookmarks, with their unique     *)
(* indexes and foreign keys.  As in HealthStore each operator is the effect   *)
(* of one committed transaction.                                             *)
(*                                                                         *)
(* Abstractions.  Of the columns only those are kept that decide whether a    *)
(* discovered service can be accepted and what becomes of it: its state, the  *)
(* fingerprint it was ignored with and the two accepted_* references; origin   *)
(* (origin_discovered_service_id), source_type, ref (source_ref, which is       *)
(* "accepted:" + id in the services acceptances make, and None when it is the   *)
(* service's own), slug and whether the checks have been copied; the two         *)
(* references of a bookmark.  edited is no column: it remembers that users have   *)
(* written the references of the row by the API themselves.  A source has one     *)
(* source_ref, so evidence is a row per source.  A Look is what a source reports  *)
(* of a service: type, host, port, path, image.  Ids are random: an id in no row  *)
(* and in no memory is new.                                                     *)
(***************************************************************************)
EXTENDS Naturals, FiniteSets

CONSTANTS
    Discovered,   \* ids of rows of discovered_services
    Services,     \* ids of rows of services
    Bookmarks,    \* ids of rows of bookmarks
    Sources,      \* the sources that report services
    Looks,        \* what they report of a service
    Names,        \* names of services, one for each slug
    None          \* NULL

ASSUME DiscoveryAssumption ==
    /\ Sources \subseteq {"docker", "mdns", "lan"}
    /\ None \notin Discovered \cup Services \cup Bookmarks \cup Names \cup Looks
    /\ Services \cap Bookmarks = {}

VARIABLES
    discovered,   \* the rows of discovered_services
    evidence,     \* the rows of discovered_service_evidence
    services,     \* the rows of services
    bookmarks     \* the rows of bookmarks

tables == <<discovered, evidence, services, bookmarks>>

State  == {"absent", "pending", "ignored", "accepted"}
Origin == {"docker", "mdns", "lan", "manual"}

\* The hash that UpsertDiscoveredServiceObservationWithOutcome computes of an
\* observation, and the one that IgnoreDiscoveredService computes of the row.  Both
\* are SHA-256 of fields joined by "|"; the first field is a source there and a merge
\* key ("device:" or "host:") here, and the number of fields differs.
FingerprintHash(source, look) == <<"observation", source, look>>
DiscoveredFingerprintHash(d)  == <<"discovered", d>>

DiscoveredRow ==
    [state: State,
     ignored: {None} \cup {DiscoveredFingerprintHash(d) : d \in Discovered},
     service: Services \cup {None}, bookmark: Bookmarks \cup {None}]
EvidenceRow == [of: Discovered \cup {None}, look: Looks \cup {None}]
ServiceRow ==
    [live: BOOLEAN, origin: Discovered \cup {None}, source: Origin,
     ref: Discovered \cup {None}, name: Names \cup {None}, copied: BOOLEAN,
     edited: BOOLEAN]
BookmarkRow ==
    [live: BOOLEAN, service: Services \cup {None}, discovered: Discovered \cup {None},
     edited: BOOLEAN]

TablesTypeOK ==
    /\ discovered \in [Discovered -> DiscoveredRow]
    /\ evidence \in [Sources -> EvidenceRow]
    /\ services \in [Services -> ServiceRow]
    /\ bookmarks \in [Bookmarks -> BookmarkRow]

\* What stands for an id that is not in its table.
NoService ==
    [live |-> FALSE, origin |-> None, source |-> "manual", ref |-> None, name |-> None,
     copied |-> FALSE, edited |-> FALSE]
NoBookmark == [live |-> FALSE, service |-> None, discovered |-> None, edited |-> FALSE]

TablesInit ==
    /\ discovered = [d \in Discovered |->
            [state |-> "absent", ignored |-> None, service |-> None, bookmark |-> None]]
    /\ evidence = [e \in Sources |-> [of |-> None, look |-> None]]
    /\ services = [s \in Services |-> NoService]
    /\ bookmarks = [b \in Bookmarks |-> NoBookmark]

-----------------------------------------------------------------------------
(* Reading the tables *)

\* SourceTypes of a discovered service: the sources whose evidence points to it.
SourceTypes(d) == {e \in Sources : evidence[e].of = d}

\* Faulty: no source when the evidence has moved to another discovered service.
PreferredSourceOnly(d) ==
    CASE "docker" \in SourceTypes(d) -> "docker"
      [] "docker" \notin SourceTypes(d) /\ "mdns" \in SourceTypes(d) -> "mdns"
      [] SourceTypes(d) = {"lan"} -> "lan"
      [] OTHER -> None

\* The source of the new service: docker before mdns before lan, and lan without any.
PreferredDiscoverySource(d) ==
    CASE "docker" \in SourceTypes(d) -> "docker"
      [] "docker" \notin SourceTypes(d) /\ "mdns" \in SourceTypes(d) -> "mdns"
      [] OTHER -> "lan"

\* Faulty: a plain INSERT, which meets the row itself when it is saved again.
TakenByAny(s, ref, source, name) ==
    \E t \in Services :
        /\ services[t].live
        /\ \/ services[t].name = name
           \/ ref # None /\ services[t].ref = ref /\ services[t].source = source

\* The unique indexes of services on slug and on (source_type, source_ref).
Taken(s, ref, source, name) ==
    \E t \in Services \ {s} :
        /\ services[t].live
        /\ \/ services[t].name = name
           \/ ref # None /\ services[t].ref = ref /\ services[t].source = source

BookmarksOf(s) == {b \in Bookmarks : bookmarks[b].live /\ bookmarks[b].service = s}

-----------------------------------------------------------------------------
(* The write transactions *)

\* Faulty: the references are written from the observation, which has none.
ObserveRowAfresh(d, source, look) ==
    /\ discovered' = [discovered EXCEPT ![d] =
           [state |-> IF @.state = "absent" THEN "pending" ELSE @.state,
            ignored |-> @.ignored, service |-> None, bookmark |-> None]]
    /\ evidence' = [evidence EXCEPT ![source] = [of |-> d, look |-> look]]
    /\ UNCHANGED <<services, bookmarks>>

\* UpsertDiscoveredServiceObservationWithOutcome.  An ignored service becomes pending
\* again when the hash of the observation differs from the one it was ignored with.
ObserveRow(d, source, look) ==
    LET row == discovered[d]
    IN  /\ discovered' = [discovered EXCEPT ![d].state =
               CASE row.state = "absent" -> "pending"
                 [] /\ row.state = "ignored"
                    /\ row.ignored # None
                    /\ row.ignored # FingerprintHash(source, look) -> "pending"
                 [] OTHER -> row.state]
        /\ evidence' = [evidence EXCEPT ![source] = [of |-> d, look |-> look]]
        /\ UNCHANGED <<services, bookmarks>>

\* IgnoreDiscoveredService and RestoreDiscoveredService.
IgnoreRow(d) ==
    /\ discovered[d].state # "absent"
    /\ discovered' = [discovered EXCEPT ![d].state = "ignored",
                                        ![d].ignored = DiscoveredFingerprintHash(d)]
    /\ UNCHANGED <<evidence, services, bookmarks>>

RestoreRow(d) ==
    /\ discovered[d].state # "absent"
    /\ discovered' = [discovered EXCEPT ![d].state = "pending", ![d].ignored = None]
    /\ UNCHANGED <<evidence, services, bookmarks>>

\* SaveManualService of the store: an insert, or an update of every one of these columns
\* when the id is there; an id that has been deleted is inserted again.  The checks of a
\* row that is there stay.
WriteServiceRow(s, origin, source, ref, name, edited) ==
    /\ ~Taken(s, ref, source, name)
    /\ services' = [services EXCEPT ![s] =
            [live |-> TRUE, origin |-> origin, source |-> source, ref |-> ref, name |-> name,
             copied |-> services[s].copied, edited |-> edited]]
    /\ UNCHANGED <<discovered, evidence, bookmarks>>

\* With the service that is made from the discovered service d.
SaveServiceRow(s, d, source, name) ==
    WriteServiceRow(s, d, source, d, name, services[s].edited)

\* With a service a user has put together: any origin, which no foreign key watches, and
\* any source_type and source_ref.
EditServiceRow(s, origin, source, ref, name) ==
    WriteServiceRow(s, origin, source, ref, name, TRUE)

\* CopyDiscoveredChecksToService; its UPDATE of services finds no row when s is gone.
CopyChecksRow(s) ==
    /\ services' = [services EXCEPT ![s].copied = services[s].live]
    /\ UNCHANGED <<discovered, evidence, bookmarks>>

\* Faulty: the reference of bookmarks is left as it is.
DeleteServiceOnly(s) ==
    /\ services' = [services EXCEPT ![s] = NoService]
    /\ discovered' = [d \in Discovered |->
            IF discovered[d].service = s THEN [discovered[d] EXCEPT !.service = None]
            ELSE discovered[d]]
    /\ UNCHANGED <<evidence, bookmarks>>

\* DELETE FROM services: both references to a service are ON DELETE SET NULL.
DeleteServiceRow(s) ==
    /\ services' = [services EXCEPT ![s] = NoService]
    /\ bookmarks' = [b \in Bookmarks |->
            IF bookmarks[b].service = s THEN [bookmarks[b] EXCEPT !.service = None]
            ELSE bookmarks[b]]
    /\ discovered' = [d \in Discovered |->
            IF discovered[d].service = s THEN [discovered[d] EXCEPT !.service = None]
            ELSE discovered[d]]
    /\ UNCHANGED evidence

\* SaveBookmark for a service: the bookmark the service has, or else the new row b.
SaveBookmarkRow(b, s) ==
    /\ services[s].live
    /\ IF BookmarksOf(s) # {} THEN b \in BookmarksOf(s) ELSE ~bookmarks[b].live
    /\ bookmarks' = [bookmarks EXCEPT ![b].live = TRUE, ![b].service = s]
    /\ UNCHANGED <<discovered, evidence, services>>

\* SaveBookmark with the id of a bookmark, for the service s or for none: the row is
\* updated, or inserted when it has been deleted; discovered_service_id is not a column it
\* writes.  When s has another bookmark, that is the row it writes, which keeps its links.
EditBookmarkRow(b, s) ==
    /\ s # None => services[s].live /\ BookmarksOf(s) \subseteq {b}
    /\ bookmarks' = [bookmarks EXCEPT ![b].live = TRUE, ![b].service = s, ![b].edited = TRUE]
    /\ UNCHANGED <<discovered, evidence, services>>

\* DeleteBookmark; the reference of discovered_services is ON DELETE SET NULL.
DeleteBookmarkRow(b) ==
    /\ bookmarks[b].live
    /\ bookmarks' = [bookmarks EXCEPT ![b] = NoBookmark]
    /\ discovered' = [d \in Discovered |->
            IF discovered[d].bookmark = b THEN [discovered[d] EXCEPT !.bookmark = None]
            ELSE discovered[d]]
    /\ UNCHANGED <<evidence, services>>

\* SaveDiscoveredServiceBookmarkLink: an UPDATE, which may find no row.
LinkBookmarkRow(b, d) ==
    /\ bookmarks' = IF bookmarks[b].live THEN [bookmarks EXCEPT ![b].discovered = d]
                    ELSE bookmarks
    /\ UNCHANGED <<discovered, evidence, services>>

\* MarkDiscoveredServiceAccepted: the foreign keys want both rows to exist.
MarkAcceptedRow(d, s, b) ==
    /\ services[s].live /\ bookmarks[b].live
    /\ discovered' = [discovered EXCEPT ![d] =
            [@ EXCEPT !.state = "accepted", !.service = s, !.bookmark = b]]
    /\ UNCHANGED <<evidence, services, bookmarks>>
=============================================================================
