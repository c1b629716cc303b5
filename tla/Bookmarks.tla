----------------------------- MODULE Bookmarks -----------------------------
(* Bookmarks, their tags and the services that monitor them,                    *)
(* internal/store/sqlite/bookmarks.go: SaveBookmark, CreateBookmarkFromService  *)
(* and DeleteBookmark with the helpers they call in their transaction, next to  *)
(* SaveManualService and DeleteService of store_impl.go.  A monitored bookmark  *)
(* owns a service: details_json names the bookmark, and the service, when it is *)
(* hidden, goes with it.                                                        *)
EXTENDS Integers, FiniteSets

CONSTANTS BookmarkIds, ServiceIds, TagNames, None

ASSUME NullAssumption == None \notin ServiceIds \cup BookmarkIds

VARIABLES
    bookmarks,     \* from ids to service_id, whether there is a manual_url, tags
    services,      \* from ids to hidden and the owner in details_json
    tags,          \* the rows of tags
    userServices   \* history: services saved by a user since a bookmark saved them

bookmarkVars == <<bookmarks, services, tags, userServices>>

BookmarksInit == bookmarks = <<>> /\ services = <<>> /\ tags = {} /\ userServices = {}

With(f, k, v) == [x \in DOMAIN f \cup {k} |-> IF x = k THEN v ELSE f[x]]
Without(f, k) == [x \in DOMAIN f \ {k} |-> f[x]]

(* ON DELETE SET NULL *)
Unlinked(rows, s) ==
    [b \in DOMAIN rows |-> IF rows[b].service = s THEN [rows[b] EXCEPT !.service = None] ELSE rows[b]]

UsedTags(rows) == UNION {rows[b].tags : b \in DOMAIN rows}

(* normalizeTags has made one of spellings that differ in case; tags nobody     *)
(* uses are deleted at the end.                                                 *)
SyncedTags(all, rows) == all \cap UsedTags(rows)

BookmarkInput ==
    [id : BookmarkIds, service : ServiceIds \cup {None}, url : BOOLEAN, tags : SUBSET TagNames,
     monitor : {"off", "own"}, visible : BOOLEAN]

ServiceIdOf(rows, b) == IF b \in DOMAIN rows THEN rows[b].service ELSE None

(* upsertBookmarkOwnedServiceTx: the service the bookmark has already becomes   *)
(* its own, whoever made it; without one a new service is made.                 *)
OwnService(input, new) ==
    IF ServiceIdOf(bookmarks, input.id) = None THEN new ELSE ServiceIdOf(bookmarks, input.id)

OwnedRow(input) == [hidden |-> ~input.visible, owner |-> input.id]

(* Faulty: the bookmark that has the service already is not looked up. *)
RecordIdAsked(id, s) == id

(* findBookmarkIDByServiceTx: a service has one bookmark, and saving another    *)
(* one for it changes that one instead.                                         *)
RecordId(id, s) ==
    IF s # None /\ \E b \in DOMAIN bookmarks : bookmarks[b].service = s
       THEN CHOOSE b \in DOMAIN bookmarks : bookmarks[b].service = s
       ELSE id

(* deleteBookmarkOwnedServiceTx *)
GoesWith(rows, s, b) == s \in DOMAIN rows /\ rows[s].hidden /\ rows[s].owner = b

Store(rows, svcs, gone, all) ==
    /\ bookmarks' = Unlinked(rows, gone)
    /\ services' = Without(svcs, gone)
    /\ tags' = SyncedTags(all, rows)

SaveBookmark(input, new) ==
    LET owned == input.monitor = "own"
        s == IF owned THEN OwnService(input, new) ELSE input.service
        svcs == IF owned THEN With(services, s, OwnedRow(input)) ELSE services
        before == ServiceIdOf(bookmarks, input.id)
        id == RecordId(input.id, s)
        row == [service |-> s, url |-> input.url, tags |-> input.tags]
        gone == IF before # None /\ before # s /\ GoesWith(svcs, before, id) THEN before ELSE None
    IN  /\ new \notin DOMAIN services
        /\ owned \/ s = None => input.url
        /\ s # None => s \in DOMAIN svcs
        /\ Store(With(bookmarks, id, row), svcs, gone, tags \cup input.tags)
        /\ userServices' = (IF owned THEN userServices \ {s} ELSE userServices) \ {gone}

DeleteBookmark(b) ==
    LET s == bookmarks[b].service
        gone == IF s # None /\ GoesWith(services, s, b) THEN s ELSE None
    IN  /\ b \in DOMAIN bookmarks
        /\ Store(Without(bookmarks, b), services, gone, tags)
        /\ userServices' = userServices \ {gone}

(* A save by a user replaces details_json, which may or may not keep the owner. *)
SaveManualService(s, hidden) ==
    /\ \E owner \in {None} \cup {services[x].owner : x \in {s} \cap DOMAIN services} :
          services' = With(services, s, [hidden |-> hidden, owner |-> owner])
    /\ userServices' = userServices \cup {s}
    /\ UNCHANGED <<bookmarks, tags>>

DeleteService(s) ==
    /\ s \in DOMAIN services
    /\ services' = Without(services, s)
    /\ bookmarks' = Unlinked(bookmarks, s)
    /\ userServices' = userServices \ {s}
    /\ UNCHANGED tags

BookmarksNext ==
    \/ \E input \in BookmarkInput, new \in ServiceIds : SaveBookmark(input, new)
    \/ \E b \in DOMAIN bookmarks : DeleteBookmark(b)
    \/ \E s \in ServiceIds : DeleteService(s) \/ \E hidden \in BOOLEAN : SaveManualService(s, hidden)

BookmarksSpec == BookmarksInit /\ [][BookmarksNext]_bookmarkVars

-----------------------------------------------------------------------------
BookmarksTypeOK ==
    /\ DOMAIN bookmarks \subseteq BookmarkIds
    /\ \A b \in DOMAIN bookmarks : bookmarks[b].service \in DOMAIN services \cup {None}
    /\ DOMAIN services \subseteq ServiceIds

OneBookmarkPerService ==
    \A b, c \in DOMAIN bookmarks :
        (bookmarks[b].service = bookmarks[c].service /\ bookmarks[b].service # None) => b = c

TagsAreUsed == tags = UsedTags(bookmarks)

(* A hidden service that a bookmark has made for itself, which no page shows    *)
(* but for its bookmark, is the service of that bookmark.                       *)
NoOrphanService ==
    \A s \in DOMAIN services \ userServices :
        services[s].hidden =>
            services[s].owner \in DOMAIN bookmarks /\ bookmarks[services[s].owner].service = s

(* Through any sequence of saves, changes of service, take-overs and deletions  *)
(* the unique index on service_id is never met (the look-up before it finds the *)
(* bookmark to change), tags are those in use, and no hidden service is left.   *)
BookmarkLinksHold == OneBookmarkPerService /\ TagsAreUsed /\ NoOrphanService
=============================================================================
