---------------------------- MODULE StatusPages ----------------------------
(* Status pages, internal/store/sqlite/status_pages.go, with the wrappers of    *)
(* app/status_pages.go.  The administrator's list takes a page's overall status *)
(* from one join over services and announcements, the public page from its own  *)
(* read of the services and their latest results, and its announcements from a  *)
(* comparison of times as text.  Slugs, titles and texts are left out.          *)
EXTENDS Integers, FiniteSets

CONSTANTS Pages, PageServices, Notices, Times, Always

(* Half seconds; Always is a time that was not given. *)
ASSUME TimesAssumption == Times \subseteq Nat /\ Always \notin Times
ASSUME RowsAssumption == IsFiniteSet(PageServices) /\ IsFiniteSet(Notices)

Statuses == {"healthy", "unhealthy", "degraded", "unknown"}

VARIABLES
    pages,     \* from ids to enabled and the assigned services
    status,    \* the services there are, with services.status
    ties,      \* those of them with two results at their latest checked_at
    notices    \* announcements: from ids to page, starts_at and ends_at

pageVars == <<pages, status, ties, notices>>

PagesInit == pages = <<>> /\ status = <<>> /\ ties = {} /\ notices = <<>>

Bind(f, k, v) == [x \in DOMAIN f \cup {k} |-> IF x = k THEN v ELSE f[x]]
Drop(f, ks) == [x \in DOMAIN f \ ks |-> f[x]]

SaveStatusPage(p, enabled) ==
    /\ pages' = Bind(pages, p, [enabled |-> enabled,
                                services |-> IF p \in DOMAIN pages THEN pages[p].services ELSE {}])
    /\ UNCHANGED <<status, ties, notices>>

(* Assignments and announcements go with their page. *)
DeleteStatusPage(p) ==
    /\ p \in DOMAIN pages
    /\ pages' = Drop(pages, {p})
    /\ notices' = Drop(notices, {n \in DOMAIN notices : notices[n].page = p})
    /\ UNCHANGED <<status, ties>>

(* A service given twice or unknown refuses the whole, which keeps the old ones. *)
ReplaceStatusPageServices(p, chosen) ==
    /\ p \in DOMAIN pages /\ chosen \subseteq DOMAIN status
    /\ pages' = [pages EXCEPT ![p].services = chosen]
    /\ UNCHANGED <<status, ties, notices>>

ValidAnnouncement(starts, ends) == Always \notin {starts, ends} => starts <= ends

CreateStatusPageAnnouncement(n, p, starts, ends) ==
    /\ n \notin DOMAIN notices /\ p \in DOMAIN pages /\ ValidAnnouncement(starts, ends)
    /\ notices' = Bind(notices, n, [page |-> p, starts |-> starts, ends |-> ends])
    /\ UNCHANGED <<pages, status, ties>>

UpdateStatusPageAnnouncement(n, starts, ends) ==
    /\ n \in DOMAIN notices /\ ValidAnnouncement(starts, ends)
    /\ notices' = [notices EXCEPT ![n].starts = starts, ![n].ends = ends]
    /\ UNCHANGED <<pages, status, ties>>

DeleteStatusPageAnnouncement(n) ==
    /\ n \in DOMAIN notices
    /\ notices' = Drop(notices, {n})
    /\ UNCHANGED <<pages, status, ties>>

(* Outside the module: health checks and the deletion of services. *)
ServiceChecked(s, new, tied) ==
    /\ status' = Bind(status, s, new)
    /\ ties' = IF tied THEN ties \cup {s} ELSE ties \ {s}
    /\ UNCHANGED <<pages, notices>>

ServiceDeleted(s) ==
    /\ s \in DOMAIN status
    /\ status' = Drop(status, {s})
    /\ ties' = ties \ {s}
    /\ pages' = [p \in DOMAIN pages |-> [pages[p] EXCEPT !.services = @ \ {s}]]
    /\ UNCHANGED notices

PagesNext ==
    \/ \E p \in Pages :
          \/ \E enabled \in BOOLEAN : SaveStatusPage(p, enabled)
          \/ DeleteStatusPage(p)
          \/ \E chosen \in SUBSET DOMAIN status : ReplaceStatusPageServices(p, chosen)
    \/ \E n \in Notices :
          \/ \E starts, ends \in Times \cup {Always} :
                \/ \E p \in Pages : CreateStatusPageAnnouncement(n, p, starts, ends)
                \/ UpdateStatusPageAnnouncement(n, starts, ends)
          \/ DeleteStatusPageAnnouncement(n)
    \/ \E s \in PageServices :
          \/ \E new \in Statuses, tied \in BOOLEAN : ServiceChecked(s, new, tied)
          \/ ServiceDeleted(s)

PagesSpec == PagesInit /\ [][PagesNext]_pageVars

-----------------------------------------------------------------------------
(* A roll-up over rows: how many of them have each status, and out of how many. *)
RollUp(rows, total) ==
    IF total = 0 THEN "unknown"
    ELSE IF rows["degraded"] + rows["unknown"] > 0 THEN "degraded"
    ELSE IF rows["healthy"] = total THEN "healthy"
    ELSE IF rows["unhealthy"] = total THEN "unhealthy" ELSE "degraded"

Total(rows) == rows["healthy"] + rows["unhealthy"] + rows["degraded"] + rows["unknown"]

WithStatus(p, st) == {s \in pages[p].services : status[s] = st}

NoticesOf(p) == {n \in DOMAIN notices : notices[n].page = p}

(* ListStatusPages: the left join has a row for every service and announcement. *)
JoinRows(p) ==
    LET times == IF NoticesOf(p) = {} THEN 1 ELSE Cardinality(NoticesOf(p))
    IN  [st \in Statuses |-> times * Cardinality(WithStatus(p, st))]

(* Faulty: all rows are healthy when as many are as there are services. *)
ListedStatusByCount(p) == RollUp(JoinRows(p), Cardinality(pages[p].services))

ListedStatus(p) == RollUp(JoinRows(p), Total(JoinRows(p)))

(* listStatusPageServices: a row for every service, two when its results tie. *)
ShownRows(p) ==
    [st \in Statuses |-> Cardinality(WithStatus(p, st)) + Cardinality(WithStatus(p, st) \cap ties)]

ShownStatus(p) == RollUp(ShownRows(p), Total(ShownRows(p)))

(* RFC3339Nano drops the zeros of the fraction, and "." is before "Z": as text, *)
(* a whole second comes after its own half.                                     *)
Text(t) == IF t % 2 = 0 THEN t + 1 ELSE t - 1

ShownNotices(p, now) ==
    {n \in NoticesOf(p) :
        /\ notices[n].starts = Always \/ Text(notices[n].starts) <= Text(now)
        /\ notices[n].ends = Always \/ Text(now) <= Text(notices[n].ends)}

(* Both pages tell one overall status, however many announcements and tied      *)
(* results multiply the rows; and an announcement is shown in its window and    *)
(* not outside of it, to the second: the comparison of times as text is wrong   *)
(* within one.                                                                  *)
PagesAgree ==
    \A p \in DOMAIN pages :
        /\ ListedStatus(p) = ShownStatus(p)
        /\ pages[p].services \subseteq DOMAIN status
        /\ \A n \in NoticesOf(p), now \in Times :
              LET within(second) ==
                      /\ notices[n].starts = Always \/ notices[n].starts + second <= now
                      /\ notices[n].ends = Always \/ now + second <= notices[n].ends
              IN  /\ within(2) => n \in ShownNotices(p, now)
                  /\ n \in ShownNotices(p, now) => within(-1)
=============================================================================
