---------------------------- MODULE PromotionProofs ----------------------------
(***************************************************************************)
(* The proof that Acceptance implements Promotion: what each transaction of   *)
(* DiscoveryStore is to Promotion, then each step.                            *)
(***************************************************************************)
EXTENDS AcceptanceProofs

\* The state of Promotion as Acceptance maps it.
StateOf      == [d \in Discovered |-> discovered[d].state]
PromotedOf   == [d \in Discovered |->
                    [service |-> discovered[d].service, bookmark |-> discovered[d].bookmark]]
OriginOf     == [s \in Ready |-> services[s].origin]
BookmarkedOf == [b \in Saved |-> bookmarks[b].service]
Mapped       == <<StateOf, PromotedOf, OriginOf, BookmarkedOf, Edited>>

\* A step of Promotion, or a stutter.
Maps == P!PromotionNext \/ UNCHANGED Mapped

\* Where only discovered changes, or nothing, the others stay.
LEMMA SameServices == ASSUME UNCHANGED services PROVE UNCHANGED OriginOf
BY DEF OriginOf, Ready

LEMMA SameBookmarks == ASSUME UNCHANGED bookmarks PROVE UNCHANGED BookmarkedOf
BY DEF BookmarkedOf, Saved

LEMMA SameEdited ==
    ASSUME \A s \in Services : services'[s].edited = services[s].edited,
           \A b \in Bookmarks : bookmarks'[b].edited = bookmarks[b].edited
    PROVE  Edited' = Edited
BY DEF Edited

\* Steps that write no table are stutters.
LEMMA StutterMaps == ASSUME UNCHANGED tables PROVE Maps
BY SameServices, SameBookmarks, SameEdited DEF tables, Maps, Mapped, StateOf, PromotedOf

\* Observing, ignoring and restoring are triage.
LEMMA TriageMaps ==
    ASSUME TypeOK, NEW d \in Discovered, UNCHANGED <<services, bookmarks>>,
           NEW r, discovered' = [discovered EXCEPT ![d] = r],
           r.service = discovered[d].service, r.bookmark = discovered[d].bookmark,
           \/ r.state = discovered[d].state
           \/ r.state = "pending"
           \/ r.state = "ignored" /\ discovered[d].state # "absent"
    PROVE  Maps
<1>1. UNCHANGED OriginOf /\ UNCHANGED BookmarkedOf /\ UNCHANGED Edited
  BY SameServices, SameBookmarks, SameEdited
<1>2. /\ discovered \in [Discovered -> DiscoveredRow]
      /\ discovered' = [e \in Discovered |-> IF e = d THEN r ELSE discovered[e]]
  BY DEF TypeOK, TablesTypeOK
<1>3. PromotedOf' = PromotedOf
  BY <1>2 DEF PromotedOf
<1>4. StateOf' = [StateOf EXCEPT ![d] = r.state]
  BY <1>2 DEF StateOf
<1>5. CASE r.state = discovered[d].state
  <2>1. StateOf' = StateOf
    BY <1>4, <1>5 DEF StateOf
  <2> QED
    BY <1>1, <1>3, <2>1 DEF Maps, Mapped
<1>6. CASE r.state # discovered[d].state
  <2>1. /\ r.state \in {"pending", "ignored"}
        /\ r.state = "ignored" => StateOf[d] # "absent"
    BY <1>6 DEF StateOf
  <2>2. P!Triage(d)
    BY <1>1, <1>3, <1>4, <2>1 DEF P!Triage, StateOf, PromotedOf, OriginOf, BookmarkedOf
  <2> QED
    BY <2>2 DEF Maps, P!PromotionNext
<1> QED
  BY <1>5, <1>6

\* Deleting a service loses it.
LEMMA DeletingServiceMaps ==
    ASSUME TypeOK, NEW s \in Services, DeleteServiceRow(s)
    PROVE  Maps
<1>1. /\ discovered \in [Discovered -> DiscoveredRow]
      /\ services \in [Services -> ServiceRow]
      /\ bookmarks \in [Bookmarks -> BookmarkRow]
      /\ services' = [services EXCEPT ![s] = NoService]
      /\ bookmarks' = [b \in Bookmarks |->
             IF bookmarks[b].service = s THEN [bookmarks[b] EXCEPT !.service = None]
             ELSE bookmarks[b]]
      /\ discovered' = [d \in Discovered |->
             IF discovered[d].service = s THEN [discovered[d] EXCEPT !.service = None]
             ELSE discovered[d]]
  BY DEF TypeOK, TablesTypeOK, DeleteServiceRow
<1>2. OriginOf' = [t \in DOMAIN OriginOf \ {s} |-> OriginOf[t]]
  <2>1. /\ ~services'[s].live
        /\ \A t \in Services \ {s} : services'[t] = services[t]
    BY <1>1 DEF NoService
  <2>2. Ready' = Ready \ {s}
    BY <2>1 DEF Ready
  <2>3. Ready \subseteq Services
    BY DEF Ready
  <2> QED
    BY <2>1, <2>2, <2>3 DEF OriginOf
<1>3. /\ BookmarkedOf' = [b \in DOMAIN BookmarkedOf |->
                              IF BookmarkedOf[b] = s THEN None ELSE BookmarkedOf[b]]
      /\ Edited' = Edited \ {s}
  <2>1. \A b \in Bookmarks :
           /\ bookmarks'[b].live = bookmarks[b].live
           /\ bookmarks'[b].edited = bookmarks[b].edited
           /\ bookmarks'[b].service =
                 IF bookmarks[b].service = s THEN None ELSE bookmarks[b].service
    BY <1>1 DEF BookmarkRow
  <2>2. Saved' = Saved
    BY <2>1 DEF Saved
  <2>3. Saved \subseteq Bookmarks
    BY DEF Saved
  <2>4. \A t \in Services : services'[t].edited <=> t # s /\ services[t].edited
    BY <1>1 DEF NoService
  <2>5. Edited' = Edited \ {s}
    BY <2>1, <2>4, DiscoveryAssumption DEF Edited
  <2> QED
    BY <2>1, <2>2, <2>3, <2>5 DEF BookmarkedOf
<1>4. \A d \in Discovered :
        /\ discovered'[d].state = discovered[d].state
        /\ discovered'[d].bookmark = discovered[d].bookmark
        /\ discovered'[d].service =
              IF discovered[d].service = s THEN None ELSE discovered[d].service
  BY <1>1 DEF DiscoveredRow
<1>5. StateOf' = StateOf
  BY <1>4 DEF StateOf
<1>6. PromotedOf' = [d \in Discovered |->
                       [PromotedOf[d] EXCEPT !.service = IF @ = s THEN None ELSE @]]
  BY <1>4 DEF PromotedOf
<1>7. P!LoseService(s)
  BY <1>2, <1>3, <1>5, <1>6
     DEF P!LoseService, StateOf, PromotedOf, OriginOf, BookmarkedOf
<1> QED
  BY <1>7 DEF Maps, P!PromotionNext

\* Deleting a bookmark loses that.
LEMMA DeletingBookmarkMaps ==
    ASSUME TypeOK, NEW b \in Bookmarks, DeleteBookmarkRow(b)
    PROVE  Maps
<1>1. /\ discovered \in [Discovered -> DiscoveredRow]
      /\ bookmarks \in [Bookmarks -> BookmarkRow]
      /\ bookmarks' = [bookmarks EXCEPT ![b] = NoBookmark]
      /\ discovered' = [d \in Discovered |->
             IF discovered[d].bookmark = b THEN [discovered[d] EXCEPT !.bookmark = None]
             ELSE discovered[d]]
      /\ UNCHANGED services
  BY DEF TypeOK, TablesTypeOK, DeleteBookmarkRow
<1>2. BookmarkedOf' = [c \in DOMAIN BookmarkedOf \ {b} |-> BookmarkedOf[c]]
  <2>1. /\ ~bookmarks'[b].live
        /\ \A c \in Bookmarks \ {b} : bookmarks'[c] = bookmarks[c]
    BY <1>1 DEF NoBookmark
  <2>2. Saved' = Saved \ {b} /\ Saved \subseteq Bookmarks
    BY <2>1 DEF Saved
  <2> QED
    BY <2>1, <2>2 DEF BookmarkedOf
<1>3. \A d \in Discovered :
        /\ discovered'[d].state = discovered[d].state
        /\ discovered'[d].service = discovered[d].service
        /\ discovered'[d].bookmark =
              IF discovered[d].bookmark = b THEN None ELSE discovered[d].bookmark
  BY <1>1 DEF DiscoveredRow
<1>4. StateOf' = StateOf /\ UNCHANGED OriginOf /\ Edited' = Edited \ {b}
  <2>1. \A c \in Bookmarks : bookmarks'[c].edited <=> c # b /\ bookmarks[c].edited
    BY <1>1 DEF NoBookmark
  <2>2. Edited' = Edited \ {b}
    BY <1>1, <2>1, DiscoveryAssumption DEF Edited
  <2> QED
    BY <1>1, <1>3, <2>2, SameServices DEF StateOf
<1>5. PromotedOf' = [d \in Discovered |->
                       [PromotedOf[d] EXCEPT !.bookmark = IF @ = b THEN None ELSE @]]
  BY <1>3 DEF PromotedOf
<1>6. P!LoseBookmark(b)
  BY <1>2, <1>4, <1>5 DEF P!LoseBookmark, StateOf, PromotedOf, OriginOf, BookmarkedOf
<1> QED
  BY <1>6 DEF Maps, P!PromotionNext

\* A saved bookmark is the one the service has, or its first.
LEMMA SavingBookmarkMaps ==
    ASSUME TypeOK, NEW s \in Services, NEW b \in FreeBookmarks \cup BookmarksOf(s),
           SaveBookmarkRow(b, s)
    PROVE  Maps
<1>1. /\ b \in Bookmarks /\ UNCHANGED <<discovered, services>>
      /\ bookmarks' = [bookmarks EXCEPT ![b] = [@ EXCEPT !.live = TRUE, !.service = s]]
      /\ bookmarks \in [Bookmarks -> BookmarkRow]
  BY DEF SaveBookmarkRow, FreeBookmarks, BookmarksOf, TypeOK, TablesTypeOK
<1>2. /\ bookmarks'[b].live = TRUE /\ bookmarks'[b].service = s /\ s # None
      /\ \A c \in Bookmarks \ {b} : bookmarks'[c] = bookmarks[c]
  BY <1>1, DiscoveryAssumption DEF BookmarkRow
<1>3. UNCHANGED <<StateOf, PromotedOf, OriginOf, Edited>>
  <2>1. \A c \in Bookmarks : bookmarks'[c].edited = bookmarks[c].edited
    BY <1>1 DEF BookmarkRow
  <2> QED
    BY <1>1, <2>1, SameServices, SameEdited DEF StateOf, PromotedOf
<1>4. Saved' = Saved \cup {b} /\ Saved \subseteq Bookmarks
  BY <1>1, <1>2 DEF Saved
<1>5. BookmarkedOf' = [c \in DOMAIN BookmarkedOf \cup {b} |->
                         IF c = b THEN s ELSE BookmarkedOf[c]]
  BY <1>2, <1>4 DEF BookmarkedOf
<1>6. CASE b \in BookmarksOf(s)
  <2>1. b \in Saved /\ BookmarkedOf[b] = s
    BY <1>2, <1>6 DEF BookmarksOf, Saved, BookmarkedOf
  <2>2. BookmarkedOf' = BookmarkedOf
    BY <1>5, <2>1 DEF BookmarkedOf
  <2> QED
    BY <1>3, <2>2 DEF Maps, Mapped
<1>7. CASE b \notin BookmarksOf(s)
  <2>1. ~bookmarks[b].live /\ BookmarksOf(s) = {}
    BY <1>7 DEF FreeBookmarks, SaveBookmarkRow
  <2>2. b \notin DOMAIN BookmarkedOf
    BY <2>1 DEF BookmarkedOf, Saved
  <2>3. \A c \in DOMAIN BookmarkedOf : BookmarkedOf[c] # s
    BY <2>1 DEF BookmarkedOf, Saved, BookmarksOf
  <2>4. P!BookmarkIt(b, s)
    BY <1>3, <1>5, <2>2, <2>3 DEF P!BookmarkIt, StateOf, PromotedOf, OriginOf, BookmarkedOf
  <2> QED
    BY <1>1, <2>4 DEF Maps, P!PromotionNext
<1> QED
  BY <1>6, <1>7

\* A user's service gets another origin and is the user's from then on.
LEMMA RewritingServiceMaps ==
    ASSUME TypeOK, NEW s \in Services, NEW r, r.live, r.edited,
           r.origin \in Discovered \cup {None},
           services' = [services EXCEPT ![s] = r], UNCHANGED <<discovered, bookmarks>>
    PROVE  Maps
<1>1. services'[s] = r /\ \A t \in Services \ {s} : services'[t] = services[t]
  BY DEF TypeOK, TablesTypeOK
<1>2. Ready' = Ready \cup {s} /\ Ready \subseteq Services
  BY <1>1 DEF Ready
<1>3. OriginOf' = [t \in DOMAIN OriginOf \cup {s} |-> IF t = s THEN r.origin ELSE OriginOf[t]]
  BY <1>1, <1>2 DEF OriginOf
<1>4. Edited' = Edited \cup {s}
  BY <1>1 DEF Edited
<1>5. UNCHANGED <<StateOf, PromotedOf, BookmarkedOf>>
  BY SameBookmarks DEF StateOf, PromotedOf
<1>6. P!RewriteService(s)
  BY <1>3, <1>4, <1>5 DEF P!RewriteService, StateOf, PromotedOf, OriginOf, BookmarkedOf
<1> QED
  BY <1>6 DEF Maps, P!PromotionNext

\* A bookmark that a user saves belongs to a service without another one, or to none.
LEMMA RewritingBookmarkMaps ==
    ASSUME TypeOK, NEW b \in Bookmarks, NEW s \in Services \cup {None}, EditBookmarkRow(b, s)
    PROVE  Maps
<1>1. /\ bookmarks' = [bookmarks EXCEPT ![b] = [@ EXCEPT !.live = TRUE, !.service = s,
                                                        !.edited = TRUE]]
      /\ bookmarks \in [Bookmarks -> BookmarkRow]
      /\ UNCHANGED <<discovered, services>>
      /\ s # None => BookmarksOf(s) \subseteq {b}
  BY DEF EditBookmarkRow, TypeOK, TablesTypeOK
<1>2. /\ bookmarks'[b].live = TRUE /\ bookmarks'[b].service = s /\ bookmarks'[b].edited = TRUE
      /\ \A c \in Bookmarks \ {b} : bookmarks'[c] = bookmarks[c]
  BY <1>1 DEF BookmarkRow
<1>3. Saved' = Saved \cup {b} /\ Saved \subseteq Bookmarks
  BY <1>2 DEF Saved
<1>4. BookmarkedOf' = [c \in DOMAIN BookmarkedOf \cup {b} |->
                         IF c = b THEN s ELSE BookmarkedOf[c]]
  BY <1>2, <1>3 DEF BookmarkedOf
<1>5. s # None => \A c \in DOMAIN BookmarkedOf \ {b} : BookmarkedOf[c] # s
  BY <1>1, <1>3 DEF BookmarkedOf, BookmarksOf, Saved
<1>6. Edited' = Edited \cup {b}
  BY <1>1, <1>2 DEF Edited
<1>7. UNCHANGED <<StateOf, PromotedOf, OriginOf>>
  BY <1>1, SameServices DEF StateOf, PromotedOf
<1>8. P!RewriteBookmark(b)
  BY <1>4, <1>5, <1>6, <1>7
     DEF P!RewriteBookmark, StateOf, PromotedOf, OriginOf, BookmarkedOf
<1> QED
  BY <1>8 DEF Maps, P!PromotionNext

\* A service that is inserted is not ready.  One that is saved again by the acceptance that
\* made it is as it was, unless a user has edited it in between.
LEMMA SavingServiceMaps ==
    ASSUME TypeOK, NEW s \in Services, NEW d \in Discovered,
           ~services[s].live => ~services[s].copied /\ ~services[s].edited,
           services[s].live /\ ~services[s].edited => services[s].origin = d,
           NEW r, r.live, r.origin = d, r.copied = services[s].copied,
           r.edited = services[s].edited,
           services' = [services EXCEPT ![s] = r], UNCHANGED <<discovered, bookmarks>>
    PROVE  Maps
<1>1. CASE services[s].edited
  BY <1>1, RewritingServiceMaps
<1>2. CASE ~services[s].edited
  <2>1. services'[s] = r /\ \A t \in Services \ {s} : services'[t] = services[t]
    BY DEF TypeOK, TablesTypeOK
  <2>2. Ready' = Ready
    BY <1>2, <2>1 DEF Ready
  <2>3. OriginOf' = OriginOf
    BY <1>2, <2>1, <2>2 DEF OriginOf, Ready
  <2>4. Edited' = Edited
    BY <2>1, SameEdited
  <2> QED
    BY <2>3, <2>4, SameBookmarks DEF Maps, Mapped, StateOf, PromotedOf
<1>3. services[s].edited \in BOOLEAN
  BY DEF TypeOK, TablesTypeOK, ServiceRow
<1> QED
  BY <1>1, <1>2, <1>3

\* With its checks it gets ready, unless it is ready already or deleted.
LEMMA CopyingChecksMaps ==
    ASSUME TypeOK, NEW s \in Services, NEW d \in Discovered,
           services[s].live /\ ~services[s].edited => services[s].origin = d,
           CopyChecksRow(s)
    PROVE  Maps
<1>1. /\ services' = [services EXCEPT ![s] = [@ EXCEPT !.copied = services[s].live]]
      /\ services \in [Services -> ServiceRow]
      /\ UNCHANGED <<discovered, bookmarks>>
  BY DEF CopyChecksRow, TypeOK, TablesTypeOK
<1>2. /\ services'[s].live = services[s].live /\ services'[s].origin = services[s].origin
      /\ services'[s].copied = services[s].live /\ services'[s].edited = services[s].edited
      /\ \A t \in Services \ {s} : services'[t] = services[t]
  BY <1>1 DEF ServiceRow
<1>3. UNCHANGED <<StateOf, PromotedOf, BookmarkedOf, Edited>>
  BY <1>1, <1>2, SameBookmarks, SameEdited DEF StateOf, PromotedOf
<1>4. CASE services[s].live /\ s \notin Ready
  <2>1. Ready' = Ready \cup {s} /\ Ready \subseteq Services
    BY <1>2, <1>4 DEF Ready
  <2>2. services[s].origin = d
    BY <1>4 DEF Ready
  <2>3. OriginOf' = [t \in DOMAIN OriginOf \cup {s} |-> IF t = s THEN d ELSE OriginOf[t]]
    BY <1>2, <1>4, <2>1, <2>2 DEF OriginOf
  <2>4. s \notin DOMAIN OriginOf
    BY <1>4 DEF OriginOf
  <2>5. P!GetReady(s, d)
    BY <1>3, <2>3, <2>4 DEF P!GetReady, StateOf, PromotedOf, OriginOf, BookmarkedOf
  <2> QED
    BY <2>5 DEF Maps, P!PromotionNext
<1>5. CASE ~services[s].live \/ s \in Ready
  <2>1. Ready' = Ready
    BY <1>2, <1>5 DEF Ready
  <2>2. OriginOf' = OriginOf
    BY <1>2, <2>1 DEF OriginOf, Ready
  <2> QED
    BY <1>3, <2>2 DEF Maps, Mapped
<1> QED
  BY <1>4, <1>5

\* The link of a bookmark to the discovered service is no part of Promotion.
LEMMA LinkingMaps ==
    ASSUME TypeOK, NEW b \in Bookmarks, NEW d, LinkBookmarkRow(b, d)
    PROVE  Maps
<1>1. /\ UNCHANGED <<discovered, services>>
      /\ bookmarks \in [Bookmarks -> BookmarkRow]
      /\ bookmarks' = IF bookmarks[b].live
                      THEN [bookmarks EXCEPT ![b] = [@ EXCEPT !.discovered = d]]
                      ELSE bookmarks
  BY DEF LinkBookmarkRow, TypeOK, TablesTypeOK
<1>2. \A c \in Bookmarks :
        /\ bookmarks'[c].live = bookmarks[c].live
        /\ bookmarks'[c].service = bookmarks[c].service
        /\ bookmarks'[c].edited = bookmarks[c].edited
  BY <1>1 DEF BookmarkRow
<1>3. Saved' = Saved
  BY <1>2 DEF Saved
<1>4. BookmarkedOf' = BookmarkedOf
  BY <1>2, <1>3 DEF BookmarkedOf, Saved
<1> QED
  BY <1>1, <1>2, <1>4, SameServices, SameEdited DEF Maps, Mapped, StateOf, PromotedOf

\* Marking promotes, all at once.
LEMMA MarkingMaps ==
    ASSUME TypeOK, NEW d \in Discovered, NEW s \in Services, NEW b \in Bookmarks,
           discovered[d].state # "absent",
           services[s].edited \/ (services[s].origin = d /\ services[s].copied),
           bookmarks[b].service = s \/ services[s].edited \/ bookmarks[b].edited,
           MarkAcceptedRow(d, s, b)
    PROVE  Maps
<1>1. /\ services[s].live /\ bookmarks[b].live /\ UNCHANGED <<services, bookmarks>>
      /\ discovered' = [discovered EXCEPT ![d] =
             [@ EXCEPT !.state = "accepted", !.service = s, !.bookmark = b]]
      /\ discovered \in [Discovered -> DiscoveredRow]
  BY DEF MarkAcceptedRow, TypeOK, TablesTypeOK
<1>2. /\ discovered'[d].state = "accepted" /\ discovered'[d].service = s
      /\ discovered'[d].bookmark = b
      /\ \A e \in Discovered \ {d} : discovered'[e] = discovered[e]
  BY <1>1 DEF DiscoveredRow
<1>3. s \in Ready /\ b \in Saved
  BY <1>1, DiscoveryAssumption DEF Ready, Saved
<1>4. /\ s \in DOMAIN OriginOf /\ (OriginOf[s] = d \/ s \in Edited)
      /\ b \in DOMAIN BookmarkedOf
      /\ BookmarkedOf[b] = s \/ s \in Edited \/ b \in Edited
  BY <1>3 DEF OriginOf, BookmarkedOf, Edited
<1>5. StateOf' = [StateOf EXCEPT ![d] = "accepted"] /\ StateOf[d] # "absent"
  BY <1>2 DEF StateOf
<1>6. PromotedOf' = [PromotedOf EXCEPT ![d] = [service |-> s, bookmark |-> b]]
  BY <1>2 DEF PromotedOf
<1>7. UNCHANGED OriginOf /\ UNCHANGED BookmarkedOf /\ UNCHANGED Edited
  BY <1>1, SameServices, SameBookmarks, SameEdited
<1>8. P!Promote(d, s, b)
  BY <1>4, <1>5, <1>6, <1>7 DEF P!Promote, StateOf, PromotedOf, OriginOf, BookmarkedOf
<1> QED
  BY <1>8 DEF Maps, P!PromotionNext

-----------------------------------------------------------------------------
(* The steps of Acceptance *)

LEMMA UserStepMaps == ASSUME TypeOK, UserStep PROVE Maps
<1>1. ASSUME NEW d \in Discovered, IgnoreDiscoveredService(d) \/ RestoreDiscoveredService(d)
      PROVE  Maps
  <2>1. discovered \in [Discovered -> DiscoveredRow] /\ UNCHANGED <<services, bookmarks>>
    BY <1>1 DEF TypeOK, TablesTypeOK, IgnoreDiscoveredService, RestoreDiscoveredService,
                IgnoreRow, RestoreRow
  <2>2. CASE IgnoreDiscoveredService(d)
    <3> DEFINE r == [discovered[d] EXCEPT !.state = "ignored",
                                          !.ignored = DiscoveredFingerprintHash(d)]
    <3>1. discovered[d].state # "absent" /\ discovered' = [discovered EXCEPT ![d] = r]
      BY <2>1, <2>2 DEF IgnoreDiscoveredService, IgnoreRow
    <3>2. /\ r.state = "ignored" /\ r.service = discovered[d].service
          /\ r.bookmark = discovered[d].bookmark
      BY <2>1 DEF DiscoveredRow
    <3> HIDE DEF r
    <3> QED
      BY <2>1, <3>1, <3>2, TriageMaps
  <2>3. CASE RestoreDiscoveredService(d)
    <3> DEFINE r == [discovered[d] EXCEPT !.state = "pending", !.ignored = None]
    <3>1. discovered' = [discovered EXCEPT ![d] = r]
      BY <2>1, <2>3 DEF RestoreDiscoveredService, RestoreRow
    <3>2. /\ r.state = "pending" /\ r.service = discovered[d].service
          /\ r.bookmark = discovered[d].bookmark
      BY <2>1 DEF DiscoveredRow
    <3> HIDE DEF r
    <3> QED
      BY <2>1, <3>1, <3>2, TriageMaps
  <2> QED
    BY <1>1, <2>2, <2>3
<1>2. ASSUME NEW s \in Services, DeleteService(s) PROVE Maps
  BY <1>2, DeletingServiceMaps DEF DeleteService
<1>3. ASSUME NEW s \in Services, CreateBookmarkFromService(s) PROVE Maps
  BY <1>3, SavingBookmarkMaps DEF CreateBookmarkFromService
<1>4. ASSUME NEW b \in Bookmarks, DeleteBookmark(b) PROVE Maps
  BY <1>4, DeletingBookmarkMaps DEF DeleteBookmark
<1>5. ASSUME NEW s \in Services, SaveService(s) PROVE Maps
  <2>1. PICK row \in UserRows, name \in Names :
          EditServiceRow(s, row.origin, row.source, row.ref, name)
    BY <1>5 DEF SaveService
  <2>2. row.origin \in Discovered \cup {None}
    BY AcceptanceAssumption
  <2> DEFINE r == [live |-> TRUE, origin |-> row.origin, source |-> row.source,
                   ref |-> row.ref, name |-> name, copied |-> services[s].copied,
                   edited |-> TRUE]
  <2>3. services' = [services EXCEPT ![s] = r] /\ UNCHANGED <<discovered, bookmarks>>
    BY <2>1 DEF EditServiceRow, WriteServiceRow
  <2>4. r.live /\ r.edited /\ r.origin = row.origin
    OBVIOUS
  <2> HIDE DEF r
  <2> QED
    BY <2>2, <2>3, <2>4, RewritingServiceMaps
<1>6. ASSUME NEW b \in Bookmarks, PutBookmark(b) PROVE Maps
  BY <1>6, RewritingBookmarkMaps DEF PutBookmark
<1> QED
  BY <1>1, <1>2, <1>3, <1>4, <1>5, <1>6 DEF UserStep

LEMMA RollBackMaps == ASSUME TypeOK, IInv, NEW a \in Acceptors, RollBack(a) PROVE Maps
<1>1. CASE work[a].created /\ DeleteServiceRow(work[a].service)
  <2>1. PICK s \in Services : DeleteServiceRow(s)
    BY <1>1, WorkParts DEF IInv, Inv, PhaseAgrees
  <2> QED
    BY <2>1, DeletingServiceMaps
<1>2. CASE UNCHANGED tables
  BY <1>2, StutterMaps
<1> QED
  BY <1>1, <1>2 DEF RollBack

\* A discovered service is triaged when a job observes it.
LEMMA ObservationMaps ==
    ASSUME TypeOK, NEW d \in Discovered, NEW source, NEW look, ObserveRow(d, source, look)
    PROVE  Maps
<1> DEFINE n == CASE discovered[d].state = "absent" -> "pending"
                  [] /\ discovered[d].state = "ignored"
                     /\ discovered[d].ignored # None
                     /\ discovered[d].ignored # FingerprintHash(source, look) -> "pending"
                  [] OTHER -> discovered[d].state
           r == [discovered[d] EXCEPT !.state = n]
<1>1. /\ discovered' = [discovered EXCEPT ![d] = r]
      /\ UNCHANGED <<services, bookmarks>>
      /\ discovered[d] \in DiscoveredRow
  BY DEF ObserveRow, TypeOK, TablesTypeOK
<1>2. n \in {"pending", discovered[d].state}
  OBVIOUS
<1> HIDE DEF n
<1>3. /\ r.state = n /\ r.service = discovered[d].service
      /\ r.bookmark = discovered[d].bookmark
  BY <1>1 DEF DiscoveredRow
<1> HIDE DEF r
<1> QED
  BY <1>1, <1>2, <1>3, TriageMaps

LEMMA AcceptStepMaps == ASSUME TypeOK, IInv, NEW a \in Acceptors, AcceptStep(a) PROVE Maps
<1> DEFINE w == work[a]
<1>1. /\ PhaseAgrees(w, discovered) /\ ServiceAgrees(w, services)
      /\ BookmarkAgrees(w, discovered, services, bookmarks)
      /\ RowsAgree(discovered, services, bookmarks)
  BY DEF IInv, Inv
<1>2. /\ w.pc # "idle" => w.item \in Discovered /\ discovered[w.item].state # "absent"
      /\ w.pc \in HoldingService => w.service \in Services
      /\ w.pc \in {"linking", "marking"} => w.bookmark \in Bookmarks
  BY <1>1, WorkParts DEF PhaseAgrees
<1>3. ASSUME NEW s \in Services, w.item \in Discovered,
             services[s].live /\ ~services[s].edited => services[s].origin = w.item,
             SaveServiceRow(s, w.item, w.source, w.name)
      PROVE  Maps
  <2> DEFINE r == [live |-> TRUE, origin |-> w.item, source |-> w.source, ref |-> w.item,
                   name |-> w.name, copied |-> services[s].copied,
                   edited |-> services[s].edited]
  <2>1. services' = [services EXCEPT ![s] = r] /\ UNCHANGED <<discovered, bookmarks>>
    BY <1>3 DEF SaveServiceRow, WriteServiceRow
  <2>2. /\ r.live /\ r.origin = w.item /\ r.copied = services[s].copied
        /\ r.edited = services[s].edited
    OBVIOUS
  <2>3. ~services[s].live => ~services[s].copied /\ ~services[s].edited
    BY <1>1 DEF RowsAgree
  <2> HIDE DEF r, w
  <2> QED
    BY <1>3, <2>1, <2>2, <2>3, SavingServiceMaps
<1>4. CASE InsertService(a)
  <2>1. w.item \in Discovered
    BY <1>2, <1>4 DEF InsertService
  <2> QED
    BY <1>3, <1>4, <2>1 DEF InsertService, FreeServices
<1>5. CASE ApplyDefinition(a)
  <2>1. /\ w.service \in Services /\ w.item \in Discovered
        /\ services[w.service].live /\ ~services[w.service].edited =>
              services[w.service].origin = w.item
    BY <1>1, <1>2, <1>5, DiscoveryAssumption DEF ApplyDefinition, ServiceAgrees, HoldingService
  <2> QED
    BY <1>3, <1>5, <2>1, StutterMaps DEF ApplyDefinition
<1>6. CASE SyncChecks(a) \/ FailToInsert(a) \/ FailToDefine(a) \/ FailToMark(a)
  BY <1>6, StutterMaps DEF SyncChecks, FailToInsert, FailToDefine, FailToMark
<1>7. CASE CopyChecks(a)
  <2>1. PICK s \in Services : s = w.service
    BY <1>2, <1>7 DEF CopyChecks, HoldingService
  <2>2. PICK d \in Discovered : d = w.item
    BY <1>2, <1>7 DEF CopyChecks
  <2>3. /\ CopyChecksRow(s)
        /\ services[s].live /\ ~services[s].edited => services[s].origin = d
    BY <1>1, <1>7, <2>1, <2>2, DiscoveryAssumption DEF CopyChecks, ServiceAgrees
  <2> QED
    BY <2>3, CopyingChecksMaps
<1>8. CASE SaveBookmark(a)
  <2>1. PICK s \in Services : s = w.service
    BY <1>2, <1>8 DEF SaveBookmark, HoldingService
  <2>2. PICK b \in FreeBookmarks \cup BookmarksOf(s) : SaveBookmarkRow(b, s)
    BY <1>8, <2>1 DEF SaveBookmark
  <2> QED
    BY <2>2, SavingBookmarkMaps
<1>9. CASE FailToBookmark(a)
  BY <1>9, RollBackMaps DEF FailToBookmark
<1>10. CASE LinkBookmark(a)
  <2>1. PICK b \in Bookmarks : LinkBookmarkRow(b, w.item)
    BY <1>2, <1>10 DEF LinkBookmark
  <2> QED
    BY <2>1, LinkingMaps
<1>11. CASE MarkAccepted(a)
  <2>1. PICK d \in Discovered : d = w.item /\ discovered[d].state # "absent"
    BY <1>2, <1>11 DEF MarkAccepted
  <2>2. PICK s \in Services : s = w.service
    BY <1>2, <1>11 DEF MarkAccepted, HoldingService
  <2>3. PICK b \in Bookmarks : b = w.bookmark
    BY <1>2, <1>11 DEF MarkAccepted
  <2>4. MarkAcceptedRow(d, s, b) /\ w.pc = "marking" /\ s # None /\ b # None
    BY <1>11, <2>1, <2>2, <2>3, DiscoveryAssumption DEF MarkAccepted
  <2>5. services[s].live /\ bookmarks[b].live
    BY <2>4 DEF MarkAcceptedRow
  <2>6. /\ services[s].edited \/ (services[s].origin = d /\ services[s].copied)
        /\ bookmarks[b].service = s \/ services[s].edited \/ bookmarks[b].edited
    BY <1>1, <2>1, <2>2, <2>3, <2>4, <2>5 DEF ServiceAgrees, BookmarkAgrees, AfterCopying
  <2> QED
    BY <2>1, <2>4, <2>6, MarkingMaps
<1> QED
  BY <1>4, <1>5, <1>6, <1>7, <1>8, <1>9, <1>10, <1>11 DEF AcceptStep

LEMMA NextMaps == ASSUME TypeOK, IInv, [Next]_vars PROVE Maps
<1>1. CASE UserStep
  BY <1>1, UserStepMaps
<1>2. ASSUME NEW a \in Requests, NEW d \in Discovered, RequestBookmark(a, d) PROVE Maps
  BY <1>2, StutterMaps DEF RequestBookmark
<1>3. ASSUME NEW a \in Jobs, NEW d \in Discovered, ProcessObservation(a, d) PROVE Maps
  <2>1. PICK source \in Sources, look \in Looks : ObserveRow(d, source, look)
    BY <1>3 DEF ProcessObservation
  <2> QED
    BY <2>1, ObservationMaps
<1>4. ASSUME NEW a \in Jobs, AutoBookmark(a) \/ SkipObservation(a) PROVE Maps
  BY <1>4, StutterMaps DEF AutoBookmark, SkipObservation
<1>5. ASSUME NEW a \in Acceptors, AcceptStep(a) PROVE Maps
  BY <1>5, AcceptStepMaps
<1>6. ASSUME NEW a \in Acceptors, FailAndRollBack(a) \/ FailForGood(a) PROVE Maps
  BY <1>6, RollBackMaps, StutterMaps DEF FailAndRollBack, FailForGood
<1>7. CASE ProcessStops
  BY <1>7, StutterMaps DEF ProcessStops
<1>8. CASE UNCHANGED vars
  BY <1>8, StutterMaps DEF vars
<1> QED
  BY <1>1, <1>2, <1>3, <1>4, <1>5, <1>6, <1>7, <1>8 DEF Next

-----------------------------------------------------------------------------
(* The theorem *)

\* Whatever requests, jobs and users do, and wherever a call fails or the process stops: a
\* discovered service is promoted in one step, to a service that has taken over its checks
\* and to a bookmark of that service, and only a deletion cuts either reference; what users
\* rewrite by the API is exempt row by row, and nothing else.
THEOREM AcceptanceImplementsPromotion == Spec => PromotesAtomically
<1>1. Init => P!PromotionInit
  <2> SUFFICES ASSUME Init PROVE P!PromotionInit
    OBVIOUS
  <2>1. Ready = {} /\ Saved = {} /\ Edited = {}
    BY DEF Init, TablesInit, Ready, Saved, Edited, NoService, NoBookmark
  <2> QED
    BY <2>1 DEF Init, TablesInit, P!PromotionInit
<1>2. TypeOK /\ IInv /\ [Next]_vars => [P!PromotionNext]_(P!promotionVars)
  BY NextMaps
     DEF Maps, Mapped, P!promotionVars, StateOf, PromotedOf, OriginOf, BookmarkedOf
<1> QED
  BY <1>1, <1>2, AcceptanceInvariant, PTL DEF Spec, PromotesAtomically, P!Promotes
=============================================================================
