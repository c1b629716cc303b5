--------------------------- MODULE AcceptanceProofs ---------------------------
(***************************************************************************)
(* Theorems about Acceptance, for any number of discovered services,        *)
(* services, bookmarks and acceptors.                                       *)
(*                                                                         *)
(* None of the safety properties is inductive: what the rows refer to depends  *)
(* on what acceptors hold between two of their transactions.  Inv below adds    *)
(* that.  It and the lemmas speak of values w, D, S and B of work, discovered,  *)
(* services and bookmarks, and each lemma of one change of them, so that a step *)
(* of Acceptance, which is a transaction followed by a change of an acceptor's  *)
(* memory, is proved by two of them.                                         *)
(***************************************************************************)
EXTENDS Acceptance, TLAPS

HoldingService == {"defining", "syncing", "copying", "bookmarking", "linking", "marking"}
AfterCopying   == {"bookmarking", "linking", "marking"}

\* The rows agree with one another, and what is edited or has its checks is there.
RowsAgree(D, S, B) ==
    /\ \A d \in Discovered : D[d].service # None =>
          /\ S[D[d].service].live
          /\ S[D[d].service].edited \/ (S[D[d].service].origin = d /\ S[D[d].service].copied)
    /\ \A d \in Discovered : D[d].bookmark # None =>
          /\ B[D[d].bookmark].live
          /\ B[D[d].bookmark].edited \/ B[D[d].bookmark].discovered = d
          /\ D[d].service # None =>
                \/ B[D[d].bookmark].service = D[d].service
                \/ S[D[d].service].edited \/ B[D[d].bookmark].edited
    /\ \A b \in Bookmarks : B[b].service # None => B[b].live /\ S[B[b].service].live
    /\ \A b \in Bookmarks : ~B[b].live => B[b].discovered = None /\ ~B[b].edited
    /\ \A s \in Services : ~S[s].live => ~S[s].copied /\ ~S[s].edited

\* Whoever knows the service s has it for the discovered service i.  The origin of its row
\* does not say so any more once a user has edited it.
Claims(s, i, w, D, B) ==
    /\ \A d \in Discovered : D[d].service = s => d = i
    /\ \A c \in Acceptors : w[c].service = s => w[c].item = i
    /\ \A b \in Bookmarks : B[b].service = s /\ B[b].discovered # None =>
          B[b].discovered = i \/ B[b].edited

\* What an acceptor with memory x holds goes with where it is.
PhaseAgrees(x, D) ==
    /\ x.pc # "idle" => x.item # None /\ D[x.item].state # "absent"
    /\ x.pc \in HoldingService <=> x.service # None
    /\ x.pc \in {"linking", "marking"} <=> x.bookmark # None
    /\ x.created => x.pc \in HoldingService \ {"defining", "syncing"}

\* The service it holds was made of the service it accepts, unless it has been deleted or
\* edited.
ServiceAgrees(x, S) ==
    x.service # None /\ S[x.service].live /\ ~S[x.service].edited =>
        /\ S[x.service].origin = x.item
        /\ x.pc \in AfterCopying => S[x.service].copied

\* And so does the bookmark it holds.
BookmarkAgrees(x, D, S, B) ==
    x.bookmark # None /\ B[x.bookmark].live /\ ~B[x.bookmark].edited =>
        /\ B[x.bookmark].service \in {x.service, None}
        /\ S[x.service].live => B[x.bookmark].service = x.service \/ S[x.service].edited
        /\ x.pc = "marking" => B[x.bookmark].discovered = x.item
        /\ \A d \in Discovered : D[d].bookmark = x.bookmark => d = x.item

\* Nobody else knows the service that an acceptance in progress has made.
Owns(x) == x.pc \in {"defining", "syncing"} \/ x.created

Exclusive(a, w, D) ==
    Owns(w[a]) =>
        /\ \A c \in Acceptors \ {a} : w[c].service # w[a].service
        /\ \A d \in Discovered : D[d].service # w[a].service

\* Two acceptors with one bookmark hold one service.
SameAgree(x, y, B) ==
    /\ x.bookmark # None /\ x.bookmark = y.bookmark
    /\ B[x.bookmark].live /\ ~B[x.bookmark].edited
    => x.service = y.service

Inv(w, D, S, B) ==
    /\ RowsAgree(D, S, B)
    /\ \A d \in Discovered : D[d].service # None => Claims(D[d].service, d, w, D, B)
    /\ \A a \in Acceptors :
          /\ PhaseAgrees(w[a], D)
          /\ ServiceAgrees(w[a], S)
          /\ BookmarkAgrees(w[a], D, S, B)
          /\ Exclusive(a, w, D)
          /\ w[a].service # None => Claims(w[a].service, w[a].item, w, D, B)
          /\ \A c \in Acceptors : SameAgree(w[a], w[c], B)

IInv == Inv(work, discovered, services, bookmarks)

Typed(w, D, S, B) ==
    /\ w \in [Acceptors -> Work]
    /\ D \in [Discovered -> DiscoveredRow]
    /\ S \in [Services -> ServiceRow]
    /\ B \in [Bookmarks -> BookmarkRow]

-----------------------------------------------------------------------------
(* Changes of what an acceptor holds *)

\* An acceptor may hold x instead of what it holds, if x agrees with the rows and with
\* what the others hold.
LEMMA Replacing ==
    ASSUME NEW w, NEW D, NEW S, NEW B, Typed(w, D, S, B), Inv(w, D, S, B),
           NEW a \in Acceptors, NEW x,
           PhaseAgrees(x, D), ServiceAgrees(x, S), BookmarkAgrees(x, D, S, B),
           x.service # None => Claims(x.service, x.item, w, D, B),
           \A c \in Acceptors \ {a} :
               /\ Owns(x) \/ Owns(w[c]) => w[c].service # x.service
               /\ SameAgree(x, w[c], B),
           Owns(x) => \A d \in Discovered : D[d].service # x.service
    PROVE  Inv([w EXCEPT ![a] = x], D, S, B)
<1> DEFINE v == [w EXCEPT ![a] = x]
<1>1. v[a] = x /\ \A c \in Acceptors \ {a} : v[c] = w[c]
  BY DEF Typed
<1>2. ASSUME NEW e \in Acceptors
      PROVE  PhaseAgrees(v[e], D) /\ ServiceAgrees(v[e], S) /\ BookmarkAgrees(v[e], D, S, B)
  BY <1>1 DEF Inv
<1>3. ASSUME NEW e \in Acceptors PROVE Exclusive(e, v, D)
  <2>1. CASE e = a
    BY <1>1, <2>1 DEF Exclusive
  <2>2. CASE e # a
    <3>1. Exclusive(e, w, D) /\ v[e] = w[e]
      BY <1>1, <2>2 DEF Inv
    <3>2. Owns(w[e]) => v[a].service # w[e].service
      BY <1>1, <2>2
    <3> QED
      BY <1>1, <3>1, <3>2 DEF Exclusive
  <2> QED
    BY <2>1, <2>2
<1>4. ASSUME NEW e \in Acceptors, NEW c \in Acceptors PROVE SameAgree(v[e], v[c], B)
  <2>1. SameAgree(w[e], w[c], B)
    BY DEF Inv
  <2>2. e # a => SameAgree(x, w[e], B)
    OBVIOUS
  <2>3. c # a => SameAgree(x, w[c], B)
    OBVIOUS
  <2> QED
    BY <1>1, <2>1, <2>2, <2>3 DEF SameAgree
<1> HIDE DEF v
<1>5. RowsAgree(D, S, B)
  BY DEF Inv
<1>6. ASSUME NEW d \in Discovered, D[d].service # None
      PROVE  Claims(D[d].service, d, v, D, B)
  BY <1>1, <1>6 DEF Inv, Claims
<1>7. ASSUME NEW e \in Acceptors, v[e].service # None
      PROVE  Claims(v[e].service, v[e].item, v, D, B)
  BY <1>1, <1>7 DEF Inv, Claims
<1>8. Inv(v, D, S, B)
  BY <1>2, <1>3, <1>4, <1>5, <1>6, <1>7 DEF Inv
<1> QED
  BY <1>8 DEF v

\* An acceptor returns, observes, or reads a discovered service anew: it holds at most the
\* service that the row refers to.
LEMMA Rereading ==
    ASSUME NEW w, NEW D, NEW S, NEW B, Typed(w, D, S, B), Inv(w, D, S, B),
           NEW a \in Acceptors, NEW x \in Work, PhaseAgrees(x, D),
           x.pc \in {"idle", "observed", "inserting", "bookmarking"}, ~x.created,
           x.service # None => x.service = D[x.item].service
    PROVE  Inv([w EXCEPT ![a] = x], D, S, B)
<1>1. x.bookmark = None /\ ~Owns(x) /\ BookmarkAgrees(x, D, S, B)
  BY DEF PhaseAgrees, Owns, BookmarkAgrees
<1>2. x.service # None => x.item \in Discovered /\ D[x.item].service = x.service
  BY DEF PhaseAgrees, HoldingService, Work
<1>3. ServiceAgrees(x, S)
  BY <1>2 DEF Inv, RowsAgree, ServiceAgrees
<1>4. x.service # None => Claims(x.service, x.item, w, D, B)
  BY <1>2 DEF Inv
<1>5. ASSUME NEW c \in Acceptors \ {a}
      PROVE  (Owns(w[c]) => w[c].service # x.service) /\ SameAgree(x, w[c], B)
  <2>1. PhaseAgrees(w[c], D) /\ Exclusive(c, w, D)
    BY DEF Inv
  <2>2. CASE x.service = None
    BY <1>1, <2>1, <2>2 DEF PhaseAgrees, HoldingService, Owns, SameAgree
  <2>3. CASE x.service # None
    BY <1>1, <1>2, <2>1, <2>3 DEF Exclusive, SameAgree
  <2> QED
    BY <2>2, <2>3
<1> QED
  BY <1>1, <1>3, <1>4, <1>5, Replacing

\* All acceptors return at once.
LEMMA Forgetting ==
    ASSUME NEW w, NEW D, NEW S, NEW B, Inv(w, D, S, B)
    PROVE  Inv([a \in Acceptors |-> Resting], D, S, B)
<1>1. ASSUME NEW d \in Discovered, D[d].service # None
      PROVE  Claims(D[d].service, d, [a \in Acceptors |-> Resting], D, B)
  BY <1>1 DEF Inv, Claims, Resting
<1> QED
  BY <1>1 DEF Inv, Resting, PhaseAgrees, HoldingService, ServiceAgrees, BookmarkAgrees,
              Exclusive, Owns, SameAgree

\* An acceptor remembers the service it has inserted.
LEMMA HoldingInserted ==
    ASSUME NEW w, NEW D, NEW S, NEW B, Typed(w, D, S, B), Inv(w, D, S, B),
           NEW a \in Acceptors, w[a].pc = "inserting",
           NEW s \in Services, S[s].live, S[s].origin = w[a].item,
           \A c \in Acceptors : w[c].service # s,
           \A d \in Discovered : D[d].service # s,
           \A b \in Bookmarks : B[b].service # s
    PROVE  Inv([w EXCEPT ![a] = [w[a] EXCEPT !.pc = "defining", !.service = s]], D, S, B)
<1> DEFINE x == [w[a] EXCEPT !.pc = "defining", !.service = s]
<1>1. /\ x.pc = "defining" /\ x.service = s /\ x.item = w[a].item
      /\ x.bookmark = w[a].bookmark /\ x.created = w[a].created
  BY DEF Typed, Work
<1> HIDE DEF x
<1>2. PhaseAgrees(w[a], D) /\ s # None
  BY DiscoveryAssumption DEF Inv
<1>3. PhaseAgrees(x, D) /\ x.bookmark = None
  BY <1>1, <1>2 DEF PhaseAgrees, HoldingService
<1>4. ServiceAgrees(x, S) /\ BookmarkAgrees(x, D, S, B)
  BY <1>1, <1>3 DEF ServiceAgrees, BookmarkAgrees, AfterCopying
<1>5. \A c \in Acceptors : w[c].service # x.service /\ SameAgree(x, w[c], B)
  BY <1>1, <1>3 DEF SameAgree
<1>6. \A d \in Discovered : D[d].service # x.service
  BY <1>1
<1>7. Claims(x.service, x.item, w, D, B)
  BY <1>1 DEF Claims
<1>8. Inv([w EXCEPT ![a] = x], D, S, B)
  BY <1>3, <1>4, <1>5, <1>6, <1>7, Replacing
<1> QED
  BY <1>8 DEF x

\* An acceptor goes on from one phase to the next.
LEMMA Advancing ==
    ASSUME NEW w, NEW D, NEW S, NEW B, Typed(w, D, S, B), Inv(w, D, S, B),
           NEW a \in Acceptors, NEW x,
           x.item = w[a].item, x.service = w[a].service, x.bookmark = w[a].bookmark,
           \/ w[a].pc = "defining" /\ x.pc = "syncing" /\ x.created = w[a].created
           \/ w[a].pc = "syncing" /\ x.pc = "copying" /\ x.created = TRUE
           \/ /\ w[a].pc = "copying" /\ x.pc = "bookmarking" /\ x.created = w[a].created
              /\ S[w[a].service].live => S[w[a].service].copied
           \/ /\ w[a].pc = "linking" /\ x.pc = "marking" /\ x.created = w[a].created
              /\ B[w[a].bookmark].live => B[w[a].bookmark].discovered = w[a].item
    PROVE  Inv([w EXCEPT ![a] = x], D, S, B)
<1>1. /\ PhaseAgrees(w[a], D) /\ ServiceAgrees(w[a], S) /\ BookmarkAgrees(w[a], D, S, B)
      /\ Exclusive(a, w, D)
      /\ w[a].service # None => Claims(w[a].service, w[a].item, w, D, B)
  BY DEF Inv
<1>2. PhaseAgrees(x, D)
  BY <1>1 DEF PhaseAgrees, HoldingService
<1>3. ServiceAgrees(x, S)
  BY <1>1 DEF ServiceAgrees, AfterCopying
<1>4. BookmarkAgrees(x, D, S, B)
  BY <1>1 DEF BookmarkAgrees
<1>5. Owns(x) => Owns(w[a])
  BY DEF Owns
<1>6. ASSUME NEW c \in Acceptors \ {a}
      PROVE  (Owns(x) \/ Owns(w[c]) => w[c].service # x.service) /\ SameAgree(x, w[c], B)
  <2>1. Exclusive(c, w, D) /\ SameAgree(w[a], w[c], B)
    BY DEF Inv
  <2> QED
    BY <1>1, <1>5, <2>1 DEF Exclusive, SameAgree
<1>7. x.service # None => Claims(x.service, x.item, w, D, B)
  BY <1>1
<1>8. Owns(x) => \A d \in Discovered : D[d].service # x.service
  BY <1>1, <1>5 DEF Exclusive
<1> QED
  BY <1>2, <1>3, <1>4, <1>6, <1>7, <1>8, Replacing

\* An acceptor remembers the bookmark it has saved.
LEMMA HoldingBookmark ==
    ASSUME NEW w, NEW D, NEW S, NEW B, Typed(w, D, S, B), Inv(w, D, S, B),
           NEW a \in Acceptors, w[a].pc = "bookmarking", S[w[a].service].live,
           NEW b \in Bookmarks, B[b].live, B[b].service = w[a].service
    PROVE  Inv([w EXCEPT ![a] = [w[a] EXCEPT !.pc = "linking", !.bookmark = b]], D, S, B)
<1> DEFINE x == [w[a] EXCEPT !.pc = "linking", !.bookmark = b]
<1>1. /\ x.pc = "linking" /\ x.bookmark = b /\ x.item = w[a].item
      /\ x.service = w[a].service /\ x.created = w[a].created
  BY DEF Typed, Work
<1> HIDE DEF x
<1>2. /\ PhaseAgrees(w[a], D) /\ ServiceAgrees(w[a], S) /\ Exclusive(a, w, D)
      /\ RowsAgree(D, S, B) /\ b # None
      /\ w[a].service # None => Claims(w[a].service, w[a].item, w, D, B)
  BY DiscoveryAssumption DEF Inv
<1>3. PhaseAgrees(x, D)
  BY <1>1, <1>2 DEF PhaseAgrees, HoldingService
<1>4. ServiceAgrees(x, S) /\ x.service # None
  BY <1>1, <1>2 DEF ServiceAgrees, AfterCopying, PhaseAgrees, HoldingService
<1>5. Claims(x.service, x.item, w, D, B)
  BY <1>1, <1>2, <1>4
<1>6. BookmarkAgrees(x, D, S, B)
  <2>1. ASSUME NEW d \in Discovered, D[d].bookmark = b, ~B[b].edited PROVE d = x.item
    <3>1. B[b].discovered = d /\ d # None
      BY <1>2, <2>1, DiscoveryAssumption DEF RowsAgree
    <3> QED
      BY <1>1, <1>5, <2>1, <3>1 DEF Claims
  <2> QED
    BY <1>1, <2>1 DEF BookmarkAgrees
<1>7. ASSUME NEW c \in Acceptors \ {a}
      PROVE  (Owns(x) \/ Owns(w[c]) => w[c].service # x.service) /\ SameAgree(x, w[c], B)
  <2>1. Exclusive(c, w, D) /\ BookmarkAgrees(w[c], D, S, B)
    BY DEF Inv
  <2>2. Owns(x) => Owns(w[a])
    BY <1>1 DEF Owns
  <2>3. w[c].bookmark = b /\ ~B[b].edited => w[c].service = w[a].service
    BY <1>1, <1>2, <1>4, <2>1 DEF BookmarkAgrees
  <2> QED
    BY <1>1, <1>2, <2>1, <2>2, <2>3 DEF Exclusive, SameAgree
<1>8. Owns(x) => \A d \in Discovered : D[d].service # x.service
  BY <1>1, <1>2 DEF Owns, Exclusive
<1>9. Inv([w EXCEPT ![a] = x], D, S, B)
  BY <1>3, <1>4, <1>5, <1>6, <1>7, <1>8, Replacing
<1> QED
  BY <1>9 DEF x

-----------------------------------------------------------------------------
(* Changes of the rows *)

\* Observing, ignoring and restoring change neither reference.
LEMMA Triaging ==
    ASSUME NEW w, NEW D, NEW S, NEW B, Typed(w, D, S, B), Inv(w, D, S, B),
           NEW D2,
           \A d \in Discovered :
               /\ D2[d].service = D[d].service /\ D2[d].bookmark = D[d].bookmark
               /\ D[d].state # "absent" => D2[d].state # "absent"
    PROVE  Inv(w, D2, S, B)
<1>1. RowsAgree(D2, S, B)
  BY DEF Inv, RowsAgree
<1>2. ASSUME NEW a \in Acceptors
      PROVE  /\ PhaseAgrees(w[a], D2) /\ BookmarkAgrees(w[a], D2, S, B) /\ Exclusive(a, w, D2)
             /\ w[a].service # None => Claims(w[a].service, w[a].item, w, D2, B)
  <2>1. /\ PhaseAgrees(w[a], D) /\ BookmarkAgrees(w[a], D, S, B) /\ Exclusive(a, w, D)
        /\ w[a].service # None => Claims(w[a].service, w[a].item, w, D, B)
        /\ w[a] \in Work
    BY DEF Inv, Typed
  <2>2. w[a].item # None => w[a].item \in Discovered
    BY <2>1 DEF Work
  <2> QED
    BY <2>1, <2>2 DEF PhaseAgrees, BookmarkAgrees, Exclusive, Claims
<1>3. ASSUME NEW d \in Discovered, D2[d].service # None
      PROVE  Claims(D2[d].service, d, w, D2, B)
  BY <1>3 DEF Inv, Claims
<1> QED
  BY <1>1, <1>2, <1>3 DEF Inv

\* The deletion of a service takes the references to it along.
LEMMA DeletingService ==
    ASSUME NEW w, NEW D, NEW S, NEW B, Typed(w, D, S, B), Inv(w, D, S, B),
           NEW s \in Services, NEW D2, NEW S2, NEW B2,
           S2 = [S EXCEPT ![s] = NoService],
           B2 = [b \in Bookmarks |->
                    IF B[b].service = s THEN [B[b] EXCEPT !.service = None] ELSE B[b]],
           D2 = [d \in Discovered |->
                    IF D[d].service = s THEN [D[d] EXCEPT !.service = None] ELSE D[d]]
    PROVE  Inv(w, D2, S2, B2)
<1>1. \A d \in Discovered :
        /\ D2[d].state = D[d].state /\ D2[d].bookmark = D[d].bookmark
        /\ D2[d].service = IF D[d].service = s THEN None ELSE D[d].service
  BY DEF Typed, DiscoveredRow
<1>2. \A b \in Bookmarks :
        /\ B2[b].live = B[b].live /\ B2[b].discovered = B[b].discovered
        /\ B2[b].edited = B[b].edited
        /\ B2[b].service = IF B[b].service = s THEN None ELSE B[b].service
  BY DEF Typed, BookmarkRow
<1>3. /\ ~S2[s].live /\ ~S2[s].copied /\ ~S2[s].edited
      /\ \A t \in Services \ {s} : S2[t] = S[t]
  BY DEF Typed, NoService
<1>4. /\ \A d \in Discovered : D[d].service # None => D[d].service \in Services
      /\ \A d \in Discovered : D[d].bookmark # None => D[d].bookmark \in Bookmarks
      /\ \A b \in Bookmarks : B[b].service # None => B[b].service \in Services
  BY DEF Typed, DiscoveredRow, BookmarkRow
<1> HIDE DEF Typed
<1>5. RowsAgree(D2, S2, B2)
  <2>1. RowsAgree(D, S, B)
    BY DEF Inv
  <2>2. ASSUME NEW d \in Discovered, D2[d].service # None
        PROVE  /\ S2[D2[d].service].live
               /\ \/ S2[D2[d].service].edited
                  \/ S2[D2[d].service].origin = d /\ S2[D2[d].service].copied
    BY <1>1, <1>3, <1>4, <2>1, <2>2 DEF RowsAgree
  <2>3. ASSUME NEW d \in Discovered, D2[d].bookmark # None
        PROVE  /\ B2[D2[d].bookmark].live
               /\ B2[D2[d].bookmark].edited \/ B2[D2[d].bookmark].discovered = d
               /\ D2[d].service # None =>
                    \/ B2[D2[d].bookmark].service = D2[d].service
                    \/ S2[D2[d].service].edited \/ B2[D2[d].bookmark].edited
    BY <1>1, <1>2, <1>3, <1>4, <2>1, <2>3 DEF RowsAgree
  <2>4. ASSUME NEW b \in Bookmarks, B2[b].service # None
        PROVE  B2[b].live /\ S2[B2[b].service].live
    BY <1>2, <1>3, <1>4, <2>1, <2>4 DEF RowsAgree
  <2>5. \A b \in Bookmarks : ~B2[b].live => B2[b].discovered = None /\ ~B2[b].edited
    BY <1>2, <2>1 DEF RowsAgree
  <2>6. \A t \in Services : ~S2[t].live => ~S2[t].copied /\ ~S2[t].edited
    BY <1>3, <2>1 DEF RowsAgree
  <2> QED
    BY <2>2, <2>3, <2>4, <2>5, <2>6 DEF RowsAgree
<1>6. ASSUME NEW a \in Acceptors
      PROVE  /\ PhaseAgrees(w[a], D2) /\ ServiceAgrees(w[a], S2)
             /\ BookmarkAgrees(w[a], D2, S2, B2) /\ Exclusive(a, w, D2)
             /\ w[a].service # None => Claims(w[a].service, w[a].item, w, D2, B2)
             /\ \A c \in Acceptors : SameAgree(w[a], w[c], B2)
  <2>1. /\ PhaseAgrees(w[a], D) /\ ServiceAgrees(w[a], S)
        /\ BookmarkAgrees(w[a], D, S, B) /\ Exclusive(a, w, D)
        /\ w[a].service # None => Claims(w[a].service, w[a].item, w, D, B)
        /\ \A c \in Acceptors : SameAgree(w[a], w[c], B)
    BY DEF Inv
  <2>2. /\ w[a].item # None => w[a].item \in Discovered
        /\ w[a].service # None => w[a].service \in Services
        /\ w[a].bookmark # None => w[a].bookmark \in Bookmarks
    BY DEF Typed, Work
  <2>3. PhaseAgrees(w[a], D2)
    BY <1>1, <2>1, <2>2 DEF PhaseAgrees
  <2>4. ServiceAgrees(w[a], S2)
    BY <1>3, <2>1, <2>2 DEF ServiceAgrees
  <2>5. BookmarkAgrees(w[a], D2, S2, B2)
    BY <1>1, <1>2, <1>3, <2>1, <2>2 DEF BookmarkAgrees, PhaseAgrees, HoldingService
  <2>6. Exclusive(a, w, D2)
    BY <1>1, <2>1, DiscoveryAssumption DEF Exclusive, PhaseAgrees, Owns, HoldingService
  <2>7. w[a].service # None => Claims(w[a].service, w[a].item, w, D2, B2)
    BY <1>1, <1>2, <2>1 DEF Claims
  <2>8. \A c \in Acceptors : SameAgree(w[a], w[c], B2)
    BY <1>2, <2>1, <2>2 DEF SameAgree
  <2> QED
    BY <2>3, <2>4, <2>5, <2>6, <2>7, <2>8
<1>7. ASSUME NEW d \in Discovered, D2[d].service # None
      PROVE  Claims(D2[d].service, d, w, D2, B2)
  BY <1>1, <1>2, <1>7 DEF Inv, Claims
<1> QED
  BY <1>5, <1>6, <1>7 DEF Inv

\* So does the deletion of a bookmark.
LEMMA DeletingBookmark ==
    ASSUME NEW w, NEW D, NEW S, NEW B, Typed(w, D, S, B), Inv(w, D, S, B),
           NEW b \in Bookmarks, NEW D2, NEW B2,
           B2 = [B EXCEPT ![b] = NoBookmark],
           D2 = [d \in Discovered |->
                    IF D[d].bookmark = b THEN [D[d] EXCEPT !.bookmark = None] ELSE D[d]]
    PROVE  Inv(w, D2, S, B2)
<1>1. \A d \in Discovered :
        /\ D2[d].state = D[d].state /\ D2[d].service = D[d].service
        /\ D2[d].bookmark = IF D[d].bookmark = b THEN None ELSE D[d].bookmark
  BY DEF Typed, DiscoveredRow
<1>2. /\ ~B2[b].live /\ B2[b].service = None /\ B2[b].discovered = None /\ ~B2[b].edited
      /\ \A c \in Bookmarks \ {b} : B2[c] = B[c]
  BY DEF Typed, NoBookmark
<1>3. \A d \in Discovered : D[d].bookmark # None => D[d].bookmark \in Bookmarks
  BY DEF Typed, DiscoveredRow
<1>4. RowsAgree(D2, S, B2)
  BY <1>1, <1>2, <1>3 DEF Inv, RowsAgree
<1>5. ASSUME NEW a \in Acceptors
      PROVE  /\ PhaseAgrees(w[a], D2) /\ BookmarkAgrees(w[a], D2, S, B2)
             /\ Exclusive(a, w, D2)
             /\ w[a].service # None => Claims(w[a].service, w[a].item, w, D2, B2)
             /\ \A c \in Acceptors : SameAgree(w[a], w[c], B2)
  <2>1. /\ PhaseAgrees(w[a], D) /\ BookmarkAgrees(w[a], D, S, B) /\ Exclusive(a, w, D)
        /\ w[a].service # None => Claims(w[a].service, w[a].item, w, D, B)
        /\ \A c \in Acceptors : SameAgree(w[a], w[c], B)
    BY DEF Inv
  <2>2. /\ w[a].item # None => w[a].item \in Discovered
        /\ w[a].bookmark # None => w[a].bookmark \in Bookmarks
    BY DEF Typed, Work
  <2>3. w[a].service # None => Claims(w[a].service, w[a].item, w, D2, B2)
    BY <1>1, <1>2, <2>1 DEF Claims
  <2> QED
    BY <1>1, <1>2, <2>1, <2>2, <2>3 DEF PhaseAgrees, BookmarkAgrees, Exclusive, SameAgree
<1>6. ASSUME NEW d \in Discovered, D2[d].service # None
      PROVE  Claims(D2[d].service, d, w, D2, B2)
  BY <1>1, <1>2, <1>6 DEF Inv, Claims
<1> QED
  BY <1>4, <1>5, <1>6 DEF Inv

\* A bookmark that nobody knows is inserted for a service that has none.
LEMMA InsertingBookmark ==
    ASSUME NEW w, NEW D, NEW S, NEW B, Typed(w, D, S, B), Inv(w, D, S, B),
           NEW b \in Bookmarks, NEW s \in Services, S[s].live, ~B[b].live,
           \A a \in Acceptors : w[a].bookmark # b,
           NEW B2, B2 = [B EXCEPT ![b] = [B[b] EXCEPT !.live = TRUE, !.service = s]]
    PROVE  Inv(w, D, S, B2)
<1>1. /\ B2[b].live /\ B2[b].service = s /\ B2[b].discovered = B[b].discovered
      /\ B2[b].edited = B[b].edited
      /\ \A c \in Bookmarks \ {b} : B2[c] = B[c]
  BY DEF Typed, BookmarkRow
<1>2. RowsAgree(D, S, B) /\ B[b].discovered = None
  BY DEF Inv, RowsAgree
<1>3. \A d \in Discovered : D[d].bookmark # None => D[d].bookmark \in Bookmarks \ {b}
  BY <1>2 DEF Typed, DiscoveredRow, RowsAgree
<1>4. RowsAgree(D, S, B2)
  BY <1>1, <1>2, <1>3 DEF RowsAgree
<1>5. ASSUME NEW a \in Acceptors
      PROVE  /\ BookmarkAgrees(w[a], D, S, B2)
             /\ w[a].service # None => Claims(w[a].service, w[a].item, w, D, B2)
             /\ \A c \in Acceptors : SameAgree(w[a], w[c], B2)
  <2>1. w[a].bookmark # None => w[a].bookmark \in Bookmarks \ {b}
    BY DEF Typed, Work
  <2>2. w[a].service # None => Claims(w[a].service, w[a].item, w, D, B2)
    BY <1>1, <1>2 DEF Inv, Claims
  <2> QED
    BY <1>1, <2>1, <2>2 DEF Inv, BookmarkAgrees, SameAgree
<1>6. ASSUME NEW d \in Discovered, D[d].service # None PROVE Claims(D[d].service, d, w, D, B2)
  BY <1>1, <1>2, <1>6 DEF Inv, Claims
<1> QED
  BY <1>4, <1>5, <1>6 DEF Inv

\* A user writes a bookmark: it belongs to any service that is there, or to none.
LEMMA EditingBookmark ==
    ASSUME NEW w, NEW D, NEW S, NEW B, Typed(w, D, S, B), Inv(w, D, S, B),
           NEW b \in Bookmarks, NEW s, s # None => S[s].live,
           NEW B2, B2 = [B EXCEPT ![b] = [B[b] EXCEPT !.live = TRUE, !.service = s,
                                                     !.edited = TRUE]]
    PROVE  Inv(w, D, S, B2)
<1>1. /\ B2[b].live /\ B2[b].service = s /\ B2[b].edited
      /\ \A c \in Bookmarks \ {b} : B2[c] = B[c]
  BY DEF Typed, BookmarkRow
<1>2. \A d \in Discovered : D[d].bookmark # None => D[d].bookmark \in Bookmarks
  BY DEF Typed, DiscoveredRow
<1>3. RowsAgree(D, S, B2)
  BY <1>1, <1>2 DEF Inv, RowsAgree
<1>4. ASSUME NEW a \in Acceptors
      PROVE  /\ BookmarkAgrees(w[a], D, S, B2)
             /\ w[a].service # None => Claims(w[a].service, w[a].item, w, D, B2)
             /\ \A c \in Acceptors : SameAgree(w[a], w[c], B2)
  <2>1. w[a].bookmark # None => w[a].bookmark \in Bookmarks
    BY DEF Typed, Work
  <2>2. w[a].service # None => Claims(w[a].service, w[a].item, w, D, B2)
    BY <1>1 DEF Inv, Claims
  <2> QED
    BY <1>1, <2>1, <2>2 DEF Inv, BookmarkAgrees, SameAgree
<1>5. ASSUME NEW d \in Discovered, D[d].service # None PROVE Claims(D[d].service, d, w, D, B2)
  BY <1>1, <1>5 DEF Inv, Claims
<1> QED
  BY <1>3, <1>4, <1>5 DEF Inv

\* A user writes a service, whether or not it is there: its references are now the user's.
LEMMA EditingService ==
    ASSUME NEW w, NEW D, NEW S, NEW B, Typed(w, D, S, B), Inv(w, D, S, B),
           NEW s \in Services, NEW r, r.live, r.edited, NEW S2, S2 = [S EXCEPT ![s] = r]
    PROVE  Inv(w, D, S2, B)
<1>1. S2[s] = r /\ \A t \in Services \ {s} : S2[t] = S[t]
  BY DEF Typed
<1>2. /\ \A d \in Discovered : D[d].service # None => D[d].service \in Services
      /\ \A b \in Bookmarks : B[b].service # None => B[b].service \in Services
  BY DEF Typed, DiscoveredRow, BookmarkRow
<1>3. RowsAgree(D, S2, B)
  BY <1>1, <1>2 DEF Inv, RowsAgree
<1>4. ASSUME NEW a \in Acceptors
      PROVE  ServiceAgrees(w[a], S2) /\ BookmarkAgrees(w[a], D, S2, B)
  <2>1. w[a].service # None => w[a].service \in Services
    BY DEF Typed, Work
  <2>2. w[a].bookmark # None => w[a].service # None
    BY DEF Inv, PhaseAgrees, HoldingService
  <2> QED
    BY <1>1, <2>1, <2>2 DEF Inv, ServiceAgrees, BookmarkAgrees
<1> QED
  BY <1>3, <1>4 DEF Inv

\* A service is inserted that no row refers to, or saved again by the acceptance that owns
\* it; what a user has made of it since is overwritten, but not forgotten.
LEMMA SavingService ==
    ASSUME NEW w, NEW D, NEW S, NEW B, Typed(w, D, S, B), Inv(w, D, S, B),
           NEW s \in Services, NEW r, r.live, NEW S2, S2 = [S EXCEPT ![s] = r],
           \/ ~S[s].live /\ \A c \in Acceptors : w[c].service # s
           \/ \E a \in Acceptors :
                 w[a].pc = "defining" /\ w[a].service = s /\ r.origin = w[a].item
    PROVE  Inv(w, D, S2, B)
<1>1. S2[s] = r /\ \A t \in Services \ {s} : S2[t] = S[t]
  BY DEF Typed
<1>2. /\ RowsAgree(D, S, B)
      /\ \A d \in Discovered : D[d].service # None => D[d].service \in Services
      /\ \A b \in Bookmarks : B[b].service # None => B[b].service \in Services
  BY DEF Typed, DiscoveredRow, BookmarkRow, Inv
<1>3. \A d \in Discovered : D[d].service # s
  <2>1. CASE ~S[s].live
    BY <1>2, <2>1, DiscoveryAssumption DEF RowsAgree
  <2>2. CASE \E a \in Acceptors : w[a].pc = "defining" /\ w[a].service = s
    BY <2>2 DEF Inv, Exclusive, Owns
  <2> QED
    BY <2>1, <2>2
<1>5. RowsAgree(D, S2, B)
  BY <1>1, <1>2, <1>3 DEF RowsAgree
<1>6. ASSUME NEW c \in Acceptors
      PROVE  ServiceAgrees(w[c], S2) /\ BookmarkAgrees(w[c], D, S2, B)
  <2>1. ServiceAgrees(w[c], S) /\ BookmarkAgrees(w[c], D, S, B) /\ PhaseAgrees(w[c], D)
    BY DEF Inv
  <2>2. w[c].service # None => w[c].service \in Services
    BY DEF Typed, Work
  <2>3. CASE w[c].service # s
    <3>1. w[c].bookmark # None => w[c].service # None
      BY <2>1 DEF PhaseAgrees, HoldingService
    <3> QED
      BY <1>1, <2>1, <2>2, <2>3, <3>1 DEF ServiceAgrees, BookmarkAgrees
  <2>4. CASE w[c].service = s
    <3>1. PICK a \in Acceptors :
             w[a].pc = "defining" /\ w[a].service = s /\ r.origin = w[a].item
      BY <2>4
    <3>2. a = c
      BY <2>4, <3>1 DEF Inv, Exclusive, Owns
    <3>3. w[c].bookmark = None
      BY <2>1, <3>1, <3>2 DEF PhaseAgrees
    <3> QED
      BY <1>1, <2>4, <3>1, <3>2, <3>3 DEF ServiceAgrees, BookmarkAgrees, AfterCopying
  <2> QED
    BY <2>3, <2>4
<1> QED
  BY <1>5, <1>6 DEF Inv

\* The checks are copied to the service of an acceptance, if it is still there.
LEMMA CopyingChecks ==
    ASSUME NEW w, NEW D, NEW S, NEW B, Typed(w, D, S, B), Inv(w, D, S, B),
           NEW a \in Acceptors, w[a].pc = "copying", NEW s, s = w[a].service,
           NEW S2, S2 = [S EXCEPT ![s].copied = S[s].live]
    PROVE  Inv(w, D, S2, B)
<1>1. s \in Services
  BY DEF Inv, PhaseAgrees, HoldingService, Typed, Work
<1>2. /\ \A t \in Services :
            S2[t].live = S[t].live /\ S2[t].origin = S[t].origin /\ S2[t].edited = S[t].edited
      /\ S2[s].copied = S[s].live
      /\ \A t \in Services \ {s} : S2[t] = S[t]
  BY <1>1 DEF Typed, ServiceRow
<1>3. /\ \A d \in Discovered : D[d].service # None => D[d].service \in Services
      /\ \A b \in Bookmarks : B[b].service # None => B[b].service \in Services
  BY DEF Typed, DiscoveredRow, BookmarkRow
<1>4. RowsAgree(D, S2, B)
  BY <1>2, <1>3 DEF Inv, RowsAgree
<1>5. ASSUME NEW c \in Acceptors
      PROVE  ServiceAgrees(w[c], S2) /\ BookmarkAgrees(w[c], D, S2, B)
  <2>1. ServiceAgrees(w[c], S) /\ BookmarkAgrees(w[c], D, S, B) /\ PhaseAgrees(w[c], D)
    BY DEF Inv
  <2>2. w[c].service # None => w[c].service \in Services
    BY DEF Typed, Work
  <2>3. w[c].bookmark # None => w[c].service # None
    BY <2>1 DEF PhaseAgrees, HoldingService
  <2> QED
    BY <1>2, <2>1, <2>2, <2>3 DEF ServiceAgrees, BookmarkAgrees
<1> QED
  BY <1>4, <1>5 DEF Inv

\* A bookmark that is still there is linked to the discovered service that an acceptor
\* holds; others that hold it accept the same one.
LEMMA Linking ==
    ASSUME NEW w, NEW D, NEW S, NEW B, Typed(w, D, S, B), Inv(w, D, S, B),
           NEW a \in Acceptors, w[a].pc = "linking", NEW b, b = w[a].bookmark, B[b].live,
           NEW B2, B2 = [B EXCEPT ![b].discovered = w[a].item]
    PROVE  Inv(w, D, S, B2)
<1>1. /\ PhaseAgrees(w[a], D) /\ BookmarkAgrees(w[a], D, S, B) /\ RowsAgree(D, S, B)
      /\ w[a].service # None => Claims(w[a].service, w[a].item, w, D, B)
  BY DEF Inv
<1>2. b \in Bookmarks /\ b # None /\ w[a].service # None
  BY <1>1 DEF PhaseAgrees, HoldingService, Typed, Work
<1>3. /\ \A c \in Bookmarks : /\ B2[c].live = B[c].live /\ B2[c].service = B[c].service
                              /\ B2[c].edited = B[c].edited
      /\ B2[b].discovered = w[a].item
      /\ \A c \in Bookmarks \ {b} : B2[c] = B[c]
  BY <1>2 DEF Typed, BookmarkRow
<1>4. \A d \in Discovered : D[d].bookmark # None => D[d].bookmark \in Bookmarks
  BY DEF Typed, DiscoveredRow
<1>5. ~B[b].edited => \A d \in Discovered : D[d].bookmark = b => d = w[a].item
  BY <1>1, <1>2 DEF BookmarkAgrees
<1>6. ~B[b].edited /\ B[b].service # None => B[b].service = w[a].service
  BY <1>1, <1>2 DEF BookmarkAgrees
<1>7. RowsAgree(D, S, B2)
  BY <1>1, <1>2, <1>3, <1>4, <1>5 DEF RowsAgree
<1>8. ASSUME NEW c \in Acceptors
      PROVE  /\ BookmarkAgrees(w[c], D, S, B2)
             /\ w[c].service # None => Claims(w[c].service, w[c].item, w, D, B2)
             /\ \A e \in Acceptors : SameAgree(w[c], w[e], B2)
  <2>1. /\ BookmarkAgrees(w[c], D, S, B) /\ SameAgree(w[a], w[c], B)
        /\ w[c].service # None => Claims(w[c].service, w[c].item, w, D, B)
        /\ \A e \in Acceptors : SameAgree(w[c], w[e], B)
    BY DEF Inv
  <2>2. w[c].bookmark # None => w[c].bookmark \in Bookmarks
    BY DEF Typed, Work
  <2>3. w[c].bookmark = b /\ ~B[b].edited => w[c].item = w[a].item
    BY <1>1, <1>2, <2>1 DEF SameAgree, Claims
  <2>4. BookmarkAgrees(w[c], D, S, B2)
    BY <1>2, <1>3, <2>1, <2>2, <2>3 DEF BookmarkAgrees
  <2>5. ASSUME w[c].service # None PROVE Claims(w[c].service, w[c].item, w, D, B2)
    <3>1. w[c].service = w[a].service => w[c].item = w[a].item
      BY <1>1, <1>2 DEF Claims
    <3> QED
      BY <1>2, <1>3, <1>6, <2>1, <2>5, <3>1 DEF Claims
  <2>6. \A e \in Acceptors : SameAgree(w[c], w[e], B2)
    BY <1>3, <2>1, <2>2 DEF SameAgree
  <2> QED
    BY <2>4, <2>5, <2>6
<1>9. ASSUME NEW d \in Discovered, D[d].service # None PROVE Claims(D[d].service, d, w, D, B2)
  <2>1. D[d].service = w[a].service => d = w[a].item
    BY <1>1, <1>2 DEF Claims
  <2>2. Claims(D[d].service, d, w, D, B)
    BY <1>9 DEF Inv
  <2> QED
    BY <1>2, <1>3, <1>6, <1>9, <2>1, <2>2 DEF Claims
<1> QED
  BY <1>7, <1>8, <1>9 DEF Inv

\* The discovered service is marked; its service and its bookmark are those that the
\* acceptor holds, and from now on everybody may know them.
LEMMA Marking ==
    ASSUME NEW w, NEW D, NEW S, NEW B, Typed(w, D, S, B), Inv(w, D, S, B),
           NEW a \in Acceptors, w[a].pc = "marking",
           NEW i, i = w[a].item, NEW s, s = w[a].service, NEW b, b = w[a].bookmark,
           S[s].live, B[b].live,
           NEW D2, D2[i].state = "accepted", D2[i].service = s, D2[i].bookmark = b,
           \A d \in Discovered \ {i} : D2[d] = D[d]
    PROVE  Inv([w EXCEPT ![a] = Resting], D2, S, B)
<1> DEFINE v == [w EXCEPT ![a] = Resting]
<1>1. /\ PhaseAgrees(w[a], D) /\ ServiceAgrees(w[a], S) /\ BookmarkAgrees(w[a], D, S, B)
      /\ RowsAgree(D, S, B)
      /\ w[a].service # None => Claims(w[a].service, w[a].item, w, D, B)
  BY DEF Inv
<1>2. /\ i \in Discovered /\ s \in Services /\ b \in Bookmarks
      /\ i # None /\ s # None /\ b # None
  BY <1>1 DEF PhaseAgrees, HoldingService, Typed, Work
<1>3. D2[i].service = s /\ D2[i].bookmark = b /\ D2[i].state # "absent"
  OBVIOUS
<1>4. /\ S[s].edited \/ (S[s].origin = i /\ S[s].copied)
      /\ B[b].service = s \/ S[s].edited \/ B[b].edited
      /\ B[b].edited \/ B[b].discovered = i
      /\ Claims(s, i, w, D, B)
  BY <1>1, <1>2 DEF ServiceAgrees, BookmarkAgrees, AfterCopying
<1>5. RowsAgree(D2, S, B)
  BY <1>1, <1>2, <1>3, <1>4 DEF RowsAgree
<1>6. /\ v[a] = Resting
      /\ \A c \in Acceptors \ {a} : v[c] = w[c]
  BY DEF Typed
<1>7. Inv(v, D, S, B)
  <2>1. Resting \in Work /\ PhaseAgrees(Resting, D)
    BY DEF Resting, Work, Phase, Origin, PhaseAgrees, HoldingService
  <2> QED
    BY <2>1, Rereading DEF Resting
<1>8. ASSUME NEW c \in Acceptors
      PROVE  /\ PhaseAgrees(v[c], D2) /\ BookmarkAgrees(v[c], D2, S, B) /\ Exclusive(c, v, D2)
             /\ v[c].service # None => Claims(v[c].service, v[c].item, v, D2, B)
  <2>1. CASE c = a
    BY <1>6, <2>1 DEF Resting, PhaseAgrees, HoldingService, BookmarkAgrees, Exclusive, Owns
  <2>2. CASE c # a
    <3>1. /\ PhaseAgrees(w[c], D) /\ BookmarkAgrees(w[c], D, S, B) /\ Exclusive(c, w, D)
          /\ SameAgree(w[a], w[c], B) /\ v[c] = w[c] /\ Exclusive(c, v, D)
          /\ w[c].service # None => Claims(w[c].service, w[c].item, v, D, B)
      BY <1>6, <1>7, <2>2 DEF Inv
    <3>2. w[c].item # None => w[c].item \in Discovered
      BY DEF Typed, Work
    <3>3. PhaseAgrees(w[c], D2)
      BY <1>3, <3>1, <3>2 DEF PhaseAgrees
    <3>4. ASSUME NEW d \in Discovered, D2[d].bookmark = w[c].bookmark, w[c].bookmark # None,
                 B[w[c].bookmark].live, ~B[w[c].bookmark].edited
          PROVE  d = w[c].item
      <4>1. CASE d = i
        <5>1. w[a].service = w[c].service /\ w[a].item = w[c].item
          BY <1>2, <1>3, <1>4, <3>1, <3>4, <4>1 DEF SameAgree, Claims
        <5> QED
          BY <4>1, <5>1
      <4>2. CASE d # i
        BY <1>3, <3>1, <3>4, <4>2 DEF BookmarkAgrees
      <4> QED
        BY <4>1, <4>2
    <3>5. BookmarkAgrees(w[c], D2, S, B)
      BY <3>1, <3>4 DEF BookmarkAgrees
    <3>6. Owns(w[c]) => \A d \in Discovered : D2[d].service # w[c].service
      <4>1. Owns(w[c]) => s # w[c].service
        BY <2>2, <3>1 DEF Exclusive
      <4> QED
        BY <1>3, <3>1, <4>1 DEF Exclusive
    <3>7. ASSUME w[c].service # None PROVE Claims(w[c].service, w[c].item, v, D2, B)
      <4>1. w[c].service = s => w[c].item = i
        BY <1>4 DEF Claims
      <4> QED
        BY <1>3, <3>1, <3>7, <4>1 DEF Claims
    <3> QED
      BY <3>1, <3>3, <3>5, <3>6, <3>7 DEF Exclusive
  <2> QED
    BY <2>1, <2>2
<1>9. ASSUME NEW d \in Discovered, D2[d].service # None
      PROVE  Claims(D2[d].service, d, v, D2, B)
  <2>1. CASE d = i
    BY <1>2, <1>3, <1>4, <1>6, <2>1 DEF Claims, Resting
  <2>2. CASE d # i
    <3>1. Claims(D[d].service, d, v, D, B) /\ D2[d] = D[d]
      BY <1>7, <1>9, <2>2 DEF Inv
    <3>2. D[d].service = s => d = i
      BY <1>4 DEF Claims
    <3> QED
      BY <1>3, <1>9, <3>1, <3>2 DEF Claims
  <2> QED
    BY <2>1, <2>2
<1>10. Inv(v, D2, S, B)
  BY <1>5, <1>7, <1>8, <1>9 DEF Inv
<1> QED
  BY <1>10 DEF v

-----------------------------------------------------------------------------
(* Types *)

\* What stands for an id without a row is typed like a row, and memory at rest is memory.
LEMMA RestingTypes ==
    Resting \in Work /\ NoService \in ServiceRow /\ NoBookmark \in BookmarkRow
BY DEF Resting, Work, Phase, Origin, NoService, ServiceRow, NoBookmark, BookmarkRow

\* Each write transaction keeps the type of the tables: those of discovery.
LEMMA ObserveType ==
    ASSUME TablesTypeOK, NEW d \in Discovered, NEW source \in Sources, NEW look \in Looks,
           ObserveRow(d, source, look)
    PROVE  TablesTypeOK'
BY DEF ObserveRow, TablesTypeOK, DiscoveredRow, EvidenceRow, State

\* Those of triage.
LEMMA TriageType ==
    ASSUME TablesTypeOK, NEW d \in Discovered, IgnoreRow(d) \/ RestoreRow(d)
    PROVE  TablesTypeOK'
<1>1. CASE IgnoreRow(d)
  BY <1>1 DEF IgnoreRow, TablesTypeOK, DiscoveredRow, State
<1>2. CASE RestoreRow(d)
  BY <1>2 DEF RestoreRow, TablesTypeOK, DiscoveredRow, State
<1> QED
  BY <1>1, <1>2

\* Those that write all of a service, for an acceptance or a user.
LEMMA WriteServiceType ==
    ASSUME TablesTypeOK, NEW s, NEW d \in Discovered \cup {None}, NEW source \in Origin,
           NEW ref \in Discovered \cup {None}, NEW name \in Names \cup {None}, NEW edited,
           s \in Services => edited \in BOOLEAN,
           WriteServiceRow(s, d, source, ref, name, edited)
    PROVE  TablesTypeOK'
<1>1. s \in Services => services[s].copied \in BOOLEAN
  BY DEF TablesTypeOK, ServiceRow
<1>2. services' \in [Services -> ServiceRow]
  BY <1>1 DEF WriteServiceRow, TablesTypeOK, ServiceRow
<1> QED
  BY <1>2 DEF WriteServiceRow, TablesTypeOK

\* Those that write a service; NULL stands for an acceptor that holds none.
LEMMA ServiceRowsType ==
    ASSUME TablesTypeOK, NEW s \in Services \cup {None}, NEW d \in Discovered \cup {None},
           NEW source \in Origin, NEW name \in Names \cup {None},
           SaveServiceRow(s, d, source, name) \/ CopyChecksRow(s) \/ DeleteServiceRow(s)
    PROVE  TablesTypeOK'
<1>1. CASE SaveServiceRow(s, d, source, name)
  BY <1>1, WriteServiceType DEF SaveServiceRow, TablesTypeOK, ServiceRow
<1>2. CASE CopyChecksRow(s)
  BY <1>2 DEF CopyChecksRow, TablesTypeOK, ServiceRow
<1>3. CASE DeleteServiceRow(s)
  <2>1. services' \in [Services -> ServiceRow]
    BY <1>3, RestingTypes DEF DeleteServiceRow, TablesTypeOK
  <2>2. bookmarks' \in [Bookmarks -> BookmarkRow]
    BY <1>3 DEF DeleteServiceRow, TablesTypeOK, BookmarkRow
  <2>3. discovered' \in [Discovered -> DiscoveredRow]
    BY <1>3 DEF DeleteServiceRow, TablesTypeOK, DiscoveredRow
  <2> QED
    BY <1>3, <2>1, <2>2, <2>3 DEF DeleteServiceRow, TablesTypeOK
<1> QED
  BY <1>1, <1>2, <1>3

\* And those that write a bookmark or the references to it.
LEMMA BookmarkRowsType ==
    ASSUME TablesTypeOK, NEW b \in Bookmarks \cup {None}, NEW s \in Services \cup {None},
           NEW d \in Discovered \cup {None},
           \/ SaveBookmarkRow(b, s) \/ EditBookmarkRow(b, s) \/ DeleteBookmarkRow(b)
           \/ LinkBookmarkRow(b, d) \/ MarkAcceptedRow(d, s, b)
    PROVE  TablesTypeOK'
<1>1. CASE SaveBookmarkRow(b, s)
  BY <1>1 DEF SaveBookmarkRow, TablesTypeOK, BookmarkRow
<1>2. CASE DeleteBookmarkRow(b)
  BY <1>2, RestingTypes DEF DeleteBookmarkRow, TablesTypeOK, DiscoveredRow
<1>3. CASE LinkBookmarkRow(b, d)
  BY <1>3 DEF LinkBookmarkRow, TablesTypeOK, BookmarkRow
<1>4. CASE MarkAcceptedRow(d, s, b)
  BY <1>4 DEF MarkAcceptedRow, TablesTypeOK, DiscoveredRow, State
<1>5. CASE EditBookmarkRow(b, s)
  BY <1>5 DEF EditBookmarkRow, TablesTypeOK, BookmarkRow
<1> QED
  BY <1>1, <1>2, <1>3, <1>4, <1>5

\* The parts of what an acceptor remembers.
LEMMA WorkParts ==
    ASSUME TypeOK, NEW a \in Acceptors
    PROVE  /\ work[a] \in Work
           /\ work[a].service \in Services \cup {None}
           /\ work[a].item \in Discovered \cup {None}
           /\ work[a].bookmark \in Bookmarks \cup {None}
           /\ work[a].source \in Origin
           /\ work[a].name \in Names \cup {None}
BY DEF TypeOK, Work

\* What an acceptance reads of a discovered service is memory of an acceptor.
LEMMA SnapshotType ==
    ASSUME TypeOK, NEW d \in Discovered, NEW name \in Names
    PROVE  Snapshot(d, name) \in Work
<1>1. PreferredDiscoverySource(d) \in Origin
  BY DEF PreferredDiscoverySource, Origin
<1>2. discovered[d].service \in Services \cup {None}
  BY DEF TypeOK, TablesTypeOK, DiscoveredRow
<1> QED
  BY <1>1, <1>2 DEF Snapshot, Work, Phase

\* The steps of users keep the type.
LEMMA UserStepType == ASSUME TypeOK, UserStep PROVE TypeOK'
<1>1. ASSUME NEW d \in Discovered, IgnoreDiscoveredService(d) \/ RestoreDiscoveredService(d)
      PROVE  TypeOK'
  BY <1>1, TriageType DEF TypeOK, IgnoreDiscoveredService, RestoreDiscoveredService
<1>2. ASSUME NEW s \in Services, DeleteService(s) PROVE TypeOK'
  <2>1. DeleteServiceRow(s) /\ UNCHANGED <<work, breaks>> /\ TablesTypeOK
    BY <1>2 DEF DeleteService, TypeOK
  <2>2. TablesTypeOK'
    <3>1. PICK d \in Discovered \cup {None}, name \in Names \cup {None} : TRUE
      OBVIOUS
    <3> QED
      BY <2>1, <3>1, ServiceRowsType DEF Origin
  <2> QED
    BY <2>1, <2>2 DEF TypeOK
<1>3. ASSUME NEW s \in Services, CreateBookmarkFromService(s) PROVE TypeOK'
  <2>1. PICK b \in Bookmarks : SaveBookmarkRow(b, s)
    BY <1>3 DEF CreateBookmarkFromService, FreeBookmarks, BookmarksOf
  <2>2. TablesTypeOK'
    BY <2>1, BookmarkRowsType DEF TypeOK
  <2> QED
    BY <1>3, <2>2 DEF TypeOK, CreateBookmarkFromService
<1>4. ASSUME NEW b \in Bookmarks, DeleteBookmark(b) PROVE TypeOK'
  BY <1>4, BookmarkRowsType DEF TypeOK, DeleteBookmark
<1>5. ASSUME NEW s \in Services, SaveService(s) PROVE TypeOK'
  <2>1. PICK row \in UserRows, name \in Names :
          EditServiceRow(s, row.origin, row.source, row.ref, name)
    BY <1>5 DEF SaveService
  <2>2. /\ row.origin \in Discovered \cup {None} /\ row.source \in Origin
        /\ row.ref \in Discovered \cup {None}
    BY AcceptanceAssumption
  <2>3. TablesTypeOK'
    BY <2>1, <2>2, WriteServiceType DEF EditServiceRow, TypeOK
  <2> QED
    BY <1>5, <2>3 DEF TypeOK, SaveService
<1>6. ASSUME NEW b \in Bookmarks, PutBookmark(b) PROVE TypeOK'
  <2>1. PICK s \in Services \cup {None} : EditBookmarkRow(b, s)
    BY <1>6 DEF PutBookmark
  <2>2. PICK d \in Discovered \cup {None} : TRUE
    OBVIOUS
  <2>3. TablesTypeOK'
    BY <2>1, <2>2, BookmarkRowsType DEF TypeOK
  <2> QED
    BY <1>6, <2>3 DEF TypeOK, PutBookmark
<1> QED
  BY <1>1, <1>2, <1>3, <1>4, <1>5, <1>6 DEF UserStep

\* A roll-back keeps the type, whatever the acceptor holds.
LEMMA RollBackType ==
    ASSUME TypeOK, NEW a \in Acceptors, RollBack(a)
    PROVE  TablesTypeOK' /\ work' \in [Acceptors -> Work]
<1>1. TablesTypeOK'
  <2>1. CASE DeleteServiceRow(work[a].service)
    BY <2>1, WorkParts, ServiceRowsType DEF TypeOK
  <2>2. CASE UNCHANGED tables
    BY <2>2 DEF TypeOK, TablesTypeOK, tables
  <2> QED
    BY <2>1, <2>2 DEF RollBack
<1> QED
  BY <1>1, RestingTypes DEF RollBack, Return, TypeOK

\* The steps of an acceptance keep the type.
LEMMA AcceptStepType ==
    ASSUME TypeOK, NEW a \in Acceptors, AcceptStep(a)
    PROVE  TypeOK'
<1> USE WorkParts
<1>1. CASE InsertService(a)
  <2>1. PICK s \in FreeServices :
           /\ SaveServiceRow(s, work[a].item, work[a].source, work[a].name)
           /\ work' = [work EXCEPT ![a] = [@ EXCEPT !.pc = "defining", !.service = s]]
    BY <1>1 DEF InsertService
  <2>2. s \in Services
    BY DEF FreeServices
  <2>3. TablesTypeOK'
    BY <2>1, <2>2, ServiceRowsType DEF TypeOK
  <2>4. work' \in [Acceptors -> Work]
    BY <2>1, <2>2 DEF TypeOK, Work, Phase
  <2> QED
    BY <1>1, <2>3, <2>4 DEF TypeOK, InsertService
<1>2. CASE FailToInsert(a) \/ FailToDefine(a) \/ FailToMark(a)
  <2>1. UNCHANGED <<tables, breaks>> /\ work' = [work EXCEPT ![a] = Resting]
    BY <1>2 DEF FailToInsert, FailToDefine, FailToMark, Return
  <2> QED
    BY <2>1, RestingTypes DEF TypeOK, TablesTypeOK, tables
<1>3. CASE ApplyDefinition(a)
  <2>1. TablesTypeOK'
    <3>1. CASE SaveServiceRow(work[a].service, work[a].item, work[a].source, work[a].name)
      BY <3>1, ServiceRowsType DEF TypeOK
    <3>2. CASE UNCHANGED tables
      BY <3>2 DEF TypeOK, TablesTypeOK, tables
    <3> QED
      BY <1>3, <3>1, <3>2 DEF ApplyDefinition
  <2>2. work' \in [Acceptors -> Work]
    BY <1>3 DEF ApplyDefinition, Goes, TypeOK, Work, Phase
  <2> QED
    BY <1>3, <2>1, <2>2 DEF TypeOK, ApplyDefinition
<1>4. CASE SyncChecks(a)
  <2>1. /\ UNCHANGED <<tables, breaks>>
        /\ work' = [work EXCEPT ![a] = [@ EXCEPT !.pc = "copying", !.created = TRUE]]
    BY <1>4 DEF SyncChecks
  <2>2. work' \in [Acceptors -> Work]
    BY <2>1 DEF TypeOK, Work, Phase
  <2> QED
    BY <2>1, <2>2 DEF TypeOK, TablesTypeOK, tables
<1>5. CASE CopyChecks(a)
  <2>1. PICK d \in Discovered \cup {None}, name \in Names \cup {None} : TRUE
    OBVIOUS
  <2>2. TablesTypeOK'
    BY <1>5, <2>1, ServiceRowsType DEF CopyChecks, TypeOK
  <2>3. work' \in [Acceptors -> Work]
    BY <1>5 DEF CopyChecks, Goes, TypeOK, Work, Phase
  <2> QED
    BY <1>5, <2>2, <2>3 DEF TypeOK, CopyChecks
<1>6. CASE SaveBookmark(a)
  <2>1. PICK b \in FreeBookmarks \cup BookmarksOf(work[a].service) :
           /\ SaveBookmarkRow(b, work[a].service)
           /\ work' = [work EXCEPT ![a] = [@ EXCEPT !.pc = "linking", !.bookmark = b]]
    BY <1>6 DEF SaveBookmark
  <2>2. b \in Bookmarks
    BY DEF FreeBookmarks, BookmarksOf
  <2>3. TablesTypeOK'
    BY <2>1, <2>2, BookmarkRowsType DEF TypeOK
  <2>4. work' \in [Acceptors -> Work]
    BY <2>1, <2>2 DEF TypeOK, Work, Phase
  <2> QED
    BY <1>6, <2>3, <2>4 DEF TypeOK, SaveBookmark
<1>7. CASE FailToBookmark(a)
  BY <1>7, RollBackType DEF FailToBookmark, TypeOK
<1>8. CASE LinkBookmark(a)
  <2>1. PICK s \in Services \cup {None} : TRUE
    OBVIOUS
  <2>2. TablesTypeOK'
    BY <1>8, <2>1, BookmarkRowsType DEF LinkBookmark, TypeOK
  <2>3. work' \in [Acceptors -> Work]
    BY <1>8 DEF LinkBookmark, Goes, TypeOK, Work, Phase
  <2> QED
    BY <1>8, <2>2, <2>3 DEF TypeOK, LinkBookmark
<1>9. CASE MarkAccepted(a)
  <2>1. TablesTypeOK'
    BY <1>9, BookmarkRowsType DEF MarkAccepted, TypeOK
  <2> QED
    BY <1>9, <2>1, RestingTypes DEF MarkAccepted, Return, TypeOK
<1> QED
  BY <1>1, <1>2, <1>3, <1>4, <1>5, <1>6, <1>7, <1>8, <1>9 DEF AcceptStep

\* Every step keeps the type; a job that has observed knows what.
LEMMA NextType == ASSUME TypeOK, IInv, [Next]_vars PROVE TypeOK'
<1> USE WorkParts
<1>1. CASE UserStep
  BY <1>1, UserStepType
<1>2. ASSUME NEW a \in Requests, NEW d \in Discovered, RequestBookmark(a, d) PROVE TypeOK'
  <2>1. PICK name \in Names : work' = [work EXCEPT ![a] = Snapshot(d, name)]
    BY <1>2 DEF RequestBookmark
  <2>2. Snapshot(d, name) \in Work
    BY SnapshotType
  <2> QED
    BY <1>2, <2>1, <2>2 DEF RequestBookmark, TypeOK, TablesTypeOK, tables
<1>3. ASSUME NEW a \in Jobs, NEW d \in Discovered, ProcessObservation(a, d) PROVE TypeOK'
  <2>1. TablesTypeOK'
    BY <1>3, ObserveType DEF ProcessObservation, TypeOK
  <2>2. [Resting EXCEPT !.pc = "observed", !.item = d] \in Work
    BY RestingTypes DEF Work, Phase
  <2> QED
    BY <1>3, <2>1, <2>2 DEF ProcessObservation, TypeOK
<1>4. ASSUME NEW a \in Jobs, AutoBookmark(a) PROVE TypeOK'
  <2>1. PICK name \in Names : work' = [work EXCEPT ![a] = Snapshot(work[a].item, name)]
    BY <1>4 DEF AutoBookmark
  <2>2. UNCHANGED <<tables, breaks>> /\ a \in Acceptors
    BY <1>4 DEF AutoBookmark, Acceptors
  <2>3. work[a].pc = "observed" /\ work[a].item # None
    BY <1>4, <2>2 DEF AutoBookmark, IInv, Inv, PhaseAgrees
  <2>4. Snapshot(work[a].item, name) \in Work
    BY <2>2, <2>3, SnapshotType
  <2> QED
    BY <2>1, <2>2, <2>4 DEF TypeOK, TablesTypeOK, tables
<1>5. ASSUME NEW a \in Jobs, SkipObservation(a) PROVE TypeOK'
  BY <1>5, RestingTypes DEF SkipObservation, Return, TypeOK, TablesTypeOK, tables
<1>6. ASSUME NEW a \in Acceptors, AcceptStep(a) PROVE TypeOK'
  BY <1>6, AcceptStepType
<1>7. ASSUME NEW a \in Acceptors, FailAndRollBack(a) \/ FailForGood(a) PROVE TypeOK'
  <2>1. breaks' \in 0..MaxBreaks
    BY <1>7, AcceptanceAssumption DEF FailAndRollBack, FailForGood, Breaks, TypeOK
  <2>2. CASE FailAndRollBack(a)
    BY <2>1, <2>2, RollBackType DEF FailAndRollBack, TypeOK
  <2>3. CASE FailForGood(a)
    BY <2>1, <2>3, RestingTypes DEF FailForGood, Return, TypeOK, TablesTypeOK, tables
  <2> QED
    BY <1>7, <2>2, <2>3
<1>8. CASE ProcessStops
  <2>1. breaks' \in 0..MaxBreaks
    BY <1>8, AcceptanceAssumption DEF ProcessStops, Breaks, TypeOK
  <2> QED
    BY <1>8, <2>1, RestingTypes DEF ProcessStops, TypeOK, TablesTypeOK, tables
<1>9. CASE UNCHANGED vars
  BY <1>9 DEF vars, tables, TypeOK, TablesTypeOK
<1> QED
  BY <1>1, <1>2, <1>3, <1>4, <1>5, <1>6, <1>7, <1>8, <1>9 DEF Next

-----------------------------------------------------------------------------
(* The invariant *)

\* The invariant holds of the empty tables, with everybody at rest.
LEMMA InitInv == Init => TypeOK /\ IInv
<1>1. Init => TypeOK
  BY RestingTypes, AcceptanceAssumption
     DEF Init, TablesInit, TypeOK, TablesTypeOK, DiscoveredRow, EvidenceRow, State
<1>2. Init => IInv
  BY DEF Init, TablesInit, IInv, Inv, RowsAgree, NoService, NoBookmark, Resting, PhaseAgrees,
         HoldingService, ServiceAgrees, BookmarkAgrees, Exclusive, Owns, SameAgree
<1> QED
  BY <1>1, <1>2

\* TypeOK in the form that the lemmas use.
LEMMA TypedNow == TypeOK => Typed(work, discovered, services, bookmarks)
BY DEF TypeOK, TablesTypeOK, Typed

\* Two bookmarks of one service do not occur, so that saving it again keeps the row.
LEMMA SavingBookmarkRow ==
    ASSUME TypeOK, IInv, NEW s \in Services, NEW b \in FreeBookmarks \cup BookmarksOf(s),
           SaveBookmarkRow(b, s)
    PROVE  /\ Inv(work, discovered, services, bookmarks')
           /\ UNCHANGED <<discovered, services>>
           /\ b \in Bookmarks /\ services[s].live
           /\ bookmarks'[b].live /\ bookmarks'[b].service = s
<1>1. /\ b \in Bookmarks /\ services[s].live /\ UNCHANGED <<discovered, services>>
      /\ bookmarks' = [bookmarks EXCEPT ![b] = [@ EXCEPT !.live = TRUE, !.service = s]]
      /\ bookmarks \in [Bookmarks -> BookmarkRow]
  BY DEF SaveBookmarkRow, FreeBookmarks, BookmarksOf, TypeOK, TablesTypeOK
<1>2. bookmarks'[b].live /\ bookmarks'[b].service = s
  BY <1>1 DEF BookmarkRow
<1>3. CASE b \in BookmarksOf(s)
  <2>1. bookmarks[b].live = TRUE /\ bookmarks[b].service = s /\ bookmarks[b] \in BookmarkRow
    BY <1>1, <1>3 DEF BookmarksOf, BookmarkRow
  <2>2. [bookmarks[b] EXCEPT !.live = TRUE, !.service = s] = bookmarks[b]
    BY <2>1 DEF BookmarkRow
  <2>3. bookmarks' = bookmarks
    BY <1>1, <2>2
  <2> QED
    BY <1>1, <1>2, <2>3 DEF IInv
<1>4. CASE b \notin BookmarksOf(s)
  <2>1. ~bookmarks[b].live /\ \A a \in Acceptors : work[a].bookmark # b
    BY <1>4 DEF FreeBookmarks
  <2>2. Inv(work, discovered, services, bookmarks')
    BY <1>1, <2>1, TypedNow, InsertingBookmark DEF IInv
  <2> QED
    BY <1>1, <1>2, <2>2
<1> QED
  BY <1>3, <1>4

\* Users keep the invariant.
LEMMA UserStepInv == ASSUME TypeOK, IInv, UserStep PROVE IInv'
<1> USE TypedNow
<1>1. ASSUME NEW d \in Discovered, IgnoreDiscoveredService(d) \/ RestoreDiscoveredService(d)
      PROVE  IInv'
  <2>1. /\ IgnoreRow(d) \/ RestoreRow(d)
        /\ UNCHANGED <<services, bookmarks, work>>
    BY <1>1 DEF IgnoreDiscoveredService, RestoreDiscoveredService, IgnoreRow, RestoreRow
  <2>2. discovered \in [Discovered -> DiscoveredRow]
    BY DEF TypeOK, TablesTypeOK
  <2>3. \A e \in Discovered :
           /\ discovered'[e].service = discovered[e].service
           /\ discovered'[e].bookmark = discovered[e].bookmark
           /\ discovered[e].state # "absent" => discovered'[e].state # "absent"
    BY <2>1, <2>2 DEF IgnoreRow, RestoreRow, DiscoveredRow
  <2>4. Inv(work, discovered', services, bookmarks)
    BY <2>3, Triaging DEF IInv
  <2> QED
    BY <2>1, <2>4 DEF IInv
<1>2. ASSUME NEW s \in Services, DeleteService(s) PROVE IInv'
  <2>1. DeleteServiceRow(s) /\ work' = work
    BY <1>2 DEF DeleteService
  <2>2. Inv(work, discovered', services', bookmarks')
    BY <2>1, DeletingService DEF DeleteServiceRow, IInv
  <2> QED
    BY <2>1, <2>2 DEF IInv
<1>3. ASSUME NEW s \in Services, CreateBookmarkFromService(s) PROVE IInv'
  <2>1. PICK b \in FreeBookmarks \cup BookmarksOf(s) : SaveBookmarkRow(b, s)
    BY <1>3 DEF CreateBookmarkFromService
  <2>2. /\ Inv(work, discovered, services, bookmarks')
        /\ UNCHANGED <<discovered, services, work>>
    BY <1>3, <2>1, SavingBookmarkRow DEF CreateBookmarkFromService
  <2> QED
    BY <2>2 DEF IInv
<1>4. ASSUME NEW b \in Bookmarks, DeleteBookmark(b) PROVE IInv'
  <2>1. DeleteBookmarkRow(b) /\ work' = work /\ services' = services
    BY <1>4 DEF DeleteBookmark, DeleteBookmarkRow
  <2>2. Inv(work, discovered', services, bookmarks')
    BY <2>1, DeletingBookmark DEF DeleteBookmarkRow, IInv
  <2> QED
    BY <2>1, <2>2 DEF IInv
<1>5. ASSUME NEW s \in Services, SaveService(s) PROVE IInv'
  <2>1. PICK row \in UserRows, name \in Names :
          EditServiceRow(s, row.origin, row.source, row.ref, name)
    BY <1>5 DEF SaveService
  <2> DEFINE r == [live |-> TRUE, origin |-> row.origin, source |-> row.source,
                   ref |-> row.ref, name |-> name, copied |-> services[s].copied,
                   edited |-> TRUE]
  <2>2. /\ services' = [services EXCEPT ![s] = r]
        /\ UNCHANGED <<discovered, bookmarks, work>>
    BY <1>5, <2>1 DEF EditServiceRow, WriteServiceRow, SaveService
  <2>3. r.live /\ r.edited
    OBVIOUS
  <2> HIDE DEF r
  <2>4. Inv(work, discovered, services', bookmarks)
    BY <2>2, <2>3, EditingService DEF IInv
  <2> QED
    BY <2>2, <2>4 DEF IInv
<1>6. ASSUME NEW b \in Bookmarks, PutBookmark(b) PROVE IInv'
  <2>1. PICK s \in Services \cup {None} : EditBookmarkRow(b, s)
    BY <1>6 DEF PutBookmark
  <2>2. /\ bookmarks' = [bookmarks EXCEPT ![b] = [bookmarks[b] EXCEPT !.live = TRUE,
                                                   !.service = s, !.edited = TRUE]]
        /\ UNCHANGED <<discovered, services, work>>
        /\ s # None => services[s].live
    BY <1>6, <2>1 DEF EditBookmarkRow, PutBookmark
  <2>3. Inv(work, discovered, services, bookmarks')
    BY <2>2, EditingBookmark DEF IInv
  <2> QED
    BY <2>2, <2>3 DEF IInv
<1> QED
  BY <1>1, <1>2, <1>3, <1>4, <1>5, <1>6 DEF UserStep

\* Returning keeps the invariant, whatever an acceptor has held and left behind.
LEMMA ReturnInv ==
    ASSUME NEW w, NEW D, NEW S, NEW B, Typed(w, D, S, B), Inv(w, D, S, B),
           NEW a \in Acceptors
    PROVE  Inv([w EXCEPT ![a] = Resting], D, S, B)
<1>1. Resting \in Work /\ PhaseAgrees(Resting, D)
  BY RestingTypes DEF Resting, PhaseAgrees, HoldingService
<1> QED
  BY <1>1, Rereading DEF Resting

\* Rolling back keeps it: at most a service goes that nobody else holds.
LEMMA RollBackInv ==
    ASSUME TypeOK, TypeOK', IInv, NEW a \in Acceptors, RollBack(a)
    PROVE  IInv'
<1>1. Typed(work, discovered', services', bookmarks')
  BY DEF TypeOK, TablesTypeOK, Typed
<1>2. Inv(work, discovered', services', bookmarks')
  <2>1. CASE work[a].created /\ DeleteServiceRow(work[a].service)
    <3>1. PICK s \in Services : DeleteServiceRow(s)
      BY <2>1, WorkParts DEF IInv, Inv, PhaseAgrees
    <3> QED
      BY <3>1, TypedNow, DeletingService DEF DeleteServiceRow, IInv
  <2>2. CASE UNCHANGED tables
    BY <2>2 DEF tables, IInv
  <2> QED
    BY <2>1, <2>2 DEF RollBack
<1>3. Inv([work EXCEPT ![a] = Resting], discovered', services', bookmarks')
  BY <1>1, <1>2, ReturnInv
<1> QED
  BY <1>3 DEF RollBack, Return, IInv

\* The steps of an acceptance keep the invariant.
LEMMA AcceptStepInv ==
    ASSUME TypeOK, TypeOK', IInv, NEW a \in Acceptors, AcceptStep(a)
    PROVE  IInv'
<1> USE TypedNow
<1> DEFINE w == work[a]
<1>1. /\ Typed(work, discovered, services, bookmarks)
      /\ Typed(work, discovered', services', bookmarks')
      /\ PhaseAgrees(w, discovered) /\ ServiceAgrees(w, services)
      /\ RowsAgree(discovered, services, bookmarks)
  BY DEF TypeOK, TablesTypeOK, Typed, IInv, Inv
<1>2. CASE InsertService(a)
  <2>1. PICK s \in FreeServices :
           /\ SaveServiceRow(s, w.item, w.source, w.name)
           /\ work' = [work EXCEPT ![a] = [@ EXCEPT !.pc = "defining", !.service = s]]
    BY <1>2 DEF InsertService
  <2>2. /\ s \in Services /\ ~services[s].live
        /\ \A c \in Acceptors : work[c].service # s
    BY DEF FreeServices
  <2> DEFINE r == [live |-> TRUE, origin |-> w.item, source |-> w.source, ref |-> w.item,
                   name |-> w.name, copied |-> services[s].copied,
                   edited |-> services[s].edited]
  <2>3. services' = [services EXCEPT ![s] = r] /\ UNCHANGED <<discovered, bookmarks>>
    BY <2>1 DEF SaveServiceRow, WriteServiceRow
  <2>4. r.live /\ r.origin = w.item
    OBVIOUS
  <2>5. services'[s] = r
    BY <2>2, <2>3 DEF TypeOK, TablesTypeOK
  <2> HIDE DEF r
  <2>6. Inv(work, discovered, services', bookmarks)
    BY <2>2, <2>3, <2>4, SavingService DEF IInv
  <2>7. /\ \A d \in Discovered : discovered[d].service # s
        /\ \A b \in Bookmarks : bookmarks[b].service # s
    BY <1>1, <2>2, DiscoveryAssumption DEF RowsAgree
  <2>8. w.pc = "inserting"
    BY <1>2 DEF InsertService
  <2>9. Inv([work EXCEPT ![a] = [work[a] EXCEPT !.pc = "defining", !.service = s]],
            discovered, services', bookmarks)
    BY <1>1, <2>2, <2>3, <2>4, <2>5, <2>6, <2>7, <2>8, HoldingInserted
  <2> QED
    BY <2>1, <2>3, <2>9 DEF IInv
<1>3. CASE FailToInsert(a) \/ FailToDefine(a) \/ FailToMark(a)
  <2>1. UNCHANGED <<discovered, services, bookmarks>> /\ work' = [work EXCEPT ![a] = Resting]
    BY <1>3 DEF FailToInsert, FailToDefine, FailToMark, Return, tables
  <2> QED
    BY <1>1, <2>1, ReturnInv DEF IInv
<1>4. CASE ApplyDefinition(a)
  <2>1. w.pc = "defining" /\ work' = [work EXCEPT ![a].pc = "syncing"]
    BY <1>4 DEF ApplyDefinition, Goes
  <2>2. w.service \in Services
    BY <1>1, <2>1, WorkParts DEF PhaseAgrees, HoldingService
  <2>3. UNCHANGED <<discovered, bookmarks>>
    BY <1>4 DEF ApplyDefinition, SaveServiceRow, WriteServiceRow, tables
  <2>4. Inv(work, discovered, services', bookmarks)
    <3>1. CASE SaveServiceRow(w.service, w.item, w.source, w.name)
      <4> DEFINE r == [live |-> TRUE, origin |-> w.item, source |-> w.source,
                       ref |-> w.item, name |-> w.name,
                       copied |-> services[w.service].copied,
                       edited |-> services[w.service].edited]
      <4>1. services' = [services EXCEPT ![w.service] = r]
        BY <3>1 DEF SaveServiceRow, WriteServiceRow
      <4>2. r.live /\ r.origin = w.item
        OBVIOUS
      <4> HIDE DEF r
      <4> QED
        BY <2>1, <2>2, <4>1, <4>2, SavingService DEF IInv
    <3>2. CASE UNCHANGED tables
      BY <3>2 DEF tables, IInv
    <3> QED
      BY <1>4, <3>1, <3>2 DEF ApplyDefinition
  <2> DEFINE x == [w EXCEPT !.pc = "syncing"]
  <2>5. /\ work' = [work EXCEPT ![a] = x]
        /\ x.item = w.item /\ x.service = w.service /\ x.bookmark = w.bookmark
        /\ x.created = w.created /\ x.pc = "syncing"
    BY <2>1, WorkParts DEF Work
  <2> HIDE DEF x
  <2>6. Inv([work EXCEPT ![a] = x], discovered, services', bookmarks)
    BY <1>1, <2>1, <2>3, <2>4, <2>5, Advancing
  <2> QED
    BY <2>3, <2>5, <2>6 DEF IInv
<1>5. CASE SyncChecks(a)
  <2> DEFINE x == [w EXCEPT !.pc = "copying", !.created = TRUE]
  <2>1. /\ w.pc = "syncing" /\ work' = [work EXCEPT ![a] = x]
        /\ UNCHANGED <<discovered, services, bookmarks>>
    BY <1>5 DEF SyncChecks, tables
  <2>2. /\ x.item = w.item /\ x.service = w.service /\ x.bookmark = w.bookmark
        /\ x.created = TRUE /\ x.pc = "copying"
    BY WorkParts DEF Work
  <2> HIDE DEF x
  <2>3. Inv([work EXCEPT ![a] = x], discovered, services, bookmarks)
    BY <1>1, <2>1, <2>2, Advancing DEF IInv
  <2> QED
    BY <2>1, <2>3 DEF IInv
<1>6. CASE CopyChecks(a)
  <2> DEFINE x == [w EXCEPT !.pc = "bookmarking"]
  <2>1. /\ w.pc = "copying" /\ work' = [work EXCEPT ![a] = x]
        /\ services' = [services EXCEPT ![w.service].copied = services[w.service].live]
        /\ UNCHANGED <<discovered, bookmarks>>
    BY <1>6 DEF CopyChecks, CopyChecksRow, Goes
  <2>2. /\ x.item = w.item /\ x.service = w.service /\ x.bookmark = w.bookmark
        /\ x.created = w.created /\ x.pc = "bookmarking"
    BY WorkParts DEF Work
  <2>3. Inv(work, discovered, services', bookmarks)
    BY <2>1, CopyingChecks DEF IInv
  <2>4. services'[w.service].live => services'[w.service].copied
    <3>1. w.service \in Services
      BY <1>1, <2>1, WorkParts DEF PhaseAgrees, HoldingService
    <3> QED
      BY <2>1, <3>1 DEF TypeOK, TablesTypeOK, ServiceRow
  <2> HIDE DEF x
  <2>5. Inv([work EXCEPT ![a] = x], discovered, services', bookmarks)
    BY <1>1, <2>1, <2>2, <2>3, <2>4, Advancing
  <2> QED
    BY <2>1, <2>5 DEF IInv
<1>7. CASE SaveBookmark(a)
  <2>1. PICK b \in FreeBookmarks \cup BookmarksOf(w.service) :
           /\ SaveBookmarkRow(b, w.service)
           /\ work' = [work EXCEPT ![a] = [@ EXCEPT !.pc = "linking", !.bookmark = b]]
    BY <1>7 DEF SaveBookmark
  <2>2. w.pc = "bookmarking" /\ w.service \in Services
    BY <1>1, <1>7, WorkParts DEF SaveBookmark, PhaseAgrees, HoldingService
  <2>3. /\ Inv(work, discovered, services, bookmarks')
        /\ UNCHANGED <<discovered, services>> /\ b \in Bookmarks
        /\ services[w.service].live
        /\ bookmarks'[b].live /\ bookmarks'[b].service = w.service
    BY <2>1, <2>2, SavingBookmarkRow
  <2>4. Inv([work EXCEPT ![a] = [work[a] EXCEPT !.pc = "linking", !.bookmark = b]],
            discovered, services, bookmarks')
    BY <1>1, <2>2, <2>3, HoldingBookmark
  <2> QED
    BY <2>1, <2>3, <2>4 DEF IInv
<1>8. CASE FailToBookmark(a)
  BY <1>8, RollBackInv DEF FailToBookmark
<1>9. CASE LinkBookmark(a)
  <2> DEFINE x == [w EXCEPT !.pc = "marking"]
  <2>1. /\ w.pc = "linking" /\ work' = [work EXCEPT ![a] = x]
        /\ bookmarks' = IF bookmarks[w.bookmark].live
                        THEN [bookmarks EXCEPT ![w.bookmark].discovered = w.item]
                        ELSE bookmarks
        /\ UNCHANGED <<discovered, services>>
    BY <1>9 DEF LinkBookmark, LinkBookmarkRow, Goes
  <2>2. /\ x.item = w.item /\ x.service = w.service /\ x.bookmark = w.bookmark
        /\ x.created = w.created /\ x.pc = "marking"
    BY WorkParts DEF Work
  <2>3. Inv(work, discovered, services, bookmarks')
    BY <2>1, Linking DEF IInv
  <2>4. bookmarks'[w.bookmark].live => bookmarks'[w.bookmark].discovered = w.item
    <3>1. w.bookmark \in Bookmarks
      BY <1>1, <2>1, WorkParts DEF PhaseAgrees
    <3> QED
      BY <2>1, <3>1 DEF TypeOK, TablesTypeOK, BookmarkRow
  <2> HIDE DEF x
  <2>5. Inv([work EXCEPT ![a] = x], discovered, services, bookmarks')
    BY <1>1, <2>1, <2>2, <2>3, <2>4, Advancing
  <2> QED
    BY <2>1, <2>5 DEF IInv
<1>10. CASE MarkAccepted(a)
  <2>1. /\ w.pc = "marking" /\ work' = [work EXCEPT ![a] = Resting]
        /\ services[w.service].live /\ bookmarks[w.bookmark].live
        /\ discovered' = [discovered EXCEPT ![w.item] =
              [@ EXCEPT !.state = "accepted", !.service = w.service, !.bookmark = w.bookmark]]
        /\ UNCHANGED <<services, bookmarks>>
    BY <1>10 DEF MarkAccepted, MarkAcceptedRow, Return
  <2>2. w.item \in Discovered
    BY <1>1, <2>1, WorkParts DEF PhaseAgrees
  <2>3. /\ discovered'[w.item].state = "accepted"
        /\ discovered'[w.item].service = w.service
        /\ discovered'[w.item].bookmark = w.bookmark
        /\ \A d \in Discovered \ {w.item} : discovered'[d] = discovered[d]
    BY <2>1, <2>2 DEF TypeOK, TablesTypeOK, DiscoveredRow
  <2>4. w.pc = "marking" /\ services[w.service].live /\ bookmarks[w.bookmark].live
    BY <2>1
  <2>5. Inv(work, discovered, services, bookmarks)
    BY DEF IInv
  <2> HIDE DEF w
  <2>6. w = work[a]
    BY DEF w
  <2>7. Inv([work EXCEPT ![a] = Resting], discovered', services, bookmarks)
    BY <1>1, <2>3, <2>4, <2>5, <2>6, Marking
  <2> QED
    BY <2>1, <2>7 DEF IInv
<1> QED
  BY <1>2, <1>3, <1>4, <1>5, <1>6, <1>7, <1>8, <1>9, <1>10 DEF AcceptStep

\* Every step keeps the invariant.
LEMMA NextInv == ASSUME TypeOK, TypeOK', IInv, [Next]_vars PROVE IInv'
<1> USE TypedNow
<1>1. CASE UserStep
  BY <1>1, UserStepInv
<1>2. ASSUME NEW a \in Acceptors, NEW d \in Discovered, NEW name \in Names,
             discovered[d].state # "absent",
             work' = [work EXCEPT ![a] = Snapshot(d, name)], UNCHANGED tables
      PROVE  IInv'
  <2> DEFINE x == Snapshot(d, name)
  <2>1. /\ x \in Work /\ x.item = d /\ x.service = discovered[d].service /\ ~x.created
        /\ x.pc = IF discovered[d].service = None THEN "inserting" ELSE "bookmarking"
        /\ x.bookmark = None
    BY SnapshotType DEF Snapshot
  <2> HIDE DEF x
  <2>2. PhaseAgrees(x, discovered)
    BY <1>2, <2>1, DiscoveryAssumption DEF PhaseAgrees, HoldingService
  <2>3. Inv([work EXCEPT ![a] = x], discovered, services, bookmarks)
    BY <2>1, <2>2, Rereading DEF IInv
  <2> QED
    BY <1>2, <2>3 DEF IInv, tables, x
<1>3. ASSUME NEW a \in Requests, NEW d \in Discovered, RequestBookmark(a, d) PROVE IInv'
  BY <1>2, <1>3 DEF RequestBookmark, Acceptors
<1>4. ASSUME NEW a \in Jobs, NEW d \in Discovered, ProcessObservation(a, d) PROVE IInv'
  <2>1. PICK source \in Sources, look \in Looks : ObserveRow(d, source, look)
    BY <1>4 DEF ProcessObservation
  <2>2. UNCHANGED <<services, bookmarks>>
    BY <2>1 DEF ObserveRow
  <2>3. discovered \in [Discovered -> DiscoveredRow]
    BY DEF TypeOK, TablesTypeOK
  <2>4. \A e \in Discovered :
           /\ discovered'[e].service = discovered[e].service
           /\ discovered'[e].bookmark = discovered[e].bookmark
           /\ discovered[e].state # "absent" => discovered'[e].state # "absent"
    BY <2>1, <2>3 DEF ObserveRow, DiscoveredRow
  <2>5. Inv(work, discovered', services, bookmarks)
    BY <2>4, Triaging DEF IInv
  <2>6. CASE work' = work
    BY <2>2, <2>5, <2>6 DEF IInv
  <2>7. CASE work' # work
    <3> DEFINE x == [Resting EXCEPT !.pc = "observed", !.item = d]
    <3>1. discovered'[d].state = "pending" /\ work' = [work EXCEPT ![a] = x]
      BY <1>4, <2>7 DEF ProcessObservation
    <3>2. /\ x \in Work /\ x.pc = "observed" /\ x.item = d /\ x.service = None
          /\ x.bookmark = None /\ ~x.created
      BY RestingTypes DEF Resting, Work, Phase
    <3> HIDE DEF x
    <3>3. PhaseAgrees(x, discovered')
      BY <3>1, <3>2, DiscoveryAssumption DEF PhaseAgrees, HoldingService
    <3>4. Typed(work, discovered', services, bookmarks) /\ a \in Acceptors
      BY <2>2 DEF TypeOK, TablesTypeOK, Typed, Acceptors
    <3>5. Inv([work EXCEPT ![a] = x], discovered', services, bookmarks)
      BY <2>5, <3>2, <3>3, <3>4, Rereading
    <3> QED
      BY <2>2, <3>1, <3>5 DEF IInv
  <2> QED
    BY <2>6, <2>7
<1>5. ASSUME NEW a \in Jobs, AutoBookmark(a) PROVE IInv'
  <2>1. /\ a \in Acceptors /\ work[a].pc = "observed" /\ UNCHANGED tables
        /\ \E name \in Names : work' = [work EXCEPT ![a] = Snapshot(work[a].item, name)]
    BY <1>5 DEF AutoBookmark, Acceptors
  <2>2. work[a].item \in Discovered /\ discovered[work[a].item].state # "absent"
    BY <2>1, WorkParts DEF IInv, Inv, PhaseAgrees
  <2> QED
    BY <1>2, <2>1, <2>2
<1>6. ASSUME NEW a \in Acceptors, work' = [work EXCEPT ![a] = Resting], UNCHANGED tables
      PROVE  IInv'
  BY <1>6, ReturnInv DEF IInv, tables
<1>7. ASSUME NEW a \in Jobs, SkipObservation(a) PROVE IInv'
  BY <1>6, <1>7 DEF SkipObservation, Return, Acceptors
<1>8. ASSUME NEW a \in Acceptors, AcceptStep(a) PROVE IInv'
  BY <1>8, AcceptStepInv
<1>9. ASSUME NEW a \in Acceptors, FailAndRollBack(a) \/ FailForGood(a) PROVE IInv'
  BY <1>6, <1>9, RollBackInv DEF FailAndRollBack, FailForGood, Return
<1>10. CASE ProcessStops
  BY <1>10, Forgetting DEF ProcessStops, tables, IInv
<1>11. CASE UNCHANGED vars
  BY <1>11 DEF vars, tables, IInv
<1> QED
  BY <1>1, <1>3, <1>4, <1>5, <1>7, <1>8, <1>9, <1>10, <1>11 DEF Next

\* The inductive invariant, with the types it needs.
THEOREM AcceptanceInvariant == Spec => [](TypeOK /\ IInv)
<1>1. TypeOK /\ IInv /\ [Next]_vars => TypeOK' /\ IInv'
  BY NextType, NextInv
<1> QED
  BY InitInv, <1>1, PTL DEF Spec

-----------------------------------------------------------------------------
(* The theorems *)

\* The type of every variable, for all constants: whatever acceptors hold across their
\* transactions, and whatever NULLs deletions leave behind.
THEOREM AcceptanceTypeCorrect == Spec => []TypeOK
BY AcceptanceInvariant, PTL

\* The references of discovered services, services and bookmarks agree, for any number of
\* concurrent acceptances, failures, restarts and deletions.
THEOREM ReferencesAgree == Spec => []LinksAgree
<1>1. IInv => LinksAgree
  BY DEF IInv, Inv, RowsAgree, LinksAgree
<1> QED
  BY <1>1, AcceptanceInvariant, PTL

\* The service of an accepted discovered service has had its checks copied.
THEOREM ChecksAreCopied == Spec => []HistoryKept
<1>1. IInv => HistoryKept
  BY DEF IInv, Inv, RowsAgree, HistoryKept
<1> QED
  BY <1>1, AcceptanceInvariant, PTL

\* No roll-back deletes a service that a discovered service refers to: what an acceptance
\* has created is referred to by nobody before it is marked, and then it has returned.
THEOREM RollBacksAreSafe == Spec => RollBackIsSafe
<1> DEFINE A == \A a \in Acceptors, d \in Discovered :
                   /\ FailToBookmark(a) \/ FailAndRollBack(a)
                   /\ discovered[d].service # None
                   => discovered'[d].service = discovered[d].service
<1>1. ASSUME TypeOK, IInv, NEW a \in Acceptors, NEW d \in Discovered,
             FailToBookmark(a) \/ FailAndRollBack(a), discovered[d].service # None
      PROVE  discovered'[d].service = discovered[d].service
  <2>1. RollBack(a)
    BY <1>1 DEF FailToBookmark, FailAndRollBack
  <2>2. CASE UNCHANGED tables
    BY <2>2 DEF tables
  <2>3. CASE work[a].created /\ DeleteServiceRow(work[a].service)
    <3>1. discovered[d].service # work[a].service
      BY <1>1, <2>3 DEF IInv, Inv, Exclusive, Owns
    <3> QED
      BY <2>3, <3>1 DEF DeleteServiceRow
  <2> QED
    BY <2>1, <2>2, <2>3 DEF RollBack
<1>2. TypeOK /\ IInv => [A]_vars
  BY <1>1
<1>3. RollBackIsSafe <=> [][A]_vars
  BY DEF RollBackIsSafe
<1> HIDE DEF A
<1> QED
  BY <1>2, <1>3, AcceptanceInvariant, PTL
=============================================================================
