------------------------------- MODULE Promotion -------------------------------
(***************************************************************************)
(* What promotion promises of discovered services, whoever asks for it and    *)
(* however it is carried out: a discovered service is promoted in one step,   *)
(* to a service that exists and has taken over its checks, and to a bookmark   *)
(* of that service.  Nothing but the deletion of the service or of the         *)
(* bookmark cuts a reference, and discovery changes neither.  Users may        *)
(* rewrite a service or a bookmark as they like; from then on nothing is       *)
(* promised of what that row refers to, and everything of the others.          *)
(***************************************************************************)
CONSTANTS Discovered, Services, Bookmarks, None

VARIABLES
    state,        \* of every discovered service
    promoted,     \* the service and the bookmark it has been promoted to
    ready,        \* the services that have taken over the checks, with their origin
    bookmarkOf,   \* the service of every bookmark, if it has one
    rewritten     \* the services and bookmarks that users have rewritten

promotionVars == <<state, promoted, ready, bookmarkOf, rewritten>>

PromotionInit ==
    /\ state = [d \in Discovered |-> "absent"]
    /\ promoted = [d \in Discovered |-> [service |-> None, bookmark |-> None]]
    /\ ready = [s \in {} |-> None]
    /\ bookmarkOf = [b \in {} |-> None]
    /\ rewritten = {}

\* A discovered service is found, ignored, or suggested again.
Triage(d) ==
    /\ \E new \in {"pending", "ignored"} :
         /\ new = "ignored" => state[d] # "absent"
         /\ state' = [state EXCEPT ![d] = new]
    /\ UNCHANGED <<promoted, ready, bookmarkOf, rewritten>>

\* The service s has taken over the checks of d.
GetReady(s, d) ==
    /\ s \notin DOMAIN ready
    /\ ready' = [t \in DOMAIN ready \cup {s} |-> IF t = s THEN d ELSE ready[t]]
    /\ UNCHANGED <<state, promoted, bookmarkOf, rewritten>>

\* The service s gets its only bookmark b.
BookmarkIt(b, s) ==
    /\ b \notin DOMAIN bookmarkOf
    /\ \A c \in DOMAIN bookmarkOf : bookmarkOf[c] # s
    /\ bookmarkOf' = [c \in DOMAIN bookmarkOf \cup {b} |-> IF c = b THEN s ELSE bookmarkOf[c]]
    /\ UNCHANGED <<state, promoted, ready, rewritten>>

\* A user rewrites the service s, or the bookmark b, which then has a service that no
\* other bookmark has, or none.
RewriteService(s) ==
    /\ \E d \in Discovered \cup {None} :
         ready' = [t \in DOMAIN ready \cup {s} |-> IF t = s THEN d ELSE ready[t]]
    /\ rewritten' = rewritten \cup {s}
    /\ UNCHANGED <<state, promoted, bookmarkOf>>

RewriteBookmark(b) ==
    /\ \E s \in Services \cup {None} :
         /\ s # None => \A c \in DOMAIN bookmarkOf \ {b} : bookmarkOf[c] # s
         /\ bookmarkOf' = [c \in DOMAIN bookmarkOf \cup {b} |-> IF c = b THEN s ELSE bookmarkOf[c]]
    /\ rewritten' = rewritten \cup {b}
    /\ UNCHANGED <<state, promoted, ready>>

Promote(d, s, b) ==
    /\ state[d] # "absent"
    /\ s \in DOMAIN ready /\ (ready[s] = d \/ s \in rewritten)
    /\ b \in DOMAIN bookmarkOf /\ (bookmarkOf[b] = s \/ s \in rewritten \/ b \in rewritten)
    /\ state' = [state EXCEPT ![d] = "accepted"]
    /\ promoted' = [promoted EXCEPT ![d] = [service |-> s, bookmark |-> b]]
    /\ UNCHANGED <<ready, bookmarkOf, rewritten>>

\* A service goes, and its bookmark is left without it.
LoseService(s) ==
    /\ ready' = [t \in DOMAIN ready \ {s} |-> ready[t]]
    /\ bookmarkOf' = [b \in DOMAIN bookmarkOf |->
            IF bookmarkOf[b] = s THEN None ELSE bookmarkOf[b]]
    /\ rewritten' = rewritten \ {s}
    /\ promoted' = [d \in Discovered |->
            [promoted[d] EXCEPT !.service = IF @ = s THEN None ELSE @]]
    /\ UNCHANGED state

LoseBookmark(b) ==
    /\ bookmarkOf' = [c \in DOMAIN bookmarkOf \ {b} |-> bookmarkOf[c]]
    /\ rewritten' = rewritten \ {b}
    /\ promoted' = [d \in Discovered |->
            [promoted[d] EXCEPT !.bookmark = IF @ = b THEN None ELSE @]]
    /\ UNCHANGED <<state, ready>>

PromotionNext ==
    \/ \E d \in Discovered : Triage(d)
    \/ \E s \in Services, d \in Discovered : GetReady(s, d)
    \/ \E b \in Bookmarks, s \in Services : BookmarkIt(b, s)
    \/ \E d \in Discovered, s \in Services, b \in Bookmarks : Promote(d, s, b)
    \/ \E s \in Services : RewriteService(s) \/ LoseService(s)
    \/ \E b \in Bookmarks : RewriteBookmark(b) \/ LoseBookmark(b)

Promotes == PromotionInit /\ [][PromotionNext]_promotionVars
=============================================================================
