------------------------------- MODULE MCData -------------------------------
(* The stored data and what is worked out of it, on small instances.  The parts *)
(* have no variable in common, so one run checks each of them with the others   *)
(* at rest: part says which.  Import is the import into an empty library.       *)
EXTENDS LibraryImport, Bookmarks, Devices, Setup, StatusPages, TopologyMap,
        ServiceDefinitions

CONSTANT standing  \* a notice without a window

VARIABLE part

Parts == {"folders", "import", "bookmarks", "devices", "setup", "tokens", "pages", "map", "definitions"}

(* A ring of five switches with one cable doubled. *)
Cables == {<<1, 1, 2, 1>>, <<1, 2, 2, 2>>, <<1, 3, 3, 1>>, <<2, 3, 4, 1>>, <<4, 2, 5, 1>>, <<5, 2, 3, 2>>}

Report(c) == [from |-> c[1], port |-> c[2], to |-> c[3], toPort |-> c[4]]

(* Switch 4 does not answer, so nothing it reports is known. *)
SomeReports == SUBSET {r \in {Report(c) : c \in Cables} \cup {Mirrored(Report(c)) : c \in Cables} : r.from # 4}

SomeSubnets == [address : {0, 5, 10}, bits : 0 .. 4, valid : {TRUE}, enabled : BOOLEAN]
                  \cup [address : {5}, bits : {3}, valid : {FALSE}, enabled : {TRUE}]

(* 10 comes before 4 as a text. *)
SomeAddresses == {<<0>>, <<4>>, <<10>>, <<0, 4>>, <<0, 10>>, <<10, 4>>, <<0, 10, 4>>}

SomeMap ==
    \/ /\ part = "map"
       /\ plan = [subnets |-> <<>>, devices |-> <<>>]
       /\ reports \in SomeReports
       /\ marked \in {m \in {{}, {2}, {3, 5}} : m \subseteq {r.from : r \in reports}}
       /\ walk = WalkStart
    \/ /\ part = "map"
       /\ plan \in [subnets : [1 .. 2 -> SomeSubnets], devices : [1 .. 2 -> SomeAddresses]]
       /\ reports = {} /\ marked = {} /\ walk = WalkStart
    \/ /\ part # "map"
       /\ plan = [subnets |-> <<>>, devices |-> <<>>]
       /\ reports = {} /\ marked = {} /\ walk = WalkStart

MCInit ==
    /\ part \in Parts
    /\ IF part = "import" THEN ImportInit ELSE FoldersInit /\ ImportRest
    /\ BookmarksInit /\ DevicesInit /\ SetupInit /\ PagesInit /\ DefinitionsInit
    /\ SomeMap

(* Setup without tokens and the reverse; and one notice has no window.    *)
Bounded ==
    /\ part = "setup" => UNCHANGED <<tokens, requests>>
    /\ part = "tokens" => UNCHANGED <<setupVars, setups>>
    /\ part = "pages" =>
          \A n \in DOMAIN notices' \cap {standing} : {notices'[n].starts, notices'[n].ends} = {Always}

MCNext ==
    /\ UNCHANGED part
    /\ \/ /\ \/ part = "folders" /\ FoldersNext /\ UNCHANGED <<backup, knownServices, importing>>
             \/ part = "import" /\ ImportNext
          /\ UNCHANGED <<bookmarkVars, deviceVars, setupModuleVars, pageVars, mapVars, definitionVars>>
       \/ /\ part = "bookmarks" /\ BookmarksNext
          /\ UNCHANGED <<importVars, deviceVars, setupModuleVars, pageVars, mapVars, definitionVars>>
       \/ /\ part = "devices" /\ DevicesNext
          /\ UNCHANGED <<importVars, bookmarkVars, setupModuleVars, pageVars, mapVars, definitionVars>>
       \/ /\ part \in {"setup", "tokens"} /\ SetupNext /\ Bounded
          /\ UNCHANGED <<importVars, bookmarkVars, deviceVars, pageVars, mapVars, definitionVars>>
       \/ /\ part = "pages" /\ PagesNext /\ Bounded
          /\ UNCHANGED <<importVars, bookmarkVars, deviceVars, setupModuleVars, mapVars, definitionVars>>
       \/ /\ part = "map" /\ MapNext
          /\ UNCHANGED <<importVars, bookmarkVars, deviceVars, setupModuleVars, pageVars, definitionVars>>
       \/ /\ part = "definitions" /\ DefinitionsNext
          /\ UNCHANGED <<importVars, bookmarkVars, deviceVars, setupModuleVars, pageVars, mapVars>>

MCSpec ==
    MCInit /\ [][MCNext]_<<importVars, bookmarkVars, deviceVars, setupModuleVars, pageVars, mapVars,
                 definitionVars, part>>
=============================================================================
