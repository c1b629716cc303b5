---------------------------- MODULE LibraryImport ----------------------------
(* App.ImportBookmarks of app/bookmarks.go: the export of one instance is read  *)
(* into another one, folder by folder and bookmark by bookmark, each with a     *)
(* transaction of its own; the first failure ends the import and leaves what is *)
(* there.  Ids are numbers here, of which only the order counts.                *)
EXTENDS Folders

ASSUME IdsAssumption == FolderIds \subseteq Nat \ {0}

VARIABLES
    backup,     \* the export: folders, places of bookmarks, and those that have
                \* no URL of their own because they are bookmarks of a service
    knownServices,  \* the bookmarks whose service the other instance knows
    importing   \* "folders", "bookmarks", "done" or "failed", with what is left;
                \* "resting" when nobody imports

importVars == <<folderVars, backup, knownServices, importing>>

Forests ==
    {up \in UNION {[F -> F \cup {Root}] : F \in SUBSET FolderIds} :
        \A S \in SUBSET DOMAIN up : (S # {}) => \E f \in S : up[f] \notin S}

Exports ==
    UNION {[folders : {up}, places : UNION {[B -> DOMAIN up \cup {Root}] : B \in SUBSET Items},
            linked : SUBSET Items] : up \in Forests}

ImportRest ==
    /\ backup = [folders |-> <<>>, places |-> <<>>, linked |-> {}]
    /\ knownServices = {}
    /\ importing = [at |-> "resting", left |-> {}]

(* The database of the other instance is empty. *)
ImportInit ==
    /\ FoldersInit
    /\ backup \in Exports
    /\ knownServices \in SUBSET backup.linked
    /\ importing = [at |-> "folders", left |-> DOMAIN backup.folders]

Goes(at, left) == importing' = [at |-> at, left |-> left]

(* The order of ImportBookmarks: the strings ParentID + ID.  A folder at the    *)
(* root has the key of its own id, a prefix of those of its children.           *)
Key(f) == IF backup.folders[f] = Root THEN <<f, 0>> ELSE <<backup.folders[f], f>>
Before(f, g) == Key(f)[1] < Key(g)[1] \/ (Key(f)[1] = Key(g)[1] /\ Key(f)[2] < Key(g)[2])
First(left) == CHOOSE f \in left : \A g \in left \ {f} : Before(f, g)

(* Faulty: a folder that comes before its parent goes to the root. *)
ImportFolderAnyhow ==
    /\ importing.at = "folders"
    /\ IF importing.left = {}
          THEN Goes("bookmarks", DOMAIN backup.places) /\ UNCHANGED folderVars
          ELSE LET f == First(importing.left)
                   p == backup.folders[f]
               IN  /\ SaveFolder(f, IF HasParent(parents, p) THEN p ELSE Root)
                   /\ Goes("folders", importing.left \ {f})
    /\ UNCHANGED <<backup, knownServices>>

ImportFolder ==
    /\ importing.at = "folders"
    /\ IF importing.left = {}
          THEN Goes("bookmarks", DOMAIN backup.places) /\ UNCHANGED folderVars
          ELSE LET f == First(importing.left)
               IN  IF HasParent(parents, backup.folders[f])
                      THEN SaveFolder(f, backup.folders[f]) /\ Goes("folders", importing.left \ {f})
                      ELSE Goes("failed", importing.left) /\ UNCHANGED folderVars
    /\ UNCHANGED <<backup, knownServices>>

(* A bookmark of a service the instance does not know needs a URL. *)
CanImport(b) == b \in backup.linked => b \in knownServices

ImportBookmark ==
    /\ importing.at = "bookmarks"
    /\ IF importing.left = {}
          THEN Goes("done", {}) /\ UNCHANGED folderVars
          ELSE \E b \in importing.left :
                  IF CanImport(b)
                     THEN PlaceBookmark(b, backup.places[b]) /\ Goes("bookmarks", importing.left \ {b})
                     ELSE Goes("failed", importing.left) /\ UNCHANGED folderVars
    /\ UNCHANGED <<backup, knownServices>>

ImportNext == ImportFolder \/ ImportBookmark

ImportSpec == ImportInit /\ [][ImportNext]_importVars

-----------------------------------------------------------------------------
(* The import of an export does not fail halfway and restores every folder and  *)
(* every bookmark at its place.                                                 *)
ImportRestores ==
    /\ importing.at # "failed"
    /\ importing.at = "done" => parents = backup.folders /\ folderOf = backup.places

(* Wherever an import stops, in the order it finds or at the first failure,     *)
(* every folder and bookmark it has written is one of the export at its place   *)
(* there, and one that ends without a failure has written them all.             *)
ImportsNothingElse ==
    importing.at # "resting" =>
        /\ \A f \in DOMAIN parents : f \in DOMAIN backup.folders /\ parents[f] = backup.folders[f]
        /\ \A b \in DOMAIN folderOf : b \in DOMAIN backup.places /\ folderOf[b] = backup.places[b]
        /\ importing.at = "done" => parents = backup.folders /\ folderOf = backup.places
=============================================================================
