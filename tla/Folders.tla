------------------------------ MODULE Folders ------------------------------
(* The tree of bookmark folders, internal/store/sqlite/bookmarks.go.  Every     *)
(* request is one transaction on the single connection for writing, so it is    *)
(* one action; parent_id is a foreign key.                                      *)
EXTENDS Integers, Sequences, FiniteSets

CONSTANTS
    FolderIds,
    Items,     \* ids of bookmarks, of which only the folder matters here
    Root       \* no parent, no folder

ASSUME RootAssumption == Root \notin FolderIds

VARIABLES
    parents,   \* folders: from ids to parent_id
    folderOf   \* bookmarks: from ids to folder_id

folderVars == <<parents, folderOf>>

FoldersInit == parents = <<>> /\ folderOf = [b \in {} |-> Root]

(* A set that holds the parents of all its members. *)
Closed(up, S) == \A f \in S : up[f] \in S \cup {Root}

(* Faulty: only the new parent itself is compared. *)
NotItself(up, f, p) == p # f

(* ensureFolderParentAllowedTx: the walk from the new parent to the root does   *)
(* not meet the folder.  It visits the smallest closed set that holds the       *)
(* parent; that it misses the folder says that some closed set does.            *)
Allowed(up, f, p) ==
    \/ p = Root
    \/ \E S \in SUBSET DOMAIN up : p \in S /\ Closed(up, S) /\ f \notin S

Moved(up, f, p) == [x \in DOMAIN up |-> IF x = f THEN p ELSE up[x]]

(* The foreign key: a row's parent is a row. *)
HasParent(up, p) == p \in DOMAIN up \cup {Root}

SaveFolder(f, p) ==
    /\ HasParent(parents, p)
    /\ Allowed(parents, f, p)
    /\ parents' = [x \in DOMAIN parents \cup {f} |-> IF x = f THEN p ELSE parents[x]]
    /\ UNCHANGED folderOf

(* Two items of one request: the second is checked against what the first has   *)
(* made of the tree, and when one fails the transaction is rolled back.  An id  *)
(* without a row changes nothing.                                               *)
ReorderFolders(f, p, g, q) ==
    LET once == Moved(parents, f, p)
    IN  /\ HasParent(parents, p) /\ Allowed(parents, f, p)
        /\ HasParent(parents, q) /\ Allowed(once, g, q)
        /\ parents' = Moved(once, g, q)
        /\ UNCHANGED folderOf

(* Faulty: what the folder held goes to the root, as ON DELETE SET NULL would.  *)
DeleteFolderOnly(f) ==
    /\ f \in DOMAIN parents
    /\ parents' = [x \in DOMAIN parents \ {f} |-> IF parents[x] = f THEN Root ELSE parents[x]]
    /\ folderOf' = [b \in DOMAIN folderOf |-> IF folderOf[b] = f THEN Root ELSE folderOf[b]]

DeleteFolder(f) ==
    /\ f \in DOMAIN parents
    /\ parents' = [x \in DOMAIN parents \ {f} |->
                      IF parents[x] = f THEN parents[f] ELSE parents[x]]
    /\ folderOf' = [b \in DOMAIN folderOf |->
                      IF folderOf[b] = f THEN parents[f] ELSE folderOf[b]]

(* SaveBookmark and ReorderBookmarks, as far as the folder goes. *)
PlaceBookmark(b, f) ==
    /\ HasParent(parents, f)
    /\ folderOf' = [x \in DOMAIN folderOf \cup {b} |-> IF x = b THEN f ELSE folderOf[x]]
    /\ UNCHANGED parents

RemoveBookmark(b) ==
    /\ b \in DOMAIN folderOf
    /\ folderOf' = [x \in DOMAIN folderOf \ {b} |-> folderOf[x]]
    /\ UNCHANGED parents

FoldersNext ==
    \/ \E f \in FolderIds, p \in FolderIds \cup {Root} :
          \/ SaveFolder(f, p)
          \/ \E g \in FolderIds, q \in FolderIds \cup {Root} : ReorderFolders(f, p, g, q)
    \/ \E f \in FolderIds : DeleteFolder(f)
    \/ \E b \in Items :
          \/ \E f \in FolderIds \cup {Root} : PlaceBookmark(b, f)
          \/ RemoveBookmark(b)

FoldersSpec == FoldersInit /\ [][FoldersNext]_folderVars

-----------------------------------------------------------------------------
FoldersTypeOK ==
    /\ DOMAIN parents \subseteq FolderIds
    /\ parents \in [DOMAIN parents -> DOMAIN parents \cup {Root}]
    /\ DOMAIN folderOf \subseteq Items
    /\ folderOf \in [DOMAIN folderOf -> DOMAIN parents \cup {Root}]

(* The folders are a forest, whatever sequence of moves, multi-item reorders    *)
(* and deletions has led here: no set of folders holds the parents of all its   *)
(* members, which a cycle would.  The front end walks the parents, and so does  *)
(* the check itself.                                                            *)
FoldersFormForest ==
    \A S \in SUBSET DOMAIN parents : (S # {}) => \E f \in S : parents[f] \notin S

(* The folders on the way from a place to the root. *)
Above(up, f) == {a \in DOMAIN up : \A S \in SUBSET DOMAIN up : (f \in S /\ Closed(up, S)) => a \in S}

(* Deleting a folder loses nothing and moves nothing further than it must:      *)
(* every folder and bookmark that remains has the same folders above it, but    *)
(* for the deleted one.                                                         *)
DeletionKeepsPlaces ==
    [][\A d \in DOMAIN parents \ DOMAIN parents' :
          /\ DOMAIN parents' = DOMAIN parents \ {d}
          /\ \A f \in DOMAIN parents' : Above(parents', f) = Above(parents, f) \ {d}
          /\ DOMAIN folderOf' = DOMAIN folderOf
          /\ \A b \in DOMAIN folderOf :
                folderOf[b] \in DOMAIN parents =>
                    (IF folderOf'[b] = Root THEN {} ELSE Above(parents', folderOf'[b]))
                        = Above(parents, folderOf[b]) \ {d}]_folderVars
=============================================================================
