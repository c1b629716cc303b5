---------------------------- MODULE DataProofs ----------------------------
(* What holds of the stored data in general: the tree of folders, also while a  *)
(* backup is imported, the links of bookmarks, the identity of devices, setup   *)
(* and tokens, status pages, the checks that service definitions manage.        *)
EXTENDS LibraryImport, Bookmarks, Devices, Setup, StatusPages, ServiceDefinitions,
        FiniteSetTheorems, WellFoundedInduction, TLAPS

-----------------------------------------------------------------------------
(* Folders.  The parents as a function of their own, so that the two moves of   *)
(* one reorder can be taken one after the other.                                *)
Tree(up) == up \in [DOMAIN up -> DOMAIN up \cup {Root}] /\ Root \notin DOMAIN up

Forest(up) == \A S \in SUBSET DOMAIN up : (S # {}) => \E f \in S : up[f] \notin S

(* Giving an old or a new folder a parent that the check allows keeps the       *)
(* forest: a cycle through the folder would lie, but for the folder, in the     *)
(* closed set that the check has walked, which had none.                        *)
LEMMA PlacingKeepsForest ==
    ASSUME NEW up, NEW f, NEW p, Tree(up), Forest(up), f # Root,
           HasParent(up, p), Allowed(up, f, p),
           NEW now, DOMAIN now = DOMAIN up \cup {f},
           now = [x \in DOMAIN up \cup {f} |-> IF x = f THEN p ELSE up[x]]
    PROVE  Tree(now) /\ Forest(now)
<1>1. Tree(now)
    BY DEF Tree, HasParent
<1>2. ASSUME NEW S \in SUBSET DOMAIN now, S # {}, \A x \in S : now[x] \in S
      PROVE  FALSE
    <2>1. f \in S
        <3>1. SUFFICES ASSUME f \notin S PROVE FALSE
            OBVIOUS
        <3>2. S \in SUBSET DOMAIN up /\ \A x \in S : up[x] \in S
            BY <1>2, <3>1
        <3> QED
            BY <3>2, <1>2 DEF Forest
    <2>2. p \in S /\ p # Root
        BY <2>1, <1>2 DEF Tree
    <2>3. PICK T \in SUBSET DOMAIN up : p \in T /\ Closed(up, T) /\ f \notin T
        BY <2>2 DEF Allowed
    <2>4. \A x \in S \cap T : up[x] \in S \cap T
        <3>1. TAKE x \in S \cap T
        <3>2. up[x] \in S
            BY <1>2, <2>3
        <3>3. up[x] \in T
            BY <3>2, <1>1, <2>3 DEF Closed, Tree
        <3> QED
            BY <3>2, <3>3
    <2>5. S \cap T # {} /\ S \cap T \in SUBSET DOMAIN up
        BY <2>2, <2>3
    <2> QED
        BY <2>4, <2>5 DEF Forest
<1> QED
    BY <1>1, <1>2 DEF Forest

(* Moving a folder that may not be there. *)
LEMMA MovingKeepsForest ==
    ASSUME NEW up, NEW f, NEW p, Tree(up), Forest(up), f # Root,
           HasParent(up, p), Allowed(up, f, p)
    PROVE  Tree(Moved(up, f, p)) /\ Forest(Moved(up, f, p)) /\ DOMAIN Moved(up, f, p) = DOMAIN up
<1> DEFINE now == Moved(up, f, p)
<1>1. DOMAIN now = DOMAIN up
    BY DEF Moved
<1>2. CASE f \in DOMAIN up
    <2>1. now = [x \in DOMAIN up \cup {f} |-> IF x = f THEN p ELSE up[x]] /\ DOMAIN up = DOMAIN up \cup {f}
        BY <1>2 DEF Moved
    <2> QED
        BY <2>1, <1>1, PlacingKeepsForest
<1>3. CASE f \notin DOMAIN up
    <2>1. now = up
        BY <1>3 DEF Moved, Tree
    <2> QED
        BY <2>1
<1> QED
    BY <1>2, <1>3

(* A cycle among the rest after a deletion was one before, through the deleted  *)
(* folder or not.                                                               *)
LEMMA DeletingKeepsForest ==
    ASSUME NEW up, NEW f \in DOMAIN up, Tree(up), Forest(up),
           NEW now, now = [x \in DOMAIN up \ {f} |-> IF up[x] = f THEN up[f] ELSE up[x]]
    PROVE  Tree(now) /\ Forest(now)
<1>1. up[f] # f
    <2>1. {f} \in SUBSET DOMAIN up /\ {f} # {}
        OBVIOUS
    <2> QED
        BY <2>1 DEF Forest
<1>2. Tree(now)
    BY <1>1 DEF Tree
<1>3. ASSUME NEW S \in SUBSET DOMAIN now, S # {}, \A x \in S : now[x] \in S
      PROVE  FALSE
    <2> DEFINE T == IF up[f] \in S THEN S \cup {f} ELSE S
    <2>1. T # {} /\ T \in SUBSET DOMAIN up
        BY <1>3
    <2>2. \A x \in T : up[x] \in T
        BY <1>3
    <2> QED
        BY <2>1, <2>2 DEF Forest
<1> QED
    BY <1>2, <1>3 DEF Forest

(* The invariant, which is inductive with the types. *)
TreeInv == Tree(parents) /\ Forest(parents) /\ DOMAIN parents \subseteq FolderIds

LEMMA FoldersStep == TreeInv /\ [FoldersNext]_folderVars => TreeInv'
<1> SUFFICES ASSUME TreeInv, [FoldersNext]_folderVars PROVE TreeInv'
    OBVIOUS
<1> USE DEF TreeInv
<1>1. ASSUME NEW f \in FolderIds, NEW p, SaveFolder(f, p) PROVE TreeInv'
    BY <1>1, RootAssumption, PlacingKeepsForest DEF SaveFolder
<1>2. ASSUME NEW f \in FolderIds, NEW p, NEW g \in FolderIds, NEW q, ReorderFolders(f, p, g, q)
      PROVE  TreeInv'
    <2> DEFINE once == Moved(parents, f, p)
    <2>1. Tree(once) /\ Forest(once) /\ DOMAIN once = DOMAIN parents
        BY <1>2, RootAssumption, MovingKeepsForest DEF ReorderFolders
    <2>2. HasParent(once, q) /\ Allowed(once, g, q) /\ parents' = Moved(once, g, q)
        BY <1>2, <2>1 DEF ReorderFolders, HasParent
    <2> HIDE DEF once
    <2> QED
        BY <2>1, <2>2, RootAssumption, MovingKeepsForest
<1>3. ASSUME NEW f \in FolderIds, DeleteFolder(f) PROVE TreeInv'
    BY <1>3, DeletingKeepsForest DEF DeleteFolder
<1>4. ASSUME NEW b, NEW f, PlaceBookmark(b, f) \/ RemoveBookmark(b) PROVE TreeInv'
    BY <1>4 DEF PlaceBookmark, RemoveBookmark
<1>5. CASE UNCHANGED folderVars
    BY <1>5 DEF folderVars
<1> QED
    BY <1>1, <1>2, <1>3, <1>4, <1>5 DEF FoldersNext

(* The folders are a forest, however many there are and whatever sequence of    *)
(* moves, reorders and deletions has been made (SaveFolder, ReorderFolders and  *)
(* DeleteFolder of bookmarks.go).                                               *)
THEOREM FoldersAreForest == FoldersSpec => []FoldersFormForest
<1>1. FoldersInit => TreeInv
    BY RootAssumption DEF FoldersInit, TreeInv, Tree, Forest
<1>2. TreeInv => FoldersFormForest
    BY DEF TreeInv, Forest, FoldersFormForest
<1> QED
    BY <1>1, <1>2, FoldersStep, PTL DEF FoldersSpec

(* What the foreign keys say also holds through deletions, which hand on what a *)
(* folder held before its row goes: no parent and no folder of a bookmark is    *)
(* ever a row that is not there (DeleteFolder of bookmarks.go).                 *)
THEOREM FoldersTypeCorrect == FoldersSpec => []FoldersTypeOK
<1> DEFINE Places == folderOf \in [DOMAIN folderOf -> DOMAIN parents \cup {Root}] /\ DOMAIN folderOf \subseteq Items
<1>1. FoldersInit => Places
    BY DEF FoldersInit
<1>2. ASSUME TreeInv, Places, [FoldersNext]_folderVars PROVE Places'
    <2>1. ASSUME NEW f, NEW p, SaveFolder(f, p) PROVE Places'
        BY <1>2, <2>1 DEF SaveFolder
    <2>2. ASSUME NEW f, NEW p, NEW g, NEW q, ReorderFolders(f, p, g, q) PROVE Places'
        <3>1. DOMAIN parents' = DOMAIN parents /\ folderOf' = folderOf
            BY <2>2 DEF ReorderFolders, Moved
        <3> QED
            BY <1>2, <3>1
    <2>3. ASSUME NEW f, DeleteFolder(f) PROVE Places'
        <3>1. /\ f \in DOMAIN parents /\ DOMAIN parents' = DOMAIN parents \ {f}
              /\ folderOf' = [b \in DOMAIN folderOf |-> IF folderOf[b] = f THEN parents[f] ELSE folderOf[b]]
            BY <2>3 DEF DeleteFolder
        <3>2. parents[f] \in (DOMAIN parents \ {f}) \cup {Root}
            <4>1. {f} \in SUBSET DOMAIN parents /\ {f} # {}
                BY <3>1
            <4> QED
                BY <1>2, <3>1, <4>1 DEF TreeInv, Tree, Forest
        <3>3. f # Root
            BY <1>2, <3>1 DEF TreeInv, Tree
        <3> QED
            BY <1>2, <3>1, <3>2, <3>3
    <2>4. ASSUME NEW b \in Items, NEW f, PlaceBookmark(b, f) PROVE Places'
        BY <1>2, <2>4 DEF PlaceBookmark, HasParent
    <2>5. ASSUME NEW b, RemoveBookmark(b) PROVE Places'
        BY <1>2, <2>5 DEF RemoveBookmark
    <2>6. CASE UNCHANGED folderVars
        BY <1>2, <2>6 DEF folderVars
    <2> QED
        BY <1>2, <2>1, <2>2, <2>3, <2>4, <2>5, <2>6 DEF FoldersNext
<1>3. TreeInv /\ Places => FoldersTypeOK
    BY DEF TreeInv, Tree, FoldersTypeOK
<1>4. FoldersInit => TreeInv
    BY RootAssumption DEF FoldersInit, TreeInv, Tree, Forest
<1> HIDE DEF Places
<1> QED
    BY <1>1, <1>2, <1>3, <1>4, FoldersStep, PTL DEF FoldersSpec

(* An import brings folders in one by one, in an order of their keys, from an   *)
(* export that is a forest; it may stop anywhere.  The invariant says how far   *)
(* it is.                                                                       *)
Exported ==
    /\ backup.folders \in Forests
    /\ DOMAIN backup.folders \subseteq FolderIds
    /\ backup.places = [b \in DOMAIN backup.places |-> backup.places[b]]

Written ==
    /\ \A f \in DOMAIN parents : f \in DOMAIN backup.folders /\ parents[f] = backup.folders[f]
    /\ folderOf = [b \in DOMAIN folderOf |-> folderOf[b]]
    /\ \A b \in DOMAIN folderOf : b \in DOMAIN backup.places /\ folderOf[b] = backup.places[b]

FoldersLeft ==
    importing.at = "folders" =>
        importing.left \subseteq DOMAIN backup.folders
        /\ DOMAIN parents = DOMAIN backup.folders \ importing.left /\ DOMAIN folderOf = {}

BookmarksLeft ==
    importing.at = "bookmarks" =>
        importing.left \subseteq DOMAIN backup.places
        /\ DOMAIN parents = DOMAIN backup.folders
        /\ DOMAIN folderOf = DOMAIN backup.places \ importing.left

AllWritten ==
    importing.at = "done" => DOMAIN parents = DOMAIN backup.folders /\ DOMAIN folderOf = DOMAIN backup.places

ImportInv == TreeInv /\ Exported /\ Written /\ FoldersLeft /\ BookmarksLeft /\ AllWritten

(* Every set of numbers that is not empty has a least one. *)
LEMMA LeastOfNumbers ==
    ASSUME NEW S \in SUBSET Nat, S # {}
    PROVE  \E x \in S : \A y \in S : x <= y
<1> DEFINE R == {ss \in Nat \X Nat : ss[1] < ss[2]}
<1>1. IsWellFoundedOn(R, Nat)
    BY NatLessThanWellFounded DEF OpToRel
<1>2. PICK x \in S : \A y \in S : ~(<<y, x>> \in R)
    BY <1>1, WFMin
<1>3. ASSUME NEW y \in S PROVE x <= y
    <2>1. <<y, x>> \notin R
        BY <1>2
    <2>2. y \in Nat /\ x \in Nat /\ <<y, x>> \in Nat \X Nat
        OBVIOUS
    <2>3. ~(y < x)
        BY <2>1, <2>2
    <2> QED
        BY <2>2, <2>3
<1> QED
    BY <1>3

(* The order of the import has a first folder: the least of those with the      *)
(* least first part of the key; one of its own, at the root, before the others. *)
LEMMA FirstIsLeft ==
    ASSUME Exported, NEW left, left \subseteq DOMAIN backup.folders, left # {}
    PROVE  First(left) \in left
<1>1. left \subseteq Nat \ {0}
    BY IdsAssumption DEF Exported
<1>2. backup.folders \in [DOMAIN backup.folders -> DOMAIN backup.folders \cup {Root}]
    BY DEF Exported, Forests
<1>3. ASSUME NEW f \in left
      PROVE  /\ Key(f)[1] \in Nat /\ Key(f)[2] \in Nat
             /\ (Key(f)[1] = f /\ Key(f)[2] = 0) \/ Key(f)[2] = f
    <2>1. CASE backup.folders[f] = Root
        <3>1. Key(f) = <<f, 0>>
            BY <2>1 DEF Key
        <3> QED
            BY <1>1, <3>1
    <2>2. CASE backup.folders[f] # Root
        <3>1. Key(f) = <<backup.folders[f], f>>
            BY <2>2 DEF Key
        <3>2. backup.folders[f] \in Nat
            BY <1>2, <2>2, IdsAssumption DEF Exported
        <3> QED
            BY <1>1, <3>1, <3>2
    <2> QED
        BY <2>1, <2>2
<1> DEFINE Ones == {Key(f)[1] : f \in left}
<1>4. PICK one \in Ones : \A y \in Ones : one <= y
    <2>1. Ones # {}
        OBVIOUS
    <2>2. Ones \in SUBSET Nat
        BY <1>3
    <2> HIDE DEF Ones
    <2> QED
        BY <2>1, <2>2, LeastOfNumbers
<1> DEFINE Twos == {Key(f)[2] : f \in {g \in left : Key(g)[1] = one}}
<1>5. PICK two \in Twos : \A y \in Twos : two <= y
    <2>1. Twos # {} /\ Twos \subseteq Nat
        <3>1. PICK g \in left : Key(g)[1] = one
            BY <1>4
        <3> QED
            BY <1>3, <3>1
    <2>2. Twos \in SUBSET Nat
        BY <2>1
    <2> HIDE DEF Twos
    <2> QED
        BY <2>1, <2>2, LeastOfNumbers
<1>6. PICK f \in left : Key(f)[1] = one /\ Key(f)[2] = two
    BY <1>5
<1>7. ASSUME NEW g \in left \ {f} PROVE Before(f, g)
    <2>1. Key(f)[1] <= Key(g)[1]
        BY <1>4, <1>6
    <2>2. CASE Key(g)[1] = Key(f)[1]
        <3>1. Key(f)[2] <= Key(g)[2]
            BY <1>5, <1>6, <2>2
        <3>2. Key(f)[2] # Key(g)[2]
            BY <1>1, <1>3, <2>2
        <3> QED
            BY <1>3, <2>2, <3>1, <3>2 DEF Before
    <2> QED
        BY <1>3, <2>1, <2>2 DEF Before
<1> QED
    BY <1>7 DEF First

LEMMA ImportFolderKeeps == ImportInv /\ ImportFolder => ImportInv'
<1> SUFFICES ASSUME ImportInv, ImportFolder PROVE ImportInv'
    OBVIOUS
<1>1. backup' = backup /\ importing.at = "folders"
    BY DEF ImportFolder
<1>2. /\ importing.left \subseteq DOMAIN backup.folders
      /\ DOMAIN parents = DOMAIN backup.folders \ importing.left /\ DOMAIN folderOf = {}
    BY <1>1 DEF ImportInv, FoldersLeft
<1>3. CASE importing.left = {}
    <2>1. /\ importing' = [at |-> "bookmarks", left |-> DOMAIN backup.places]
          /\ parents' = parents /\ folderOf' = folderOf
        BY <1>1, <1>3 DEF ImportFolder, Goes, folderVars
    <2> QED
        BY <1>1, <1>2, <1>3, <2>1
           DEF ImportInv, TreeInv, Exported, Written, FoldersLeft, BookmarksLeft, AllWritten
<1>4. CASE importing.left # {} /\ importing'.at = "failed" /\ UNCHANGED folderVars
    BY <1>1, <1>4
       DEF ImportInv, TreeInv, Exported, Written, FoldersLeft, BookmarksLeft, AllWritten, folderVars
<1>5. ASSUME NEW f, f = First(importing.left), importing.left # {},
             SaveFolder(f, backup.folders[f]),
             importing' = [at |-> "folders", left |-> importing.left \ {f}]
      PROVE  ImportInv'
    <2>1. f \in importing.left
        BY <1>2, <1>5, FirstIsLeft DEF ImportInv
    <2>2. f \in FolderIds /\ f \in DOMAIN backup.folders
        BY <1>2, <2>1 DEF ImportInv, Exported
    <2>3. TreeInv'
        BY <1>5, <2>2, RootAssumption, PlacingKeepsForest DEF SaveFolder, ImportInv, TreeInv
    <2>4. /\ DOMAIN parents' = DOMAIN parents \cup {f} /\ folderOf' = folderOf
          /\ \A x \in DOMAIN parents' : parents'[x] = IF x = f THEN backup.folders[f] ELSE parents[x]
        BY <1>5 DEF SaveFolder
    <2>5. Written'
        BY <1>1, <2>2, <2>4 DEF ImportInv, Written
    <2>6. FoldersLeft' /\ BookmarksLeft' /\ AllWritten'
        BY <1>1, <1>2, <1>5, <2>1, <2>2, <2>4 DEF FoldersLeft, BookmarksLeft, AllWritten
    <2>7. Exported'
        BY <1>1 DEF ImportInv, Exported
    <2> QED
        BY <2>3, <2>5, <2>6, <2>7 DEF ImportInv
<1> QED
    BY <1>1, <1>3, <1>4, <1>5 DEF ImportFolder, Goes

LEMMA ImportBookmarkKeeps == ImportInv /\ ImportBookmark => ImportInv'
<1> SUFFICES ASSUME ImportInv, ImportBookmark PROVE ImportInv'
    OBVIOUS
<1>1. backup' = backup /\ importing.at = "bookmarks" /\ parents' = parents
    BY DEF ImportBookmark, folderVars, PlaceBookmark
<1>2. TreeInv' /\ Exported' /\ FoldersLeft'
    <2>1. importing'.at # "folders"
        BY DEF ImportBookmark, Goes
    <2> QED
        BY <1>1, <2>1 DEF ImportInv, TreeInv, Exported, FoldersLeft
<1>3. /\ importing.left \subseteq DOMAIN backup.places
      /\ DOMAIN parents = DOMAIN backup.folders
      /\ DOMAIN folderOf = DOMAIN backup.places \ importing.left
    BY <1>1 DEF ImportInv, BookmarksLeft
<1>4. CASE importing.left = {} /\ importing' = [at |-> "done", left |-> {}] /\ UNCHANGED folderVars
    BY <1>1, <1>2, <1>3, <1>4 DEF ImportInv, Written, BookmarksLeft, AllWritten, folderVars
<1>5. CASE importing'.at = "failed" /\ UNCHANGED folderVars
    BY <1>1, <1>2, <1>5 DEF ImportInv, Written, BookmarksLeft, AllWritten, folderVars
<1>6. ASSUME NEW b \in importing.left, PlaceBookmark(b, backup.places[b]),
             importing' = [at |-> "bookmarks", left |-> importing.left \ {b}]
      PROVE  ImportInv'
    <2>1. folderOf' = [x \in DOMAIN folderOf \cup {b} |-> IF x = b THEN backup.places[b] ELSE folderOf[x]]
        BY <1>6 DEF PlaceBookmark
    <2>2. DOMAIN folderOf' = DOMAIN folderOf \cup {b}
        BY <2>1
    <2>3. Written'
        BY <1>1, <1>3, <2>1 DEF ImportInv, Written
    <2>4. BookmarksLeft' /\ AllWritten'
        BY <1>1, <1>3, <1>6, <2>2 DEF BookmarksLeft, AllWritten
    <2> QED
        BY <1>2, <2>3, <2>4 DEF ImportInv
<1> QED
    BY <1>1, <1>4, <1>5, <1>6 DEF ImportBookmark, Goes

LEMMA ImportHolds == ImportSpec => []ImportInv
<1>1. ASSUME ImportInit PROVE ImportInv
    <2>1. parents = <<>> /\ folderOf = [b \in {} |-> Root] /\ importing = [at |-> "folders", left |-> DOMAIN backup.folders]
        BY <1>1 DEF ImportInit, FoldersInit
    <2>2. DOMAIN parents = {} /\ DOMAIN folderOf = {}
        BY <2>1
    <2>3. PICK up \in Forests :
              backup \in [folders : {up}, places : UNION {[B -> DOMAIN up \cup {Root}] : B \in SUBSET Items},
                          linked : SUBSET Items]
        BY <1>1 DEF ImportInit, Exports
    <2>4. Exported
        BY <2>3 DEF Exported, Forests
    <2>5. TreeInv
        BY <2>1, <2>2, RootAssumption DEF TreeInv, Tree, Forest
    <2>6. Written /\ FoldersLeft /\ BookmarksLeft /\ AllWritten
        BY <2>1, <2>2 DEF Written, FoldersLeft, BookmarksLeft, AllWritten
    <2> QED
        BY <2>4, <2>5, <2>6 DEF ImportInv
<1>2. ASSUME ImportInv, [ImportNext]_importVars PROVE ImportInv'
    <2>1. CASE UNCHANGED importVars
        BY <1>2, <2>1 DEF importVars, folderVars, ImportInv, TreeInv, Exported, Written, FoldersLeft,
                          BookmarksLeft, AllWritten
    <2> QED
        BY <1>2, <2>1, ImportFolderKeeps, ImportBookmarkKeeps DEF ImportNext
<1> QED
    BY <1>1, <1>2, PTL DEF ImportSpec

(* The folders are a forest all through an import, also where it stops halfway  *)
(* (ImportBookmarks of app/bookmarks.go).                                       *)
THEOREM ImportsKeepForest == ImportSpec => []FoldersFormForest
<1>1. ImportInv => FoldersFormForest
    BY DEF ImportInv, TreeInv, Forest, FoldersFormForest
<1> QED
    BY <1>1, ImportHolds, PTL

(* An import writes nothing but what the export holds, and all of it when it    *)
(* ends without a failure, for any export that is a forest.                     *)
THEOREM ImportsWriteTheExport == ImportSpec => []ImportsNothingElse
<1>1. ASSUME ImportInv PROVE ImportsNothingElse
    <2>1. CASE importing.at = "done"
        <3>1. DOMAIN parents = DOMAIN backup.folders /\ DOMAIN folderOf = DOMAIN backup.places
            BY <1>1, <2>1 DEF ImportInv, AllWritten
        <3>2. backup.folders \in [DOMAIN backup.folders -> DOMAIN backup.folders \cup {Root}]
            BY <1>1 DEF ImportInv, Exported, Forests
        <3>3. parents \in [DOMAIN parents -> DOMAIN parents \cup {Root}]
            BY <1>1 DEF ImportInv, TreeInv, Tree
        <3>4. parents = backup.folders
            BY <1>1, <3>1, <3>2, <3>3 DEF ImportInv, Written
        <3>5. folderOf = backup.places
            BY <1>1, <3>1 DEF ImportInv, Written, Exported
        <3> QED
            BY <1>1, <3>4, <3>5 DEF ImportInv, Written, ImportsNothingElse
    <2>2. CASE importing.at # "done"
        BY <1>1, <2>2 DEF ImportInv, Written, ImportsNothingElse
    <2> QED
        BY <2>1, <2>2
<1> QED
    BY <1>1, ImportHolds, PTL

-----------------------------------------------------------------------------
(* What is above a folder after a deletion. *)
Lifted(up, d) == [x \in DOMAIN up \ {d} |-> IF up[x] = d THEN up[d] ELSE up[x]]

LEMMA AboveAfterDeletion ==
    ASSUME NEW up, NEW d \in DOMAIN up, Tree(up), Forest(up), NEW f \in DOMAIN up \ {d}
    PROVE  Above(Lifted(up, d), f) = Above(up, f) \ {d}
<1> DEFINE now == Lifted(up, d)
<1>1. up[d] # d
    <2>1. {d} \in SUBSET DOMAIN up /\ {d} # {}
        OBVIOUS
    <2> QED
        BY <2>1 DEF Forest
<1>2. /\ DOMAIN now = DOMAIN up \ {d}
      /\ \A x \in DOMAIN now : now[x] = IF up[x] = d THEN up[d] ELSE up[x]
    BY DEF Lifted
<1> HIDE DEF now
<1>3. ASSUME NEW a \in Above(now, f) PROVE a \in Above(up, f) \ {d}
    <2>1. a \in DOMAIN up /\ a # d
        BY <1>2, <1>3 DEF Above
    <2>2. ASSUME NEW S \in SUBSET DOMAIN up, f \in S, Closed(up, S) PROVE a \in S
        <3>1. S \ {d} \in SUBSET DOMAIN now /\ f \in S \ {d}
            BY <1>2, <2>2
        <3>2. ASSUME NEW x \in S \ {d} PROVE now[x] \in (S \ {d}) \cup {Root}
            <4>1. up[x] \in S \cup {Root}
                BY <2>2, <3>2 DEF Closed
            <4>2. CASE up[x] = d
                BY <4>1, <4>2, <1>1, <1>2, <2>2 DEF Closed, Tree
            <4>3. CASE up[x] # d
                BY <4>1, <4>3, <1>2, <2>2
            <4> QED
                BY <4>2, <4>3
        <3> QED
            BY <3>1, <3>2, <1>3 DEF Above, Closed
    <2> QED
        BY <2>1, <2>2 DEF Above
<1>4. ASSUME NEW a \in Above(up, f), a # d PROVE a \in Above(now, f)
    <2>1. a \in DOMAIN now
        BY <1>2, <1>4 DEF Above
    <2>2. ASSUME NEW S \in SUBSET DOMAIN now, f \in S, Closed(now, S) PROVE a \in S
        <3> DEFINE T == IF \E x \in S : up[x] = d THEN S \cup {d} ELSE S
        <3>1. T \in SUBSET DOMAIN up /\ f \in T
            BY <1>2, <2>2
        <3>2. \A x \in S : (up[x] = d /\ up[d] \in S \cup {Root}) \/ (up[x] # d /\ up[x] \in S \cup {Root})
            BY <1>2, <2>2 DEF Closed
        <3>3. \A x \in T : up[x] \in T \cup {Root}
            BY <3>2
        <3>4. a \in T
            BY <3>1, <3>3, <1>4 DEF Above, Closed
        <3> QED
            BY <3>4, <1>4
    <2> QED
        BY <2>1, <2>2 DEF Above
<1> QED
    BY <1>3, <1>4 DEF now

(* What was in the deleted folder itself has its parent above it. *)
LEMMA AboveFromDeleted ==
    ASSUME NEW up, NEW d \in DOMAIN up, Tree(up), Forest(up)
    PROVE  (IF up[d] = Root THEN {} ELSE Above(Lifted(up, d), up[d])) = Above(up, d) \ {d}
<1>1. CASE up[d] = Root
    <2>1. {d} \in SUBSET DOMAIN up /\ Closed(up, {d})
        BY <1>1 DEF Closed
    <2> QED
        BY <1>1, <2>1 DEF Above
<1>2. CASE up[d] # Root
    <2> DEFINE h == up[d]
    <2>1. h \in DOMAIN up \ {d}
        <3>1. {d} \in SUBSET DOMAIN up /\ {d} # {}
            OBVIOUS
        <3> QED
            BY <3>1, <1>2 DEF Tree, Forest
    <2>2. Above(Lifted(up, d), h) = Above(up, h) \ {d}
        BY <2>1, AboveAfterDeletion
    <2>3. ASSUME NEW a \in Above(up, h), a # d PROVE a \in Above(up, d)
        BY <2>3, <1>2 DEF Above, Closed
    <2>4. ASSUME NEW a \in Above(up, d), a # d PROVE a \in Above(up, h)
        <3>1. ASSUME NEW S \in SUBSET DOMAIN up, h \in S, Closed(up, S) PROVE a \in S
            <4>1. S \cup {d} \in SUBSET DOMAIN up /\ Closed(up, S \cup {d})
                BY <3>1 DEF Closed
            <4> QED
                BY <4>1, <2>4 DEF Above
        <3> QED
            BY <3>1, <2>4 DEF Above
    <2> QED
        BY <2>2, <2>3, <2>4, <1>2
<1> QED
    BY <1>1, <1>2

(* Deleting a folder keeps everything else below the folders it was below       *)
(* (DeleteFolder of bookmarks.go hands what the folder held to its parent).     *)
THEOREM DeletionsKeepPlaces == FoldersSpec => DeletionKeepsPlaces
<1> DEFINE Kept ==
        \A d \in DOMAIN parents \ DOMAIN parents' :
          /\ DOMAIN parents' = DOMAIN parents \ {d}
          /\ \A f \in DOMAIN parents' : Above(parents', f) = Above(parents, f) \ {d}
          /\ DOMAIN folderOf' = DOMAIN folderOf
          /\ \A b \in DOMAIN folderOf :
                folderOf[b] \in DOMAIN parents =>
                    (IF folderOf'[b] = Root THEN {} ELSE Above(parents', folderOf'[b]))
                        = Above(parents, folderOf[b]) \ {d}
<1>1. FoldersInit => TreeInv
    BY RootAssumption DEF FoldersInit, TreeInv, Tree, Forest
<1>2. ASSUME TreeInv, [FoldersNext]_folderVars PROVE Kept
    <2>1. CASE DOMAIN parents \subseteq DOMAIN parents'
        BY <2>1
    <2>2. ASSUME NEW d \in FolderIds, DeleteFolder(d) PROVE Kept
        <3>1. Tree(parents) /\ Forest(parents) /\ d \in DOMAIN parents
            BY <1>2, <2>2 DEF TreeInv, DeleteFolder
        <3>2. /\ parents' = Lifted(parents, d) /\ DOMAIN parents' = DOMAIN parents \ {d}
              /\ folderOf' = [b \in DOMAIN folderOf |-> IF folderOf[b] = d THEN parents[d] ELSE folderOf[b]]
            BY <2>2 DEF DeleteFolder, Lifted
        <3>3. \A f \in DOMAIN parents' : Above(parents', f) = Above(parents, f) \ {d}
            BY <3>1, <3>2, AboveAfterDeletion
        <3>4. ASSUME NEW b \in DOMAIN folderOf, folderOf[b] \in DOMAIN parents
              PROVE  (IF folderOf'[b] = Root THEN {} ELSE Above(parents', folderOf'[b]))
                        = Above(parents, folderOf[b]) \ {d}
            <4>1. CASE folderOf[b] = d
                BY <4>1, <3>1, <3>2, <3>4, AboveFromDeleted
            <4>2. CASE folderOf[b] # d
                <5>1. folderOf'[b] = folderOf[b] /\ folderOf[b] \in DOMAIN parents' /\ folderOf[b] # Root
                    BY <4>2, <3>1, <3>2, <3>4 DEF Tree
                <5> QED
                    BY <5>1, <3>3
            <4> QED
                BY <4>1, <4>2
        <3>5. DOMAIN parents \ DOMAIN parents' = {d} /\ DOMAIN folderOf' = DOMAIN folderOf
            BY <3>1, <3>2
        <3> QED
            BY <3>2, <3>3, <3>4, <3>5
    <2>3. ASSUME NEW f \in FolderIds, NEW p, SaveFolder(f, p) PROVE DOMAIN parents \subseteq DOMAIN parents'
        BY <2>3 DEF SaveFolder
    <2>4. ASSUME NEW f \in FolderIds, NEW p, NEW g \in FolderIds, NEW q, ReorderFolders(f, p, g, q)
          PROVE  DOMAIN parents \subseteq DOMAIN parents'
        BY <2>4 DEF ReorderFolders, Moved
    <2>5. ASSUME NEW b, NEW f, PlaceBookmark(b, f) \/ RemoveBookmark(b) \/ UNCHANGED folderVars
          PROVE  DOMAIN parents \subseteq DOMAIN parents'
        BY <2>5 DEF PlaceBookmark, RemoveBookmark, folderVars
    <2> HIDE DEF Kept
    <2> QED
        BY <1>2, <2>1, <2>2, <2>3, <2>4, <2>5 DEF FoldersNext
<1> QED
    BY <1>1, <1>2, FoldersStep, PTL DEF FoldersSpec, DeletionKeepsPlaces

-----------------------------------------------------------------------------
(* Setup and tokens.  A setup that may still write was not late; a request      *)
(* that has found its token found it alive, and revoking is for good.           *)
SetupRows ==
    /\ setups \in [Setups -> [at : {"new", "asked", "checked", "done", "failed", "refused"},
                             cidrs : SUBSET Cidrs, docker : BOOLEAN, late : BOOLEAN]]
    /\ targets \in [DOMAIN targets -> Done \cup {User}]

SetupInv ==
    /\ SetupRows
    /\ SetupIsWhole
    /\ \A r \in Setups : setups[r].at \in {"asked", "checked"} => ~setups[r].late

TokenRows ==
    /\ tokens \in [DOMAIN tokens -> [scope : Scopes, revoked : BOOLEAN]]
    /\ requests \in [Requests -> [at : {"new", "asked", "found", "accepted", "refused"},
                                 token : Tokens \cup {Legacy, Nobody}, need : Scopes,
                                 revoked : SUBSET DOMAIN tokens]]

FoundAlive(q) ==
    LET t == requests[q].token
    IN  t \in DOMAIN tokens /\ t \notin requests[q].revoked /\ TokenScopeAllows(tokens[t].scope, requests[q].need)

TokenInv ==
    /\ TokenRows
    /\ \A q \in Requests :
          /\ \A t \in requests[q].revoked : tokens[t].revoked
          /\ requests[q].at = "found" => FoundAlive(q)
          /\ (requests[q].at = "accepted" /\ requests[q].token # Legacy) => FoundAlive(q)

LEMMA SetupStep == SetupInv /\ [SetupNext]_setupModuleVars => SetupInv'
<1> SUFFICES ASSUME SetupInv, [SetupNext]_setupModuleVars PROVE SetupInv'
    OBVIOUS
<1> USE DEF SetupInv, SetupRows, SetupIsWhole, Done, setupVars
<1>1. ASSUME NEW r \in Setups, NEW cidrs \in SUBSET Cidrs, NEW docker \in BOOLEAN, BeginSetup(r, cidrs, docker)
      PROVE  SetupInv'
    <2>1. PICK c \in SUBSET Cidrs, d \in BOOLEAN :
             setups' = [setups EXCEPT ![r] =
                          [at |-> IF settings = Nobody THEN "asked" ELSE "refused",
                           cidrs |-> c, docker |-> d, late |-> settings # Nobody]]
        BY <1>1 DEF BeginSetup, SeedScanTargets, SeedDockerEndpoints
    <2>2. /\ Done' = Done /\ setups[r].at = "new"
          /\ setups' \in [Setups -> [at : {"new", "asked", "checked", "done", "failed", "refused"},
                                    cidrs : SUBSET Cidrs, docker : BOOLEAN, late : BOOLEAN]]
          /\ UNCHANGED <<settings, targets, endpoints>>
        BY <1>1, <2>1 DEF BeginSetup
    <2>3. \A q \in Setups : q # r => setups'[q] = setups[q]
        BY <2>1
    <2>4. setups'[r].at \in {"asked", "checked"} => ~setups'[r].late
        BY <2>1
    <2>5. \A q \in Done' : ~setups'[q].late
        BY <2>2, <2>3
    <2> QED
        BY <2>2, <2>3, <2>4, <2>5
<1>2. ASSUME NEW r \in Setups, CheckSetup(r) PROVE SetupInv'
    BY <1>2 DEF CheckSetup
<1>3. ASSUME NEW r \in Setups, WriteSetup(r) PROVE SetupInv'
    <2>1. CASE setups[r].cidrs \cap DOMAIN targets = {}
        <3>1. Done' = Done \cup {r} /\ SetupRows'
            BY <1>3, <2>1 DEF WriteSetup
        <3>2. /\ settings' = r /\ endpoints' \subseteq endpoints \cup {r}
              /\ \A c \in DOMAIN targets' : targets'[c] = r \/ (c \in DOMAIN targets /\ targets'[c] = targets[c])
            BY <1>3, <2>1 DEF WriteSetup
        <3>3. \A q \in Setups : setups'[q].late = setups[q].late
                 /\ (q # r => setups'[q].at = setups[q].at)
            BY <1>3, <2>1 DEF WriteSetup
        <3>4. \A q \in Done' : ~setups'[q].late
            BY <3>1, <3>3, <1>3 DEF WriteSetup
        <3>5. SetupIsWhole'
            BY <3>1, <3>2, <3>4
        <3>6. \A q \in Setups : setups'[q].at \in {"asked", "checked"} => ~setups'[q].late
            BY <3>3, <1>3, <2>1 DEF WriteSetup
        <3> QED
            BY <3>1, <3>5, <3>6
    <2>2. CASE setups[r].cidrs \cap DOMAIN targets # {}
        BY <1>3, <2>2 DEF WriteSetup
    <2> QED
        BY <2>1, <2>2
<1>4. ASSUME NEW r \in Setups, SetupFails(r) PROVE SetupInv'
    BY <1>4 DEF SetupFails
<1>5. ASSUME NEW c, SaveScanTarget(c) \/ DeleteScanTarget(c) PROVE SetupInv'
    BY <1>5 DEF SaveScanTarget, DeleteScanTarget
<1>6. ASSUME NEW by, SaveDockerEndpoint \/ DeleteDockerEndpoint(by) PROVE SetupInv'
    BY <1>6 DEF SaveDockerEndpoint, DeleteDockerEndpoint
<1>7. ASSUME NEW t, NEW scope, NEW q, NEW need,
             \/ RevokeAPIToken(t) \/ CreateAPIToken(t, scope)
             \/ PresentToken(q, t, need) \/ LookUpToken(q) \/ StampToken(q)
      PROVE  SetupInv'
    BY <1>7 DEF RevokeAPIToken, CreateAPIToken, PresentToken, LookUpToken, StampToken
<1>8. CASE UNCHANGED setupModuleVars
    BY <1>8 DEF setupModuleVars
<1> HIDE DEF SetupInv
<1> QED
    BY <1>1, <1>2, <1>3, <1>4, <1>5, <1>6, <1>7, <1>8 DEF SetupNext

LEMMA TokenStep == TokenInv /\ [SetupNext]_setupModuleVars => TokenInv'
<1> SUFFICES ASSUME TokenInv, [SetupNext]_setupModuleVars PROVE TokenInv'
    OBVIOUS
<1> USE DEF TokenInv, TokenRows, FoundAlive, Scopes
<1>1. ASSUME NEW t \in Tokens, NEW scope \in Scopes, CreateAPIToken(t, scope) PROVE TokenInv'
    BY <1>1 DEF CreateAPIToken
<1>2. ASSUME NEW t \in Tokens, RevokeAPIToken(t) PROVE TokenInv'
    <2>1. /\ tokens' \in [DOMAIN tokens' -> [scope : Scopes, revoked : BOOLEAN]]
          /\ DOMAIN tokens' = DOMAIN tokens /\ requests' = requests
          /\ \A x \in DOMAIN tokens : tokens'[x].scope = tokens[x].scope
                                     /\ (tokens[x].revoked => tokens'[x].revoked)
        <3>1. t \in DOMAIN tokens /\ tokens' = [tokens EXCEPT ![t].revoked = TRUE] /\ requests' = requests
            BY <1>2 DEF RevokeAPIToken
        <3>2. DOMAIN tokens' = DOMAIN tokens
            BY <3>1
        <3>3. ASSUME NEW x \in DOMAIN tokens
              PROVE  /\ tokens'[x] \in [scope : Scopes, revoked : BOOLEAN]
                     /\ tokens'[x].scope = tokens[x].scope
                     /\ tokens[x].revoked => tokens'[x].revoked
            <4>1. tokens[x] \in [scope : Scopes, revoked : BOOLEAN]
                OBVIOUS
            <4>2. tokens'[x] = IF x = t THEN [tokens[x] EXCEPT !.revoked = TRUE] ELSE tokens[x]
                BY <3>1
            <4>3. CASE x = t
                <5>1. tokens'[x] = [tokens[x] EXCEPT !.revoked = TRUE]
                    BY <4>2, <4>3
                <5> HIDE DEF TokenInv
                <5> QED
                    BY <4>1, <5>1
            <4>4. CASE x # t
                <5>1. tokens'[x] = tokens[x]
                    BY <4>2, <4>4
                <5> QED
                    BY <4>1, <5>1
            <4> QED
                BY <4>3, <4>4
        <3>4. tokens' \in [DOMAIN tokens' -> [scope : Scopes, revoked : BOOLEAN]]
            <4>1. tokens' = [x \in DOMAIN tokens |-> tokens'[x]]
                BY <3>1
            <4> QED
                BY <4>1, <3>2, <3>3
        <3> QED
            BY <3>1, <3>2, <3>3, <3>4
    <2>2. TokenRows'
        BY <2>1
    <2>3. ASSUME NEW q \in Requests
          PROVE  /\ \A x \in requests'[q].revoked : tokens'[x].revoked
                 /\ FoundAlive(q) => FoundAlive(q)'
        BY <2>1 DEF TokenScopeAllows
    <2> QED
        BY <2>1, <2>2, <2>3
<1>3. ASSUME NEW q \in Requests, NEW t \in Tokens \cup {Legacy}, NEW need \in Scopes, PresentToken(q, t, need)
      PROVE  TokenInv'
    BY <1>3 DEF PresentToken, Revoked
<1>4. ASSUME NEW q \in Requests, LookUpToken(q) PROVE TokenInv'
    BY <1>4 DEF LookUpToken, Live
<1>5. ASSUME NEW q \in Requests, StampToken(q) PROVE TokenInv'
    BY <1>5 DEF StampToken
<1>6. ASSUME NEW r, NEW cidrs, NEW docker,
             BeginSetup(r, cidrs, docker) \/ CheckSetup(r) \/ WriteSetup(r) \/ SetupFails(r)
      PROVE  TokenInv'
    BY <1>6 DEF BeginSetup, CheckSetup, WriteSetup, SetupFails
<1>7. ASSUME NEW c, NEW by,
             \/ SaveScanTarget(c) \/ DeleteScanTarget(c)
             \/ SaveDockerEndpoint \/ DeleteDockerEndpoint(by)
      PROVE  TokenInv'
    BY <1>7 DEF SaveScanTarget, DeleteScanTarget, SaveDockerEndpoint, DeleteDockerEndpoint
<1>8. CASE UNCHANGED setupModuleVars
    BY <1>8 DEF setupModuleVars
<1> HIDE DEF TokenInv
<1> QED
    BY <1>1, <1>2, <1>3, <1>4, <1>5, <1>6, <1>7, <1>8 DEF SetupNext

(* Nothing of a setup that did not succeed is left, and a token is accepted     *)
(* only when it was alive and allowed, for any number of setups, requests and   *)
(* tokens (Initialize and ValidateAPIToken of store_impl.go).                   *)
THEOREM SetupAndTokensAreSound == SetupSpec => []SetupAndTokensHold
<1>1. SetupInit => SetupInv /\ TokenInv
    <2> SUFFICES ASSUME SetupInit PROVE SetupInv /\ TokenInv
        OBVIOUS
    <2>1. Done = {} /\ SetupInv
        BY DEF SetupInit, SetupInv, SetupRows, SetupIsWhole, Done, NewSetup
    <2>2. TokenInv
        BY DEF SetupInit, TokenInv, TokenRows, FoundAlive, NewRequest, Scopes
    <2> QED
        BY <2>1, <2>2
<1>2. SetupInv /\ TokenInv => SetupAndTokensHold
    BY DEF SetupInv, TokenInv, FoundAlive, SetupAndTokensHold, AcceptedWereLive
<1> QED
    BY <1>1, <1>2, SetupStep, TokenStep, PTL DEF SetupSpec

-----------------------------------------------------------------------------
(* Devices.  The key of a device and its MAC agree from the start, so that an   *)
(* observation never changes the MAC of the device it finds.                    *)
Machines == Macs \cup {Unknown}
AddressRows == UNION {[A -> Machines] : A \in SUBSET Addresses}
Keys == {"mac", "fp", "docker-host"} \X (Macs \cup Hosts \cup Addresses \cup Endpoints \cup {Unknown})

DeviceRows ==
    /\ devices \in [DOMAIN devices -> [mac : Machines, hidden : BOOLEAN, addresses : AddressRows]]
    /\ scans \in [Scanners -> [stored : Keys \cup {Unknown}, created : BOOLEAN]]
    /\ announced \in [DOMAIN announced -> Nat]

(* The addresses of a device were seen with its own MAC or with none. *)
SeenAs(mac, rows) == \A a \in DOMAIN rows : rows[a] \in {Unknown, mac}

KeysNameMacs ==
    \A k \in DOMAIN devices :
        /\ devices[k].mac # Unknown => k = <<"mac", devices[k].mac>>
        /\ \A m : k = <<"mac", m>> => devices[k].mac = m
        /\ SeenAs(devices[k].mac, devices[k].addresses)

(* A created device is announced by the one run that created it. *)
AnnouncedByCreator ==
    /\ \A k \in DOMAIN announced : k \in DOMAIN devices /\ announced[k] = 1
    /\ \A s \in Scanners : scans[s].created =>
          /\ scans[s].stored \in DOMAIN devices \ DOMAIN announced
          /\ \A t \in Scanners \ {s} : scans[t].created => scans[t].stored # scans[s].stored

HiddenAsAsked == \A k \in DOMAIN devices : devices[k].hidden <=> k \in hiddenByUser

DevicesInv ==
    /\ DeviceRows
    /\ KeysNameMacs
    /\ AnnouncedByCreator
    /\ HiddenAsAsked /\ hiddenByUser \subseteq DOMAIN devices

LEMMA KeyOfObservation ==
    ASSUME NEW o \in LanObservation \cup DockerObservation
    PROVE  /\ IdentityKey(o) \in Keys /\ MacOf(o) \in Machines
           /\ o.address \in Addresses \cup {Unknown}
           /\ MacOf(o) # Unknown => IdentityKey(o) = <<"mac", MacOf(o)>>
           /\ MacOf(o) = Unknown => \A m : IdentityKey(o) # <<"mac", m>>
<1>1. CASE o \in LanObservation
    BY <1>1 DEF LanObservation, IdentityKey, MacOf, Keys, Machines
<1>2. CASE o \in DockerObservation
    BY <1>2 DEF DockerObservation, IdentityKey, MacOf, Keys, Machines
<1> QED
    BY <1>1, <1>2

(* What is seen at an address is the device's own MAC or nothing. *)
LEMMA SeenAddresses ==
    ASSUME NEW o \in LanObservation \cup DockerObservation, NEW mac,
           MacOf(o) \in {Unknown, mac},
           NEW rows \in AddressRows, SeenAs(mac, rows)
    PROVE  Seen(rows, o) \in AddressRows /\ SeenAs(mac, Seen(rows, o))
<1> DEFINE A == DOMAIN rows \cup {o.address}
<1>1. PICK B \in SUBSET Addresses : rows \in [B -> Machines]
    BY DEF AddressRows
<1>2. CASE o.address = Unknown
    BY <1>2 DEF Seen
<1>3. CASE o.address # Unknown
    <2>1. A \in SUBSET Addresses
        BY <1>1, <1>3, KeyOfObservation
    <2>2. /\ DOMAIN Seen(rows, o) = A
          /\ Seen(rows, o) = [a \in A |-> Seen(rows, o)[a]]
          /\ \A a \in A : Seen(rows, o)[a] \in Machines /\ Seen(rows, o)[a] \in {Unknown, mac}
        BY <1>1, <1>3, KeyOfObservation DEF Seen, Known, SeenAs
    <2>3. Seen(rows, o) \in [A -> Machines]
        BY <2>2
    <2> QED
        BY <2>1, <2>2, <2>3 DEF AddressRows, SeenAs
<1> QED
    BY <1>2, <1>3

LEMMA StoringKeepsDevices ==
    ASSUME DevicesInv, NEW s \in Scanners, NEW o \in LanObservation \cup DockerObservation,
           StoreObservation(s, o)
    PROVE  DevicesInv'
<1> USE DEF DevicesInv, DeviceRows, KeysNameMacs
<1> DEFINE new == IdentityKey(o)
<1>1. /\ new \in Keys /\ MacOf(o) \in Machines
      /\ MacOf(o) # Unknown => new = <<"mac", MacOf(o)>>
      /\ MacOf(o) = Unknown => \A m : new # <<"mac", m>>
    BY KeyOfObservation
<1>2. CASE Matches(o) = {}
    <2> DEFINE row == [mac |-> MacOf(o), hidden |-> FALSE, addresses |-> Seen(<<>>, o)]
    <2>1. /\ new \notin DOMAIN devices
          /\ devices' = [k \in DOMAIN devices \cup {new} |-> IF k # new THEN devices[k] ELSE row]
          /\ scans' = [scans EXCEPT ![s] = [stored |-> new, created |-> TRUE]]
          /\ UNCHANGED <<announced, hiddenByUser>>
        BY <1>2 DEF StoreObservation, Matches
    <2>2. Seen(<<>>, o) \in AddressRows /\ SeenAs(MacOf(o), Seen(<<>>, o))
        <3>1. <<>> \in AddressRows
            <4>1. <<>> \in [{} -> Machines]
                OBVIOUS
            <4> QED
                BY <4>1 DEF AddressRows
        <3>2. SeenAs(MacOf(o), <<>>)
            BY DEF SeenAs
        <3> QED
            BY <3>1, <3>2, SeenAddresses
    <2> HIDE DEF new
    <2>3. DeviceRows'
        BY <1>1, <2>1, <2>2
    <2>4. KeysNameMacs'
        <3> SUFFICES ASSUME NEW k \in DOMAIN devices'
                     PROVE  /\ devices'[k].mac # Unknown => k = <<"mac", devices'[k].mac>>
                            /\ \A m : k = <<"mac", m>> => devices'[k].mac = m
                            /\ SeenAs(devices'[k].mac, devices'[k].addresses)
            BY Zenon DEF KeysNameMacs
        <3>1. CASE k = new
            <4>1. devices'[k] = row
                BY <2>1, <3>1
            <4> QED
                BY <4>1, <3>1, <1>1, <2>2
        <3>2. CASE k # new
            BY <2>1, <3>2
        <3> QED
            BY <3>1, <3>2
    <2>5. AnnouncedByCreator'
        BY <2>1 DEF AnnouncedByCreator
    <2>6. HiddenAsAsked' /\ hiddenByUser' \subseteq DOMAIN devices'
        BY <2>1 DEF HiddenAsAsked
    <2> QED
        BY <2>3, <2>4, <2>5, <2>6
<1>3. CASE Matches(o) # {}
    <2>1. PICK k \in Matches(o) :
             /\ devices' = [devices EXCEPT ![k] =
                    [devices[k] EXCEPT !.mac = Known(MacOf(o), @), !.addresses = Seen(@, o)]]
             /\ scans' = [scans EXCEPT ![s] = [stored |-> k, created |-> FALSE]]
             /\ UNCHANGED <<announced, hiddenByUser>>
        BY <1>3 DEF StoreObservation
    <2>2. k \in DOMAIN devices /\ (k = new \/ (MacOf(o) # Unknown /\ devices[k].mac = MacOf(o)))
        BY DEF Matches
    <2>3. Known(MacOf(o), devices[k].mac) = devices[k].mac /\ MacOf(o) \in {Unknown, devices[k].mac}
        BY <1>1, <2>2 DEF Known
    <2>4. k \in Keys
        BY <1>1, <2>2
    <2>5. /\ Seen(devices[k].addresses, o) \in AddressRows
          /\ SeenAs(devices[k].mac, Seen(devices[k].addresses, o))
        <3> DEFINE mac == devices[k].mac
                   rows == devices[k].addresses
        <3>1. rows \in AddressRows /\ SeenAs(mac, rows) /\ MacOf(o) \in {Unknown, mac}
            BY <2>2, <2>3
        <3> HIDE DEF mac, rows
        <3>2. Seen(rows, o) \in AddressRows /\ SeenAs(mac, Seen(rows, o))
            BY <3>1, SeenAddresses
        <3> QED
            BY <3>2 DEF mac, rows
    <2>6. /\ DOMAIN devices' = DOMAIN devices
          /\ devices'[k] = [devices[k] EXCEPT !.addresses = Seen(devices[k].addresses, o)]
          /\ \A l \in DOMAIN devices : l # k => devices'[l] = devices[l]
          /\ devices' \in [DOMAIN devices -> [mac : Machines, hidden : BOOLEAN, addresses : AddressRows]]
        <3> DEFINE row == [devices[k] EXCEPT !.addresses = Seen(devices[k].addresses, o)]
        <3>1. devices[k] \in [mac : Machines, hidden : BOOLEAN, addresses : AddressRows]
            BY <2>2
        <3>2. row \in [mac : Machines, hidden : BOOLEAN, addresses : AddressRows]
            BY <3>1, <2>5
        <3>3. devices' = [devices EXCEPT ![k] = row]
            <4>1. [devices[k] EXCEPT !.mac = Known(MacOf(o), @), !.addresses = Seen(@, o)] = row
                BY <2>3, <3>1
            <4> QED
                BY <2>1, <4>1
        <3> HIDE DEF row
        <3>4. /\ DOMAIN devices' = DOMAIN devices /\ devices'[k] = row
              /\ \A l \in DOMAIN devices : l # k => devices'[l] = devices[l]
            BY <2>2, <3>3
        <3> QED
            BY <2>2, <3>2, <3>3, <3>4 DEF row
    <2>7. DeviceRows'
        BY <2>1, <2>4, <2>6
    <2>8. KeysNameMacs'
        BY <2>2, <2>5, <2>6
    <2>9. AnnouncedByCreator'
        BY <2>1, <2>6 DEF AnnouncedByCreator
    <2>10. HiddenAsAsked' /\ hiddenByUser' \subseteq DOMAIN devices'
        BY <2>1, <2>2, <2>6 DEF HiddenAsAsked
    <2> QED
        BY <2>7, <2>8, <2>9, <2>10
<1> QED
    BY <1>2, <1>3

LEMMA DevicesStep == DevicesInv /\ [DevicesNext]_deviceVars => DevicesInv'
<1> SUFFICES ASSUME DevicesInv, [DevicesNext]_deviceVars PROVE DevicesInv'
    OBVIOUS
<1>1. ASSUME NEW s \in Scanners, AnnounceDevice(s) PROVE DevicesInv'
    <2>1. CASE scans[s].created
        BY <1>1, <2>1 DEF DevicesInv, DeviceRows, AnnouncedByCreator, HiddenAsAsked, KeysNameMacs,
                          AnnounceDevice, Announcements, Idle
    <2>2. CASE ~scans[s].created
        BY <1>1, <2>2 DEF DevicesInv, DeviceRows, AnnouncedByCreator, HiddenAsAsked, KeysNameMacs,
                          AnnounceDevice, Idle
    <2> QED
        BY <2>1, <2>2
<1>2. ASSUME NEW s \in Scanners, ReadBackFails(s) PROVE DevicesInv'
    BY <1>2 DEF DevicesInv, DeviceRows, AnnouncedByCreator, HiddenAsAsked, KeysNameMacs, ReadBackFails, Idle
<1>3. ASSUME NEW k \in DOMAIN devices, NEW hidden \in BOOLEAN, UpdateDevice(k, hidden) PROVE DevicesInv'
    <2>1. DeviceRows' /\ KeysNameMacs' /\ DOMAIN devices' = DOMAIN devices
        BY <1>3 DEF DevicesInv, DeviceRows, KeysNameMacs, UpdateDevice
    <2>2. AnnouncedByCreator'
        BY <1>3, <2>1 DEF DevicesInv, AnnouncedByCreator, UpdateDevice
    <2>3. HiddenAsAsked' /\ hiddenByUser' \subseteq DOMAIN devices'
        BY <1>3 DEF DevicesInv, DeviceRows, HiddenAsAsked, UpdateDevice
    <2> QED
        BY <2>1, <2>2, <2>3 DEF DevicesInv
<1>4. CASE UNCHANGED deviceVars
    BY <1>4 DEF deviceVars, DevicesInv, DeviceRows, AnnouncedByCreator, HiddenAsAsked, KeysNameMacs
<1> QED
    BY <1>1, <1>2, <1>3, <1>4, StoringKeepsDevices DEF DevicesNext

(* A device is one machine, is announced once and stays hidden when its user    *)
(* has hidden it, for any number of machines, addresses and overlapping scans   *)
(* (findOrCreateDeviceTx and upsertDeviceAddressTx of store_impl.go).           *)
THEOREM DevicesAreIdentified == DevicesSpec => []DevicesIdentified
<1>1. DevicesInit => DevicesInv
    BY DEF DevicesInit, DevicesInv, DeviceRows, AnnouncedByCreator, HiddenAsAsked, KeysNameMacs, Idle
<1>2. DevicesInv => DevicesIdentified
    BY DEF DevicesInv, DevicesIdentified, OneMachinePerDevice, KeysNameMacs, SeenAs, AnnouncedByCreator, HiddenAsAsked
<1> QED
    BY <1>1, <1>2, DevicesStep, PTL DEF DevicesSpec

-----------------------------------------------------------------------------
(* Bookmarks.  LinksInv is about values of the tables, so that a transaction    *)
(* can be taken in two steps: the rows it writes, then the service it deletes.  *)
BookmarkRows(rows, svcs) ==
    /\ rows \in [DOMAIN rows -> [service : ServiceIds \cup {None}, url : BOOLEAN, tags : SUBSET TagNames]]
    /\ svcs \in [DOMAIN svcs -> [hidden : BOOLEAN, owner : BookmarkIds \cup {None}]]
    /\ DOMAIN svcs \subseteq ServiceIds
    /\ \A b \in DOMAIN rows : rows[b].service \in DOMAIN svcs \cup {None}

OneEach(rows) ==
    \A b, c \in DOMAIN rows : (rows[b].service = rows[c].service /\ rows[b].service # None) => b = c

Owned(rows, svcs, s) ==
    svcs[s].hidden => svcs[s].owner \in DOMAIN rows /\ rows[svcs[s].owner].service = s

LinksInv ==
    /\ BookmarkRows(bookmarks, services)
    /\ OneEach(bookmarks)
    /\ \A s \in DOMAIN services \ userServices : Owned(bookmarks, services, s)
    /\ TagsAreUsed

(* What Store leaves behind when nothing depends on the service that goes. *)
LEMMA Storing ==
    ASSUME NEW rows, NEW svcs, NEW gone, NEW all, NEW users,
           BookmarkRows(rows, svcs), OneEach(rows), UsedTags(rows) \subseteq all,
           \A s \in DOMAIN svcs \ (users \cup {gone}) : Owned(rows, svcs, s),
           Store(rows, svcs, gone, all), userServices' = users \ {gone}
    PROVE  LinksInv'
<1>1. /\ DOMAIN bookmarks' = DOMAIN rows
      /\ \A b \in DOMAIN rows :
            bookmarks'[b] = IF rows[b].service = gone THEN [rows[b] EXCEPT !.service = None] ELSE rows[b]
      /\ bookmarks' = [b \in DOMAIN rows |-> bookmarks'[b]]
    BY DEF Store, Unlinked
<1>2. \A b \in DOMAIN rows :
         /\ bookmarks'[b] \in [service : ServiceIds \cup {None}, url : BOOLEAN, tags : SUBSET TagNames]
         /\ bookmarks'[b].service = IF rows[b].service = gone THEN None ELSE rows[b].service
         /\ bookmarks'[b].tags = rows[b].tags
    BY <1>1 DEF BookmarkRows
<1>3. /\ DOMAIN services' = DOMAIN svcs \ {gone}
      /\ \A s \in DOMAIN services' : services'[s] = svcs[s]
      /\ services' = [s \in DOMAIN services' |-> services'[s]]
    BY DEF Store, Without
<1>4. BookmarkRows(bookmarks, services)'
    BY <1>1, <1>2, <1>3 DEF BookmarkRows
<1>5. OneEach(bookmarks)'
    BY <1>1, <1>2 DEF OneEach
<1>6. ASSUME NEW s \in DOMAIN services' \ userServices' PROVE Owned(bookmarks, services, s)'
    <2>1. s \in DOMAIN svcs \ (users \cup {gone}) /\ services'[s] = svcs[s]
        BY <1>3, <1>6
    <2>2. Owned(rows, svcs, s)
        BY <2>1
    <2> QED
        BY <1>1, <1>2, <2>1, <2>2 DEF Owned
<1>7. TagsAreUsed'
    <2>1. UsedTags(rows) = UNION {bookmarks'[b].tags : b \in DOMAIN bookmarks'}
        BY <1>1, <1>2 DEF UsedTags
    <2>2. tags' = all \cap UsedTags(rows)
        BY DEF Store, SyncedTags
    <2> QED
        BY <2>1, <2>2 DEF TagsAreUsed, UsedTags
<1> QED
    BY <1>4, <1>5, <1>6, <1>7 DEF LinksInv

LEMMA SavingKeepsLinks ==
    ASSUME LinksInv, NEW input \in BookmarkInput, NEW new \in ServiceIds, SaveBookmark(input, new)
    PROVE  LinksInv'
<1> DEFINE owned == input.monitor = "own"
           s == IF owned THEN OwnService(input, new) ELSE input.service
           svcs == IF owned THEN With(services, s, OwnedRow(input)) ELSE services
           before == ServiceIdOf(bookmarks, input.id)
           id == RecordId(input.id, s)
           row == [service |-> s, url |-> input.url, tags |-> input.tags]
           gone == IF before # None /\ before # s /\ GoesWith(svcs, before, id) THEN before ELSE None
           rows == With(bookmarks, id, row)
           users == IF owned THEN userServices \ {s} ELSE userServices
<1>1. /\ new \notin DOMAIN services
      /\ s # None => s \in DOMAIN svcs
      /\ Store(rows, svcs, gone, tags \cup input.tags)
      /\ userServices' = users \ {gone}
    BY DEF SaveBookmark
<1>2. /\ input.id \in BookmarkIds /\ input.url \in BOOLEAN /\ input.tags \in SUBSET TagNames
      /\ input.visible \in BOOLEAN /\ input.service \in ServiceIds \cup {None}
    BY DEF BookmarkInput
<1>3. BookmarkRows(bookmarks, services) /\ OneEach(bookmarks)
    BY DEF LinksInv
<1>4. /\ before \in DOMAIN services \cup {None}
      /\ before # None => input.id \in DOMAIN bookmarks /\ bookmarks[input.id].service = before
    BY <1>3 DEF ServiceIdOf, BookmarkRows
<1>5. s \in ServiceIds \cup {None} /\ (owned => s # None)
    BY <1>2, <1>3, <1>4, NullAssumption DEF OwnService, BookmarkRows
<1>6. /\ \A b \in DOMAIN bookmarks : (s # None /\ bookmarks[b].service = s) => b = id
      /\ id # input.id => s # None /\ id \in DOMAIN bookmarks /\ bookmarks[id].service = s
    BY <1>3 DEF RecordId, OneEach
<1>7. owned => id = input.id
    <2> SUFFICES ASSUME owned, id # input.id PROVE FALSE
        OBVIOUS
    <2>1. id \in DOMAIN bookmarks /\ bookmarks[id].service = s /\ s # None
        BY <1>6
    <2>2. s \in DOMAIN services
        BY <1>3, <2>1 DEF BookmarkRows
    <2>3. before = s
        BY <1>1, <2>2 DEF OwnService
    <2> QED
        BY <1>4, <1>6, <2>1, <2>3
<1> HIDE DEF s, id, before, row
<1>8. /\ DOMAIN rows = DOMAIN bookmarks \cup {id} /\ rows[id] = row
      /\ \A b \in DOMAIN bookmarks \ {id} : rows[b] = bookmarks[b]
      /\ rows = [b \in DOMAIN rows |-> rows[b]]
    BY DEF With
<1>9. /\ DOMAIN svcs = IF owned THEN DOMAIN services \cup {s} ELSE DOMAIN services
      /\ \A x \in DOMAIN svcs : svcs[x] = IF owned /\ x = s THEN OwnedRow(input) ELSE services[x]
      /\ svcs = [x \in DOMAIN svcs |-> svcs[x]]
    BY <1>3 DEF With, BookmarkRows
<1>10. /\ row.service = s /\ row.tags = input.tags
       /\ row \in [service : ServiceIds \cup {None}, url : BOOLEAN, tags : SUBSET TagNames]
    BY <1>2, <1>5 DEF row
<1>11. OwnedRow(input) \in [hidden : BOOLEAN, owner : BookmarkIds \cup {None}] /\ OwnedRow(input).owner = input.id
    BY <1>2 DEF OwnedRow
<1> HIDE DEF rows, svcs, owned
<1>12. BookmarkRows(rows, svcs)
    <2>1. rows \in [DOMAIN rows -> [service : ServiceIds \cup {None}, url : BOOLEAN, tags : SUBSET TagNames]]
        BY <1>3, <1>8, <1>10 DEF BookmarkRows
    <2>2. svcs \in [DOMAIN svcs -> [hidden : BOOLEAN, owner : BookmarkIds \cup {None}]]
          /\ DOMAIN svcs \subseteq ServiceIds
        BY <1>3, <1>5, <1>9, <1>11 DEF BookmarkRows
    <2>3. \A b \in DOMAIN rows : rows[b].service \in DOMAIN svcs \cup {None}
        BY <1>1, <1>3, <1>8, <1>9, <1>10 DEF BookmarkRows
    <2> QED
        BY <2>1, <2>2, <2>3 DEF BookmarkRows
<1>13. OneEach(rows)
    BY <1>3, <1>6, <1>8, <1>10 DEF OneEach
<1>14. UsedTags(rows) \subseteq tags \cup input.tags
    BY <1>8, <1>10 DEF UsedTags, LinksInv, TagsAreUsed
<1>15. ASSUME NEW x \in DOMAIN svcs \ (users \cup {gone}) PROVE Owned(rows, svcs, x)
    <2>1. CASE owned /\ x = s
        <3>1. svcs[x].owner = id /\ id \in DOMAIN rows /\ rows[id].service = x
            BY <1>7, <1>8, <1>9, <1>10, <1>11, <2>1
        <3> QED
            BY <3>1 DEF Owned
    <2>2. CASE ~(owned /\ x = s)
        <3>1. x \in DOMAIN services \ userServices /\ svcs[x] = services[x] /\ x # None
            BY <1>9, <1>15, <2>2, <1>3, NullAssumption DEF BookmarkRows
        <3> SUFFICES ASSUME services[x].hidden PROVE services[x].owner \in DOMAIN rows /\ rows[services[x].owner].service = x
            BY <3>1 DEF Owned
        <3> DEFINE o == services[x].owner
        <3>2. o \in DOMAIN bookmarks /\ bookmarks[o].service = x
            BY <3>1 DEF LinksInv, Owned
        <3>3. CASE o # id
            BY <1>8, <3>2, <3>3
        <3>4. CASE o = id /\ s = x
            BY <1>8, <1>10, <3>4
        <3>5. CASE o = id /\ s # x
            <4>1. id = input.id
                BY <1>6, <3>2, <3>5
            <4>2. before = x
                BY <3>2, <3>5, <4>1 DEF before, ServiceIdOf
            <4>3. GoesWith(svcs, before, id)
                BY <3>1, <3>5, <4>2, <1>15 DEF GoesWith
            <4> QED
                BY <4>2, <4>3, <3>1, <3>5, <1>15
        <3> QED
            BY <3>3, <3>4, <3>5
    <2> QED
        BY <2>1, <2>2
<1> HIDE DEF gone, users
<1> QED
    BY <1>1, <1>12, <1>13, <1>14, <1>15, Storing

LEMMA BookmarksStep == LinksInv /\ [BookmarksNext]_bookmarkVars => LinksInv'
<1> SUFFICES ASSUME LinksInv, [BookmarksNext]_bookmarkVars PROVE LinksInv'
    OBVIOUS
<1>1. ASSUME NEW b \in DOMAIN bookmarks, DeleteBookmark(b) PROVE LinksInv'
    <2> DEFINE s == bookmarks[b].service
               gone == IF s # None /\ GoesWith(services, s, b) THEN s ELSE None
               rows == Without(bookmarks, b)
    <2>1. Store(rows, services, gone, tags) /\ userServices' = userServices \ {gone}
        BY <1>1 DEF DeleteBookmark
    <2>2. /\ DOMAIN rows = DOMAIN bookmarks \ {b}
          /\ \A c \in DOMAIN rows : rows[c] = bookmarks[c]
          /\ rows = [c \in DOMAIN rows |-> rows[c]]
        BY DEF Without
    <2> HIDE DEF rows
    <2>3. BookmarkRows(rows, services) /\ OneEach(rows)
        BY <2>2 DEF LinksInv, BookmarkRows, OneEach
    <2>4. UsedTags(rows) \subseteq tags
        BY <2>2 DEF LinksInv, TagsAreUsed, UsedTags
    <2>5. ASSUME NEW x \in DOMAIN services \ (userServices \cup {gone}) PROVE Owned(rows, services, x)
        <3> SUFFICES ASSUME services[x].hidden PROVE services[x].owner \in DOMAIN rows /\ rows[services[x].owner].service = x
            BY DEF Owned
        <3>1. services[x].owner \in DOMAIN bookmarks /\ bookmarks[services[x].owner].service = x
            BY DEF LinksInv, Owned
        <3>2. x # None
            BY NullAssumption DEF LinksInv, BookmarkRows
        <3>3. services[x].owner # b
            BY <3>1, <3>2, <2>5 DEF GoesWith
        <3> QED
            BY <3>1, <3>3, <2>2
    <2> HIDE DEF gone
    <2> QED
        BY <2>1, <2>3, <2>4, <2>5, Storing
<1>2. ASSUME NEW s \in ServiceIds, NEW hidden \in BOOLEAN, SaveManualService(s, hidden) PROVE LinksInv'
    <2>1. PICK owner \in {None} \cup {services[x].owner : x \in {s} \cap DOMAIN services} :
             services' = With(services, s, [hidden |-> hidden, owner |-> owner])
        BY <1>2 DEF SaveManualService
    <2>2. owner \in BookmarkIds \cup {None}
        BY DEF LinksInv, BookmarkRows
    <2>3. /\ DOMAIN services' = DOMAIN services \cup {s}
          /\ \A x \in DOMAIN services \ {s} : services'[x] = services[x]
          /\ services' \in [DOMAIN services' -> [hidden : BOOLEAN, owner : BookmarkIds \cup {None}]]
        BY <2>1, <2>2 DEF With, LinksInv, BookmarkRows
    <2>4. bookmarks' = bookmarks /\ tags' = tags /\ userServices' = userServices \cup {s}
        BY <1>2 DEF SaveManualService
    <2> QED
        BY <2>3, <2>4 DEF LinksInv, BookmarkRows, OneEach, Owned, TagsAreUsed, UsedTags
<1>3. ASSUME NEW s \in ServiceIds, DeleteService(s) PROVE LinksInv'
    <2>1. Store(bookmarks, services, s, tags)
        BY <1>3 DEF DeleteService, Store, SyncedTags, LinksInv, TagsAreUsed
    <2> QED
        BY <2>1, <1>3, Storing DEF DeleteService, LinksInv, TagsAreUsed
<1>4. CASE UNCHANGED bookmarkVars
    BY <1>4 DEF bookmarkVars, LinksInv, BookmarkRows, OneEach, Owned, TagsAreUsed, UsedTags
<1> QED
    BY <1>1, <1>2, <1>3, <1>4, SavingKeepsLinks DEF BookmarksNext

(* A service has one bookmark, tags are those in use, and a hidden service is   *)
(* that of its bookmark, for any number of each (SaveBookmark and               *)
(* DeleteBookmark of bookmarks.go with their helpers).                          *)
THEOREM BookmarkLinksAreSound == BookmarksSpec => []BookmarkLinksHold
<1>1. BookmarksInit => LinksInv
    BY DEF BookmarksInit, LinksInv, BookmarkRows, OneEach, Owned, TagsAreUsed, UsedTags
<1>2. LinksInv => BookmarkLinksHold
    BY DEF LinksInv, BookmarkLinksHold, OneBookmarkPerService, OneEach, NoOrphanService, Owned
<1> QED
    BY <1>1, <1>2, BookmarksStep, PTL DEF BookmarksSpec

-----------------------------------------------------------------------------
(* Status pages.  Both roll-ups depend only on which statuses occur.            *)
PagesInv ==
    /\ status \in [DOMAIN status -> Statuses] /\ DOMAIN status \subseteq PageServices
    /\ pages \in [DOMAIN pages -> [enabled : BOOLEAN, services : SUBSET DOMAIN status]]
    /\ notices \in [DOMAIN notices -> [page : Pages, starts : Times \cup {Always}, ends : Times \cup {Always}]]
    /\ DOMAIN notices \subseteq Notices

LEMMA PagesStep == PagesInv /\ [PagesNext]_pageVars => PagesInv'
<1> SUFFICES ASSUME PagesInv, [PagesNext]_pageVars PROVE PagesInv'
    OBVIOUS
<1> USE DEF PagesInv
<1>1. ASSUME NEW p \in Pages, NEW enabled \in BOOLEAN, SaveStatusPage(p, enabled) PROVE PagesInv'
    BY <1>1 DEF SaveStatusPage, Bind
<1>2. ASSUME NEW p \in Pages, DeleteStatusPage(p) PROVE PagesInv'
    BY <1>2 DEF DeleteStatusPage, Drop
<1>3. ASSUME NEW p \in Pages, NEW chosen \in SUBSET DOMAIN status, ReplaceStatusPageServices(p, chosen) PROVE PagesInv'
    BY <1>3 DEF ReplaceStatusPageServices
<1>4. ASSUME NEW n \in Notices, NEW p \in Pages, NEW starts \in Times \cup {Always}, NEW ends \in Times \cup {Always},
             CreateStatusPageAnnouncement(n, p, starts, ends)
      PROVE  PagesInv'
    BY <1>4 DEF CreateStatusPageAnnouncement, Bind
<1>5. ASSUME NEW n \in Notices, NEW starts \in Times \cup {Always}, NEW ends \in Times \cup {Always},
             UpdateStatusPageAnnouncement(n, starts, ends)
      PROVE  PagesInv'
    BY <1>5 DEF UpdateStatusPageAnnouncement
<1>6. ASSUME NEW n \in Notices, DeleteStatusPageAnnouncement(n) PROVE PagesInv'
    BY <1>6 DEF DeleteStatusPageAnnouncement, Drop
<1>7. ASSUME NEW s \in PageServices, NEW new \in Statuses, NEW tied \in BOOLEAN, ServiceChecked(s, new, tied)
      PROVE  PagesInv'
    <2>1. /\ status' \in [DOMAIN status' -> Statuses] /\ DOMAIN status' = DOMAIN status \cup {s}
          /\ UNCHANGED <<pages, notices>>
        BY <1>7 DEF ServiceChecked, Bind
    <2> QED
        BY <2>1
<1>8. ASSUME NEW s \in PageServices, ServiceDeleted(s) PROVE PagesInv'
    <2>1. /\ status' \in [DOMAIN status' -> Statuses] /\ DOMAIN status' = DOMAIN status \ {s}
          /\ UNCHANGED notices
        BY <1>8 DEF ServiceDeleted, Drop
    <2>2. pages' = [p \in DOMAIN pages |-> [pages[p] EXCEPT !.services = @ \ {s}]]
        BY <1>8 DEF ServiceDeleted
    <2>3. pages' \in [DOMAIN pages' -> [enabled : BOOLEAN, services : SUBSET DOMAIN status']]
        BY <2>1, <2>2
    <2> QED
        BY <2>1, <2>3
<1>9. CASE UNCHANGED pageVars
    BY <1>9 DEF pageVars
<1> HIDE DEF PagesInv
<1> QED
    BY <1>1, <1>2, <1>3, <1>4, <1>5, <1>6, <1>7, <1>8, <1>9 DEF PagesNext

RollUpOfOccurring(f) ==
    IF \A st \in Statuses : f[st] = 0 THEN "unknown"
    ELSE IF f["degraded"] # 0 \/ f["unknown"] # 0 THEN "degraded"
    ELSE IF f["unhealthy"] = 0 THEN "healthy"
    ELSE IF f["healthy"] = 0 THEN "unhealthy" ELSE "degraded"

LEMMA RollUpByOccurrence ==
    ASSUME NEW f \in [Statuses -> Nat]
    PROVE  RollUp(f, Total(f)) = RollUpOfOccurring(f)
<1> DEFINE h == f["healthy"]
           u == f["unhealthy"]
           d == f["degraded"]
           k == f["unknown"]
<1>1. h \in Nat /\ u \in Nat /\ d \in Nat /\ k \in Nat
    BY DEF Statuses
<1>2. RollUp(f, Total(f)) =
          IF h + u + d + k = 0 THEN "unknown"
          ELSE IF d + k > 0 THEN "degraded"
          ELSE IF h = h + u + d + k THEN "healthy"
          ELSE IF u = h + u + d + k THEN "unhealthy" ELSE "degraded"
    BY DEF RollUp, Total
<1>3. RollUpOfOccurring(f) =
          IF h = 0 /\ u = 0 /\ d = 0 /\ k = 0 THEN "unknown"
          ELSE IF d # 0 \/ k # 0 THEN "degraded"
          ELSE IF u = 0 THEN "healthy" ELSE IF h = 0 THEN "unhealthy" ELSE "degraded"
    BY DEF RollUpOfOccurring, Statuses
<1> HIDE DEF h, u, d, k
<1>4. /\ h + u + d + k = 0 <=> h = 0 /\ u = 0 /\ d = 0 /\ k = 0
      /\ d + k > 0 <=> d # 0 \/ k # 0
      /\ h = h + u + d + k <=> u = 0 /\ d = 0 /\ k = 0
      /\ u = h + u + d + k <=> h = 0 /\ d = 0 /\ k = 0
    BY <1>1
<1> QED
    BY <1>2, <1>3, <1>4

LEMMA RollUpOfWhatOccurs ==
    ASSUME NEW f \in [Statuses -> Nat], NEW g \in [Statuses -> Nat],
           \A st \in Statuses : f[st] = 0 <=> g[st] = 0
    PROVE  RollUp(f, Total(f)) = RollUp(g, Total(g))
<1>1. RollUpOfOccurring(f) = RollUpOfOccurring(g)
    BY DEF RollUpOfOccurring, Statuses
<1> QED
    BY <1>1, RollUpByOccurrence

LEMMA RowsOfWhatOccurs ==
    ASSUME PagesInv, NEW p \in DOMAIN pages
    PROVE  /\ JoinRows(p) \in [Statuses -> Nat] /\ ShownRows(p) \in [Statuses -> Nat]
           /\ \A st \in Statuses : JoinRows(p)[st] = 0 <=> ShownRows(p)[st] = 0
<1>1. pages[p].services \subseteq PageServices
    BY DEF PagesInv
<1>2. ASSUME NEW st \in Statuses
      PROVE  /\ IsFiniteSet(WithStatus(p, st)) /\ IsFiniteSet(WithStatus(p, st) \cap ties)
             /\ Cardinality(WithStatus(p, st)) \in Nat /\ Cardinality(WithStatus(p, st) \cap ties) \in Nat
             /\ Cardinality(WithStatus(p, st)) = 0 => Cardinality(WithStatus(p, st) \cap ties) = 0
    <2>1. WithStatus(p, st) \subseteq PageServices
        BY <1>1 DEF WithStatus
    <2>2. IsFiniteSet(WithStatus(p, st)) /\ IsFiniteSet(WithStatus(p, st) \cap ties)
        BY <2>1, RowsAssumption, FS_Subset
    <2> QED
        BY <2>2, FS_CardinalityType, FS_EmptySet
<1>3. IsFiniteSet(NoticesOf(p))
    <2>1. NoticesOf(p) \subseteq Notices
        BY DEF NoticesOf, PagesInv
    <2> QED
        BY <2>1, RowsAssumption, FS_Subset
<1> DEFINE times == IF NoticesOf(p) = {} THEN 1 ELSE Cardinality(NoticesOf(p))
<1>4. times \in Nat /\ times # 0
    BY <1>3, FS_CardinalityType, FS_EmptySet
<1>5. /\ JoinRows(p) = [st \in Statuses |-> times * Cardinality(WithStatus(p, st))]
      /\ ShownRows(p) = [st \in Statuses |-> Cardinality(WithStatus(p, st)) + Cardinality(WithStatus(p, st) \cap ties)]
    BY DEF JoinRows, ShownRows
<1> HIDE DEF times
<1>6. ASSUME NEW st \in Statuses
      PROVE  /\ JoinRows(p)[st] \in Nat /\ ShownRows(p)[st] \in Nat
             /\ JoinRows(p)[st] = 0 <=> ShownRows(p)[st] = 0
    <2> DEFINE c == Cardinality(WithStatus(p, st))
               d == Cardinality(WithStatus(p, st) \cap ties)
    <2>1. c \in Nat /\ d \in Nat /\ (c = 0 => d = 0)
        BY <1>2
    <2>2. JoinRows(p)[st] = times * c /\ ShownRows(p)[st] = c + d
        BY <1>5
    <2> HIDE DEF c, d
    <2>3. times * c \in Nat /\ (times * c = 0 <=> c = 0)
        BY <1>4, <2>1
    <2> QED
        BY <2>1, <2>2, <2>3
<1> QED
    BY <1>5, <1>6

(* The comparison of times as text is off by less than a second.                *)
LEMMA TextOfTimes ==
    ASSUME NEW a \in Nat, NEW b \in Nat
    PROVE  /\ a + 2 <= b => Text(a) <= Text(b)
           /\ Text(a) <= Text(b) => a - 1 <= b
BY DEF Text

(* Both pages of a status page show one overall status, and announcements in    *)
(* their window, for any number of services, announcements and tied results     *)
(* (ListStatusPages and GetPublicStatusPage of status_pages.go).                *)
THEOREM PagesDoAgree == PagesSpec => []PagesAgree
<1>1. PagesInit => PagesInv
    BY DEF PagesInit, PagesInv
<1>2. ASSUME PagesInv PROVE PagesAgree
    <2> SUFFICES ASSUME NEW p \in DOMAIN pages
                 PROVE  /\ ListedStatus(p) = ShownStatus(p)
                        /\ pages[p].services \subseteq DOMAIN status
                        /\ \A n \in NoticesOf(p), now \in Times :
                              LET within(second) ==
                                      /\ notices[n].starts = Always \/ notices[n].starts + second <= now
                                      /\ notices[n].ends = Always \/ now + second <= notices[n].ends
                              IN  /\ within(2) => n \in ShownNotices(p, now)
                                  /\ n \in ShownNotices(p, now) => within(-1)
        BY DEF PagesAgree
    <2>1. ListedStatus(p) = ShownStatus(p)
        BY <1>2, RowsOfWhatOccurs, RollUpOfWhatOccurs DEF ListedStatus, ShownStatus
    <2>2. pages[p].services \subseteq DOMAIN status
        BY <1>2 DEF PagesInv
    <2>3. ASSUME NEW n \in NoticesOf(p), NEW now \in Times
          PROVE  LET within(second) ==
                          /\ notices[n].starts = Always \/ notices[n].starts + second <= now
                          /\ notices[n].ends = Always \/ now + second <= notices[n].ends
                 IN  /\ within(2) => n \in ShownNotices(p, now)
                     /\ n \in ShownNotices(p, now) => within(-1)
        <3>1. n \in DOMAIN notices /\ now \in Nat
            BY TimesAssumption DEF NoticesOf
        <3>2. /\ notices[n].starts = Always \/ notices[n].starts \in Nat
              /\ notices[n].ends = Always \/ notices[n].ends \in Nat
            BY <1>2, <3>1, TimesAssumption DEF PagesInv
        <3>3. notices[n].starts # Always =>
                  /\ notices[n].starts + 2 <= now => Text(notices[n].starts) <= Text(now)
                  /\ Text(notices[n].starts) <= Text(now) => notices[n].starts + -1 <= now
            BY <3>1, <3>2, TextOfTimes
        <3>4. notices[n].ends # Always =>
                  /\ now + 2 <= notices[n].ends => Text(now) <= Text(notices[n].ends)
                  /\ Text(now) <= Text(notices[n].ends) => now + -1 <= notices[n].ends
            BY <3>1, <3>2, TextOfTimes
        <3> QED
            BY <3>3, <3>4 DEF ShownNotices
    <2> QED
        BY <2>1, <2>2, <2>3
<1> QED
    BY <1>1, <1>2, PagesStep, PTL DEF PagesSpec
-----------------------------------------------------------------------------
(* The checks that service definitions manage. *)
(* What the checks of a subject are judged by. *)
Busy(x) == \E a \in Appliers : HalfDone(a, x)
Awaited(x) == \E a \in Appliers : ToDo(a, x)
Followed(x) ==
    labels[x].mode = "auto" =>
        /\ x \in cutShort \/ Busy(x) \/ Agrees(x)
        /\ x \in outdated \/ Awaited(x) \/ UpToDate(managed[x])

(* An applier that holds a subject holds one there is, and goes on without one; *)
(* and it has a list only in a loop.                                            *)
ApplierHolds(w) ==
    /\ DOMAIN w = {"at", "list", "known", "subject", "plan", "next"}
    /\ w.list \subseteq Subjects
    /\ w.at \in {"reading back", "applying", "matched", "written", "read", "replacing"} => w.subject \in Subjects
    /\ w.next \in {"resting", "services", "found"}
    /\ w.at \in {"resting", "listing", "services", "found"} => w.subject = Nothing
    /\ w.at \in {"resting", "listing", "services", "found", "reading back", "applying"} => w.next = "resting"
    /\ w.next = "resting" /\ w.at \notin {"services", "found"} => w.list = {}

DefinitionsInv ==
    /\ DOMAIN labels \subseteq Subjects /\ Found \subseteq DOMAIN labels
    /\ \A x \in DOMAIN labels : DOMAIN labels[x] = {"mode", "definition"}
    /\ \A x \in Found : labels[x].mode = "auto"
    /\ DOMAIN managed = Subjects
    /\ DOMAIN appliers = Appliers
    /\ \A a \in Appliers : ApplierHolds(appliers[a])
    /\ cutShort \subseteq Subjects
    /\ \A x \in DOMAIN labels : Followed(x)

(* Half done, and to do, are matters of one applier, and others do not end them. *)
HalfDoneIn(w, x) ==
    /\ w.subject = x
    /\ \/ w.at \in {"reading back", "applying", "written", "read", "replacing"}
       \/ w.at = "matched" /\ w.next = "resting"

ToDoIn(w, x) ==
    \/ w.at = "listing" \/ x \in w.list \/ x = w.subject
    \/ x \in Found /\ "services" \in {w.at, w.next}

LEMMA BusyStays ==
    ASSUME DefinitionsInv, NEW a \in Appliers, NEW w, appliers' = [appliers EXCEPT ![a] = w], NEW x,
           HalfDoneIn(appliers[a], x) => HalfDoneIn(w, x)
    PROVE  Busy(x) => Busy(x)'
<1>1. SUFFICES ASSUME NEW b \in Appliers, HalfDone(b, x) PROVE HalfDone(b, x)'
    BY DEF Busy
<1>2. appliers'[a] = w /\ (b # a => appliers'[b] = appliers[b])
    BY DEF DefinitionsInv
<1> QED
    BY <1>1, <1>2 DEF HalfDone, HalfDoneIn

LEMMA BusyAfter ==
    ASSUME DefinitionsInv, NEW a \in Appliers, NEW w, appliers' = [appliers EXCEPT ![a] = w], NEW x,
           HalfDoneIn(w, x)
    PROVE  Busy(x)'
<1>1. appliers'[a] = w
    BY DEF DefinitionsInv
<1> QED
    BY <1>1 DEF Busy, HalfDone, HalfDoneIn

LEMMA AwaitedStays ==
    ASSUME DefinitionsInv, NEW a \in Appliers, NEW w, appliers' = [appliers EXCEPT ![a] = w], NEW x,
           ToDoIn(appliers[a], x) => ToDoIn(w, x)
    PROVE  Awaited(x) => Awaited(x)'
<1>1. SUFFICES ASSUME NEW b \in Appliers, ToDo(b, x) PROVE ToDo(b, x)'
    BY DEF Awaited
<1>2. appliers'[a] = w /\ (b # a => appliers'[b] = appliers[b])
    BY DEF DefinitionsInv
<1> QED
    BY <1>1, <1>2 DEF ToDo, ToDoIn

LEMMA AwaitedAfter ==
    ASSUME DefinitionsInv, NEW a \in Appliers, NEW w, appliers' = [appliers EXCEPT ![a] = w], NEW x,
           ToDoIn(w, x)
    PROVE  Awaited(x)'
<1>1. appliers'[a] = w
    BY DEF DefinitionsInv
<1> QED
    BY <1>1 DEF Awaited, ToDo, ToDoIn

LEMMA UpToDateStays ==
    ASSUME edition' = edition, NEW x, managed'[x] = managed[x], UpToDate(managed[x])
    PROVE  UpToDate(managed[x])'
BY DEF UpToDate, ChecksOf

(* What no step touches stays followed. *)
LEMMA StaysFollowed ==
    ASSUME NEW x, Followed(x), labels'[x] = labels[x], managed'[x] = managed[x], edition' = edition,
           x \in cutShort => x \in cutShort', Busy(x) => Busy(x)',
           x \in outdated \/ Awaited(x) => x \in outdated' \/ Awaited(x)' \/ UpToDate(managed[x])
    PROVE  Followed(x)'
<1>1. UpToDate(managed[x]) => UpToDate(managed[x])'
    BY UpToDateStays
<1>2. Agrees(x) => Agrees(x)'
    BY DEF Agrees
<1> QED
    BY <1>1, <1>2 DEF Followed

LEMMA HoldersKept ==
    ASSUME DefinitionsInv, NEW a \in Appliers, NEW w, appliers' = [appliers EXCEPT ![a] = w], ApplierHolds(w)
    PROVE  DOMAIN appliers' = Appliers /\ \A b \in Appliers : ApplierHolds(appliers'[b])
BY DEF DefinitionsInv

LEMMA RestingHolds ==
    /\ ApplierHolds(Resting)
    /\ \A x : ~HalfDoneIn(Resting, x)
    /\ \A w : (ApplierHolds(w) /\ w.at = "resting") => (\A x \in Subjects : ~ToDoIn(w, x))
<1>1. Nothing \notin Subjects
    BY DefinitionsAssumption DEF Subjects
<1>2. ASSUME NEW w, ApplierHolds(w), w.at = "resting", NEW x \in Subjects PROVE ~ToDoIn(w, x)
    BY <1>1, <1>2 DEF ApplierHolds, ToDoIn
<1>3. ApplierHolds(Resting) /\ \A x : ~HalfDoneIn(Resting, x)
    BY DEF ApplierHolds, HalfDoneIn, Resting
<1> QED
    BY <1>2, <1>3

(* A step in which one applier moves on and no table changes: it keeps what it  *)
(* had half done, or that subject is custom; and what it had to do, unless that *)
(* needs no doing.                                                              *)
LEMMA MovingOn ==
    ASSUME DefinitionsInv, NEW a \in Appliers, NEW w, appliers' = [appliers EXCEPT ![a] = w],
           ApplierHolds(w), UNCHANGED <<labels, managed, edition, cutShort>>, outdated \subseteq outdated',
           \A x \in DOMAIN labels :
               HalfDoneIn(appliers[a], x) => HalfDoneIn(w, x) \/ labels[x].mode = "custom",
           \A x \in DOMAIN labels :
               ToDoIn(appliers[a], x) =>
                   \/ ToDoIn(w, x) \/ labels[x].mode # "auto"
                   \/ x \in outdated' \/ UpToDate(managed[x])
    PROVE  DefinitionsInv'
<1>1. DOMAIN appliers' = Appliers /\ \A b \in Appliers : ApplierHolds(appliers'[b])
    BY HoldersKept
<1>2. ASSUME NEW x \in DOMAIN labels PROVE Followed(x)'
    <2>1. CASE labels[x].mode # "auto"
        BY <2>1 DEF Followed
    <2>2. CASE labels[x].mode = "auto"
        <3>1. Busy(x) => Busy(x)'
            BY <2>2, BusyStays
        <3>2. Awaited(x) => x \in outdated' \/ Awaited(x)' \/ UpToDate(managed[x])
            BY <2>2, AwaitedStays
        <3>3. Followed(x)
            BY DEF DefinitionsInv
        <3> QED
            BY <3>1, <3>2, <3>3, StaysFollowed
    <2> QED
        BY <2>1, <2>2
<1> QED
    BY <1>1, <1>2 DEF DefinitionsInv

(* Whoever edits a definition has every subject to do. *)
LEMMA ListingKeeps ==
    ASSUME DefinitionsInv, NEW a \in Appliers, appliers[a].at = "resting",
           appliers' = [appliers EXCEPT ![a] = [Resting EXCEPT !.at = "listing"]],
           UNCHANGED <<labels, managed, cutShort>>
    PROVE  DefinitionsInv'
<1> DEFINE w == [Resting EXCEPT !.at = "listing"]
<1>1. ApplierHolds(w) /\ \A x : ToDoIn(w, x)
    BY DEF ApplierHolds, ToDoIn, Resting
<1>2. \A x : ~HalfDoneIn(appliers[a], x)
    BY DEF HalfDoneIn
<1> HIDE DEF w
<1>3. appliers' = [appliers EXCEPT ![a] = w]
    BY DEF w
<1>4. DOMAIN appliers' = Appliers /\ \A b \in Appliers : ApplierHolds(appliers'[b])
    BY <1>1, <1>3, HoldersKept
<1>5. ASSUME NEW x \in DOMAIN labels PROVE Followed(x)'
    <2>1. Awaited(x)'
        BY <1>1, <1>3, AwaitedAfter
    <2>2. Busy(x) => Busy(x)'
        BY <1>2, <1>3, BusyStays
    <2>3. Followed(x) /\ (Agrees(x) => Agrees(x)')
        BY DEF DefinitionsInv, Agrees
    <2> QED
        BY <2>1, <2>2, <2>3 DEF Followed
<1> QED
    BY <1>4, <1>5 DEF DefinitionsInv

LEMMA FingerprintingKeeps ==
    ASSUME DefinitionsInv, NEW a \in Appliers, RunFingerprinting(a)
    PROVE  DefinitionsInv'
<1>1. PICK w : w = [Resting EXCEPT !.at = "services"]
    OBVIOUS
<1>2. ApplierHolds(w)
    BY <1>1 DEF ApplierHolds, Resting
<1>3. /\ appliers[a].at = "resting" /\ appliers' = [appliers EXCEPT ![a] = w]
      /\ UNCHANGED <<labels, managed, edition, cutShort>> /\ outdated' = outdated
    BY <1>1 DEF RunFingerprinting, Turns
<1>4. \A x : ~HalfDoneIn(appliers[a], x)
    BY <1>3 DEF HalfDoneIn
<1>5. ApplierHolds(appliers[a]) /\ DOMAIN labels \subseteq Subjects
    BY DEF DefinitionsInv
<1>6. \A x \in DOMAIN labels : ~ToDoIn(appliers[a], x)
    BY <1>3, <1>5, RestingHolds
<1> QED
    BY <1>2, <1>3, <1>4, <1>6, MovingOn

-----------------------------------------------------------------------------
(* One lemma per kind of step. *)

(* A row is written by an applier that has the rest to do. *)
LEMMA WritingKeeps ==
    ASSUME DefinitionsInv, NEW a \in Appliers, NEW w, appliers' = [appliers EXCEPT ![a] = w], ApplierHolds(w),
           NEW s \in Subjects, HalfDoneIn(w, s), NEW mode, NEW d, s \in Found => mode = "auto",
           labels' = Labelled(labels, s, mode, d), managed' \in {managed, WithDefault(s)},
           UNCHANGED <<cutShort, outdated, edition>>,
           \A x \in DOMAIN labels : HalfDoneIn(appliers[a], x) => x = s,
           \A x \in DOMAIN labels : ToDoIn(appliers[a], x) => ToDoIn(w, x)
    PROVE  DefinitionsInv'
<1>1. DOMAIN appliers' = Appliers /\ \A b \in Appliers : ApplierHolds(appliers'[b])
    BY HoldersKept
<1>2. /\ DOMAIN labels' = DOMAIN labels \cup {s}
      /\ labels'[s] = [mode |-> mode, definition |-> d]
      /\ \A x \in DOMAIN labels \ {s} : labels'[x] = labels[x]
    BY DEF Labelled
<1>3. DOMAIN managed' = Subjects /\ \A x \in Subjects \ {s} : managed'[x] = managed[x]
    BY DEF WithDefault, DefinitionsInv
<1>4. Followed(s)'
    <2>1. ToDoIn(w, s)
        BY DEF HalfDoneIn, ToDoIn
    <2> QED
        BY <2>1, BusyAfter, AwaitedAfter DEF Followed
<1>5. ASSUME NEW x \in DOMAIN labels \ {s} PROVE Followed(x)'
    <2>1. (Busy(x) => Busy(x)') /\ (Awaited(x) => Awaited(x)')
        BY BusyStays, AwaitedStays
    <2>2. Followed(x) /\ x \in Subjects
        BY DEF DefinitionsInv
    <2> QED
        BY <2>1, <2>2, <1>2, <1>3, StaysFollowed
<1> QED
    BY <1>1, <1>2, <1>3, <1>4, <1>5 DEF DefinitionsInv

LEMMA OnwardHolds ==
    ASSUME NEW w, ApplierHolds(w), w.at \in {"written", "replacing"}
    PROVE  /\ ApplierHolds(Onward(w)) /\ \A x : ~HalfDoneIn(Onward(w), x)
           /\ \A x : ToDoIn(w, x) /\ x # w.subject => ToDoIn(Onward(w), x)
<1>1. PICK v : v = Onward(w)
    OBVIOUS
<1>2. /\ v.at = w.next /\ v.list = w.list /\ v.subject = Nothing /\ v.next = "resting"
      /\ DOMAIN v = {"at", "list", "known", "subject", "plan", "next"}
    BY <1>1 DEF Onward, ApplierHolds
<1>3. ApplierHolds(v)
    BY <1>2 DEF ApplierHolds
<1>4. \A x : ~HalfDoneIn(v, x)
    BY <1>2 DEF ApplierHolds, HalfDoneIn
<1>5. \A x : ToDoIn(w, x) /\ x # w.subject => ToDoIn(v, x)
    BY <1>2 DEF ToDoIn
<1> QED
    BY <1>1, <1>3, <1>4, <1>5

LEMMA ReplacingKeeps ==
    ASSUME DefinitionsInv, NEW a \in Appliers, ReplaceManagedChecks(a)
    PROVE  DefinitionsInv'
<1>0. PICK x, checks, w :
          x = appliers[a].subject /\ checks = appliers[a].plan /\ w = Onward(appliers[a])
    OBVIOUS
<1>1. /\ appliers[a].at = "replacing" /\ managed' = [managed EXCEPT ![x] = {checks}]
      /\ labels' = Replaced(x, checks.of) /\ cutShort' = cutShort \ {x} /\ edition' = edition
      /\ outdated' = IF UpToDate({checks}) THEN outdated \ {x} ELSE outdated \cup {x}
      /\ appliers' = [appliers EXCEPT ![a] = w]
    BY <1>0 DEF ReplaceManagedChecks, Turns
<1>2. ApplierHolds(appliers[a]) /\ x \in Subjects
    BY <1>0, <1>1 DEF DefinitionsInv, ApplierHolds
<1>3. ApplierHolds(w)
    BY <1>0, <1>1, <1>2, OnwardHolds
<1>4. DOMAIN appliers' = Appliers /\ \A b \in Appliers : ApplierHolds(appliers'[b])
    BY <1>1, <1>3, HoldersKept
<1>5. /\ DOMAIN labels' = DOMAIN labels
      /\ \A y \in DOMAIN labels \ {x} : labels'[y] = labels[y]
      /\ x \in DOMAIN labels => labels'[x] = [mode |-> "auto", definition |-> checks.of]
    BY <1>1 DEF Replaced, Labelled
<1>6. /\ DOMAIN managed' = Subjects /\ managed'[x] = {checks}
      /\ \A y \in Subjects \ {x} : managed'[y] = managed[y]
    BY <1>1, <1>2 DEF DefinitionsInv
<1>7. ASSUME x \in DOMAIN labels PROVE Followed(x)'
    <2>1. Agrees(x)'
        BY <1>5, <1>6, <1>7 DEF Agrees
    <2>2. UpToDate({checks}) => UpToDate(managed[x])'
        BY <1>1, <1>6 DEF UpToDate, ChecksOf
    <2>3. ~UpToDate({checks}) => x \in outdated'
        BY <1>1
    <2> QED
        BY <2>1, <2>2, <2>3 DEF Followed
<1>8. ASSUME NEW y \in DOMAIN labels \ {x} PROVE Followed(y)'
    <2>0. ToDoIn(appliers[a], y) => ToDoIn(w, y)
        BY <1>0, <1>1, <1>2, OnwardHolds
    <2>1. (Busy(y) => Busy(y)') /\ (Awaited(y) => Awaited(y)')
        BY <1>0, <1>1, <2>0, BusyStays, AwaitedStays DEF HalfDoneIn
    <2>2. Followed(y) /\ y \in Subjects
        BY DEF DefinitionsInv
    <2> QED
        BY <2>1, <2>2, <1>1, <1>5, <1>6, StaysFollowed
<1> QED
    BY <1>1, <1>4, <1>5, <1>6, <1>7, <1>8 DEF DefinitionsInv

LEMMA CuttingKeeps ==
    ASSUME DefinitionsInv, NEW a \in Appliers, CutShort(a)
    PROVE  DefinitionsInv'
<1>1. /\ appliers' = [appliers EXCEPT ![a] = Resting] /\ UNCHANGED <<labels, managed, edition>>
      /\ cutShort' = cutShort \cup {x \in Subjects : HalfDone(a, x)}
      /\ outdated' = outdated \cup {x \in Subjects : ToDo(a, x) /\ ~UpToDate(managed[x])}
    BY DEF CutShort, Turns
<1>2. DOMAIN appliers' = Appliers /\ \A b \in Appliers : ApplierHolds(appliers'[b])
    BY <1>1, HoldersKept, RestingHolds
<1>3. ASSUME NEW x \in DOMAIN labels PROVE Followed(x)'
    <2>1. x \in Subjects /\ Followed(x)
        BY DEF DefinitionsInv
    <2>2. (Agrees(x) => Agrees(x)') /\ (UpToDate(managed[x]) => UpToDate(managed[x])')
        BY <1>1, UpToDateStays DEF Agrees
    <2>4. ~HalfDone(a, x) => (Busy(x) => Busy(x)')
        BY <1>1, BusyStays DEF HalfDone, HalfDoneIn
    <2>5. ~ToDo(a, x) => (Awaited(x) => Awaited(x)')
        BY <1>1, AwaitedStays DEF ToDo, ToDoIn
    <2>6. x \in cutShort' \/ ~HalfDone(a, x)
        BY <2>1, <1>1
    <2>7. x \in outdated' \/ ~ToDo(a, x) \/ UpToDate(managed[x])
        BY <2>1, <1>1
    <2>8. cutShort \subseteq cutShort' /\ outdated \subseteq outdated' /\ labels' = labels
        BY <1>1
    <2> QED
        BY <2>1, <2>2, <2>4, <2>5, <2>6, <2>7, <2>8 DEF Followed
<1> QED
    BY <1>1, <1>2, <1>3 DEF DefinitionsInv

(* Users make the service custom whose checks they touch. *)
LEMMA TouchingKeeps ==
    ASSUME DefinitionsInv, NEW s \in Registered, labels' = Custom(s), DOMAIN managed' = Subjects,
           \A x \in Subjects \ {s} : managed'[x] = managed[x],
           UNCHANGED <<appliers, cutShort, outdated, edition>>
    PROVE  DefinitionsInv'
<1>1. /\ DOMAIN labels' = DOMAIN labels
      /\ \A x \in DOMAIN labels \ {s} : labels'[x] = labels[x]
      /\ s \in DOMAIN labels => labels'[s] = [labels[s] EXCEPT !.mode = "custom"]
    BY DEF Custom
<1>2. s \in DOMAIN labels => labels'[s].mode = "custom" /\ DOMAIN labels'[s] = {"mode", "definition"}
    BY <1>1 DEF DefinitionsInv
<1>3. \A x : (Busy(x) => Busy(x)') /\ (Awaited(x) => Awaited(x)')
    BY DEF Busy, HalfDone, Awaited, ToDo
<1>4. ASSUME NEW x \in DOMAIN labels \ {s} PROVE Followed(x)'
    <2>1. Followed(x) /\ x \in Subjects
        BY DEF DefinitionsInv
    <2> QED
        BY <2>1, <1>1, <1>3, StaysFollowed
<1>5. s \in DOMAIN labels => Followed(s)'
    BY <1>2 DEF Followed
<1>6. s \notin Found
    BY DefinitionsAssumption
<1> QED
    BY <1>1, <1>2, <1>4, <1>5, <1>6 DEF DefinitionsInv

LEMMA RemovingKeeps ==
    ASSUME DefinitionsInv, NEW s \in Registered, RemoveService(s)
    PROVE  DefinitionsInv'
<1>1. /\ labels' = [y \in DOMAIN labels \ {s} |-> labels[y]]
      /\ UNCHANGED <<managed, appliers, cutShort, outdated, edition>> /\ s \notin Found
    BY DefinitionsAssumption DEF RemoveService
<1>2. ASSUME NEW x \in DOMAIN labels \ {s} PROVE Followed(x)'
    <2>1. Followed(x) /\ labels'[x] = labels[x]
        BY <1>1 DEF DefinitionsInv
    <2>2. (Busy(x) => Busy(x)') /\ (Awaited(x) => Awaited(x)')
        BY <1>1 DEF Busy, HalfDone, Awaited, ToDo
    <2> QED
        BY <2>1, <2>2, <1>1, StaysFollowed
<1> QED
    BY <1>1, <1>2 DEF DefinitionsInv

(* The copy of an agreeing pair agrees; of any other the history tells. *)
LEMMA CopyingKeeps ==
    ASSUME DefinitionsInv, NEW x \in Found, NEW s \in Registered, CopyDiscoveredChecks(x, s)
    PROVE  DefinitionsInv'
<1>1. /\ s \in DOMAIN labels /\ s \notin Found /\ s \in Subjects /\ x \in DOMAIN labels
      /\ managed' = [managed EXCEPT ![s] = managed[x]] /\ labels' = [labels EXCEPT ![s] = labels[x]]
      /\ cutShort' = IF x \in cutShort \/ Busy(x) THEN cutShort \cup {s} ELSE cutShort \ {s}
      /\ outdated' = IF UpToDate(managed[x]) THEN outdated \ {s} ELSE outdated \cup {s}
      /\ UNCHANGED <<appliers, edition>>
    BY DefinitionsAssumption DEF CopyDiscoveredChecks, Busy, Subjects, DefinitionsInv
<1>2. /\ DOMAIN labels' = DOMAIN labels /\ labels'[s] = labels[x]
      /\ \A y \in DOMAIN labels \ {s} : labels'[y] = labels[y]
      /\ DOMAIN managed' = Subjects /\ managed'[s] = managed[x]
      /\ \A y \in Subjects \ {s} : managed'[y] = managed[y]
    BY <1>1 DEF DefinitionsInv
<1>3. \A y : (Busy(y) => Busy(y)') /\ (Awaited(y) => Awaited(y)')
    BY <1>1 DEF Busy, HalfDone, Awaited, ToDo
<1>4. Followed(s)'
    <2>1. x \in cutShort \/ Busy(x) => s \in cutShort'
        BY <1>1
    <2>2. x \notin cutShort /\ ~Busy(x) => Agrees(x)
        BY <1>1 DEF DefinitionsInv, Followed
    <2>3. Agrees(x) => Agrees(s)'
        BY <1>2 DEF Agrees
    <2>4. UpToDate(managed[x]) => UpToDate(managed[s])'
        BY <1>1, <1>2 DEF UpToDate, ChecksOf
    <2>5. ~UpToDate(managed[x]) => s \in outdated'
        BY <1>1
    <2> QED
        BY <2>1, <2>2, <2>3, <2>4, <2>5 DEF Followed
<1>5. ASSUME NEW y \in DOMAIN labels \ {s} PROVE Followed(y)'
    <2>1. Followed(y) /\ y \in Subjects /\ (y \in cutShort => y \in cutShort')
        BY <1>1 DEF DefinitionsInv
    <2>2. (y \in outdated => y \in outdated') /\ edition' = edition
        BY <1>1
    <2> QED
        BY <2>1, <2>2, <1>2, <1>3, StaysFollowed
<1> QED
    BY <1>1, <1>2, <1>4, <1>5 DEF DefinitionsInv

-----------------------------------------------------------------------------
LEMMA DefinitionsStart == DefinitionsInit => DefinitionsInv
<1> SUFFICES ASSUME DefinitionsInit PROVE DefinitionsInv
    OBVIOUS
<1>1. \A x \in Found : Followed(x)
    BY DEF DefinitionsInit, Followed, Agrees, UpToDate, Subjects
<1>2. \A a \in Appliers : ApplierHolds(appliers[a])
    BY RestingHolds DEF DefinitionsInit
<1> QED
    BY <1>1, <1>2 DEF DefinitionsInit, DefinitionsInv, Subjects

(* Requests and the job begin. *)
LEMMA BeginningKeeps ==
    ASSUME DefinitionsInv, NEW a \in Appliers, Begin(a)
    PROVE  DefinitionsInv'
<1>1. ASSUME NEW d, NEW enabled, SaveServiceDefinition(a, d, enabled) PROVE DefinitionsInv'
    BY <1>1, ListingKeeps DEF SaveServiceDefinition, Turns
<1>2. ASSUME NEW d, DeleteServiceDefinition(a, d) PROVE DefinitionsInv'
    BY <1>2, ListingKeeps DEF DeleteServiceDefinition, Turns
<1>3. CASE ReapplyServiceDefinition(a)
    BY <1>3, ListingKeeps DEF ReapplyServiceDefinition, Turns
<1>4. CASE RunFingerprinting(a)
    BY <1>4, FingerprintingKeeps
<1>5. ASSUME NEW s \in Registered, NEW mode, NEW d, SaveService(a, s, mode, d) PROVE DefinitionsInv'
    <2>1. PICK w : w = [Resting EXCEPT !.at = "reading back", !.subject = s]
        OBVIOUS
    <2>2. /\ appliers' = [appliers EXCEPT ![a] = w] /\ labels' = Labelled(labels, s, mode, d)
          /\ managed' = WithDefault(s) /\ UNCHANGED <<cutShort, outdated, edition>> /\ appliers[a].at = "resting"
        BY <1>5, <2>1 DEF SaveService, Turns
    <2>3. ApplierHolds(w) /\ HalfDoneIn(w, s) /\ s \in Subjects
        BY <2>1 DEF ApplierHolds, HalfDoneIn, Resting, Subjects
    <2>4. s \notin Found
        BY DefinitionsAssumption
    <2>5. (\A x : ~HalfDoneIn(appliers[a], x)) /\ ApplierHolds(appliers[a]) /\ DOMAIN labels \subseteq Subjects
        BY <2>2 DEF HalfDoneIn, DefinitionsInv
    <2>6. \A x \in DOMAIN labels : ~ToDoIn(appliers[a], x)
        BY <2>2, <2>5, RestingHolds
    <2> QED
        BY <2>2, <2>3, <2>4, <2>5, <2>6, WritingKeeps
<1> QED
    BY <1>1, <1>2, <1>3, <1>4, <1>5 DEF Begin

(* An applier goes on without writing a row. *)
LEMMA WorkingKeeps ==
    ASSUME DefinitionsInv, NEW a \in Appliers,
           \/ ListServices(a) \/ ReadBack(a) \/ ListFound(a) \/ AllDone(a)
           \/ \E s \in Registered, match \in Targets : MatchService(a, s, match)
           \/ \E x \in Found : Skip(a, x)
           \/ ReadSubject(a) \/ FindDefinition(a)
    PROVE  DefinitionsInv'
<1>0. ApplierHolds(appliers[a]) /\ DOMAIN labels \subseteq Subjects /\ Nothing \notin Subjects
    BY DefinitionsAssumption DEF DefinitionsInv, Subjects
<1>1. CASE ListServices(a)
    <2>1. PICK w : w = [appliers[a] EXCEPT !.at = "services",
                          !.list = {s \in DOMAIN labels \cap Registered : labels[s].mode = "auto"}]
        OBVIOUS
    <2>2. ApplierHolds(w)
        BY <1>0, <1>1, <2>1 DEF ApplierHolds, Subjects, ListServices
    <2>3. appliers' = [appliers EXCEPT ![a] = w] /\ appliers[a].at = "listing" /\ UNCHANGED <<labels, managed, edition, cutShort, outdated>>
        BY <1>1, <2>1 DEF ListServices, Turns
    <2>4. \A x \in DOMAIN labels : ToDoIn(w, x) \/ labels[x].mode # "auto"
        BY <1>0, <2>1 DEF ToDoIn, Subjects
    <2> QED
        BY <2>2, <2>3, <2>4, MovingOn DEF HalfDoneIn
<1>2. CASE ReadBack(a)
    <2>1. PICK w : w = IF labels[appliers[a].subject].mode = "custom" THEN Resting
                       ELSE [appliers[a] EXCEPT !.at = "applying"]
        OBVIOUS
    <2>2. ApplierHolds(w)
        BY <1>0, <1>2, <2>1, RestingHolds DEF ApplierHolds, ReadBack
    <2>3. appliers' = [appliers EXCEPT ![a] = w] /\ UNCHANGED <<labels, managed, edition, cutShort, outdated>>
        BY <1>2, <2>1 DEF ReadBack, Turns
    <2>4. ASSUME NEW x \in DOMAIN labels, HalfDoneIn(appliers[a], x)
          PROVE  HalfDoneIn(w, x) \/ labels[x].mode = "custom"
        BY <1>0, <2>1, <2>4 DEF HalfDoneIn, ApplierHolds
    <2>5. ASSUME NEW x \in DOMAIN labels, ToDoIn(appliers[a], x)
          PROVE  ToDoIn(w, x) \/ labels[x].mode # "auto"
        BY <1>0, <1>2, <2>1, <2>5 DEF ToDoIn, ApplierHolds, ReadBack
    <2> QED
        BY <2>2, <2>3, <2>4, <2>5, MovingOn
<1>3. CASE ListFound(a)
    <2>1. PICK w : w = [Resting EXCEPT !.at = "found", !.list = Found, !.known = Enabled]
        OBVIOUS
    <2>2. ApplierHolds(w)
        BY <2>1 DEF ApplierHolds, Resting, Subjects
    <2>3. appliers' = [appliers EXCEPT ![a] = w] /\ appliers[a].at = "services" /\ UNCHANGED <<labels, managed, edition, cutShort, outdated>>
        BY <1>3, <2>1 DEF ListFound, Turns
    <2>4. \A x \in DOMAIN labels : ToDoIn(appliers[a], x) => ToDoIn(w, x)
        BY <1>0, <1>3, <2>1 DEF ToDoIn, ApplierHolds, ListFound
    <2> QED
        BY <2>2, <2>3, <2>4, MovingOn DEF HalfDoneIn
<1>4. CASE AllDone(a)
    <2>1. appliers' = [appliers EXCEPT ![a] = Resting] /\ appliers[a].at = "found" /\ UNCHANGED <<labels, managed, edition, cutShort, outdated>>
        BY <1>4 DEF AllDone, Turns
    <2>2. \A x : ~HalfDoneIn(appliers[a], x)
        BY <2>1 DEF HalfDoneIn
    <2>3. \A x \in DOMAIN labels : ~ToDoIn(appliers[a], x)
        BY <1>0, <1>4 DEF ToDoIn, ApplierHolds, AllDone
    <2> QED
        BY <2>1, <2>2, <2>3, RestingHolds, MovingOn
<1>5. ASSUME NEW s \in Registered, NEW match, MatchService(a, s, match) PROVE DefinitionsInv'
    <2>1. PICK w : w = [appliers[a] EXCEPT !.at = IF match = Fallback THEN "written" ELSE "matched",
                          !.list = @ \ {s}, !.subject = s, !.plan = match,
                          !.next = IF appliers[a].at = "services" THEN "services" ELSE "resting"]
        OBVIOUS
    <2>3. /\ appliers' = [appliers EXCEPT ![a] = w] /\ UNCHANGED <<labels, managed, edition, cutShort, outdated>>
          /\ appliers[a].at = "services" \/ (appliers[a].at = "applying" /\ s = appliers[a].subject)
        BY <1>5, <2>1 DEF MatchService, Turns
    <2>2. ApplierHolds(w)
        <3>1. CASE appliers[a].at = "services"
            BY <3>1, <1>0, <2>1 DEF ApplierHolds, Subjects
        <3>2. CASE appliers[a].at = "applying"
            BY <3>2, <1>0, <2>1 DEF ApplierHolds, Subjects
        <3> QED
            BY <2>3, <3>1, <3>2
    <2>4. \A x : HalfDoneIn(appliers[a], x) => HalfDoneIn(w, x)
        BY <1>0, <2>1, <2>3 DEF HalfDoneIn, ApplierHolds
    <2>5. \A x \in DOMAIN labels : ToDoIn(appliers[a], x) => ToDoIn(w, x)
        BY <1>0, <2>1, <2>3 DEF ToDoIn, ApplierHolds
    <2> QED
        BY <2>2, <2>3, <2>4, <2>5, MovingOn
<1>6. ASSUME NEW x \in Found, Skip(a, x) PROVE DefinitionsInv'
    <2>1. PICK w : w = [appliers[a] EXCEPT !.list = @ \ {x}]
        OBVIOUS
    <2>2. ApplierHolds(w)
        BY <1>0, <2>1 DEF ApplierHolds
    <2>3. /\ appliers' = [appliers EXCEPT ![a] = w] /\ appliers[a].at = "found"
          /\ UNCHANGED <<labels, managed, edition, cutShort>>
          /\ outdated' = IF UpToDate(managed[x]) THEN outdated ELSE outdated \cup {x}
        BY <1>6, <2>1 DEF Skip, Turns
    <2>4. \A y \in DOMAIN labels : ToDoIn(appliers[a], y) /\ y # x => ToDoIn(w, y)
        BY <1>0, <2>1, <2>3 DEF ToDoIn, ApplierHolds
    <2>5. outdated \subseteq outdated' /\ (UpToDate(managed[x]) \/ x \in outdated')
        BY <2>3
    <2>6. \A y : ~HalfDoneIn(appliers[a], y)
        BY <2>3 DEF HalfDoneIn
    <2> QED
        BY <2>2, <2>3, <2>4, <2>5, <2>6, MovingOn
<1>7. CASE ReadSubject(a)
    <2>1. PICK w : w = IF labels[appliers[a].subject].mode = "custom" THEN Onward(appliers[a])
                       ELSE [appliers[a] EXCEPT !.at = "read", !.plan = labels[appliers[a].subject].definition]
        OBVIOUS
    <2>2. ApplierHolds(w)
        BY <1>0, <1>7, <2>1, OnwardHolds DEF ApplierHolds, ReadSubject
    <2>3. appliers' = [appliers EXCEPT ![a] = w] /\ UNCHANGED <<labels, managed, edition, cutShort, outdated>>
        BY <1>7, <2>1 DEF ReadSubject, Turns
    <2>4. ASSUME NEW x \in DOMAIN labels, HalfDoneIn(appliers[a], x)
          PROVE  HalfDoneIn(w, x) \/ labels[x].mode = "custom"
        BY <1>0, <2>1, <2>4 DEF HalfDoneIn, ApplierHolds
    <2>5. ASSUME NEW x \in DOMAIN labels, ToDoIn(appliers[a], x)
          PROVE  ToDoIn(w, x) \/ labels[x].mode # "auto"
        <3>1. CASE labels[appliers[a].subject].mode = "custom"
            <4>1. w = Onward(appliers[a]) /\ appliers[a].at = "written"
                BY <3>1, <1>7, <2>1 DEF ReadSubject
            <4> QED
                BY <3>1, <4>1, <1>0, <2>5, OnwardHolds
        <3>2. CASE labels[appliers[a].subject].mode # "custom"
            BY <3>2, <1>7, <2>1, <2>5 DEF ToDoIn, ReadSubject
        <3> QED
            BY <3>1, <3>2
    <2> QED
        BY <2>2, <2>3, <2>4, <2>5, MovingOn
<1>8. CASE FindDefinition(a)
    <2>1. PICK w : w = [appliers[a] EXCEPT !.at = "replacing",
                          !.plan = ChecksOf(IF @ \in DOMAIN definitions THEN @ ELSE Fallback)]
        OBVIOUS
    <2>2. ApplierHolds(w)
        BY <1>0, <1>8, <2>1 DEF ApplierHolds, FindDefinition
    <2>3. appliers' = [appliers EXCEPT ![a] = w] /\ UNCHANGED <<labels, managed, edition, cutShort, outdated>>
        BY <1>8, <2>1 DEF FindDefinition, Turns
    <2>4. \A x : HalfDoneIn(appliers[a], x) => HalfDoneIn(w, x)
        BY <1>0, <2>1 DEF HalfDoneIn, ApplierHolds
    <2>5. \A x : ToDoIn(appliers[a], x) => ToDoIn(w, x)
        BY <1>8, <2>1 DEF ToDoIn, FindDefinition
    <2> QED
        BY <2>2, <2>3, <2>4, <2>5, MovingOn
<1> QED
    BY <1>1, <1>2, <1>3, <1>4, <1>5, <1>6, <1>7, <1>8

LEMMA WritingBackKeeps ==
    ASSUME DefinitionsInv, NEW a \in Appliers, WriteBack(a)
    PROVE  DefinitionsInv'
<1>1. PICK s, d, w : /\ s = appliers[a].subject /\ d = appliers[a].plan
                     /\ w = [appliers[a] EXCEPT !.at = "written"]
    OBVIOUS
<1>2. ApplierHolds(appliers[a]) /\ appliers[a].at = "matched"
    BY DEF DefinitionsInv, WriteBack
<1>3. /\ appliers' = [appliers EXCEPT ![a] = w] /\ labels' = Labelled(labels, s, "auto", d)
      /\ managed' = WithDefault(s) /\ UNCHANGED <<cutShort, outdated, edition>>
    BY <1>1 DEF WriteBack, Turns
<1>4. ApplierHolds(w) /\ HalfDoneIn(w, s) /\ s \in Subjects
    BY <1>1, <1>2 DEF ApplierHolds, HalfDoneIn
<1>5. \A x : HalfDoneIn(appliers[a], x) => x = s
    BY <1>1 DEF HalfDoneIn
<1>6. \A x : ToDoIn(appliers[a], x) => ToDoIn(w, x)
    BY <1>1, <1>2 DEF ToDoIn
<1> QED
    BY <1>3, <1>4, <1>5, <1>6, WritingKeeps

LEMMA ApplyingKeeps ==
    ASSUME DefinitionsInv, NEW a \in Appliers, NEW x \in Found, NEW match, ApplyDiscovered(a, x, match)
    PROVE  DefinitionsInv'
<1>1. PICK w : w = [appliers[a] EXCEPT !.at = "written", !.list = @ \ {x}, !.subject = x, !.next = "found"]
    OBVIOUS
<1>2. /\ ApplierHolds(appliers[a]) /\ appliers[a].at = "found" /\ x \in Subjects
      /\ labels[x].mode = "auto" /\ managed' = managed /\ UNCHANGED <<cutShort, outdated, edition>>
      /\ appliers' = [appliers EXCEPT ![a] = w] /\ labels' = Labelled(labels, x, labels[x].mode, match)
    BY <1>1 DEF DefinitionsInv, ApplyDiscovered, Turns, Subjects
<1>3. ApplierHolds(w) /\ HalfDoneIn(w, x)
    BY <1>1, <1>2 DEF ApplierHolds, HalfDoneIn
<1>4. \A y : ~HalfDoneIn(appliers[a], y)
    BY <1>2 DEF HalfDoneIn
<1>5. labels' = Labelled(labels, x, "auto", match)
    BY <1>2
<1>6. \A y \in DOMAIN labels : ToDoIn(appliers[a], y) => ToDoIn(w, y)
    <2>1. DOMAIN labels \subseteq Subjects /\ Nothing \notin Subjects
        BY DefinitionsAssumption DEF DefinitionsInv, Subjects
    <2> QED
        BY <2>1, <1>1, <1>2 DEF ToDoIn, ApplierHolds
<1> QED
    BY <1>2, <1>3, <1>4, <1>5, <1>6, WritingKeeps

LEMMA UsersKeep ==
    ASSUME DefinitionsInv, NEW s \in Registered,
           \/ \E target \in Checkable(s), keep \in BOOLEAN : SaveServiceCheck(s, target, keep)
           \/ \E target \in Checkable(s) : DeleteServiceCheck(s, target)
           \/ RemoveService(s)
           \/ \E x \in Found : CopyDiscoveredChecks(x, s)
    PROVE  DefinitionsInv'
<1>1. ASSUME NEW target, NEW keep, SaveServiceCheck(s, target, keep) PROVE DefinitionsInv'
    <2>1. /\ labels' = Custom(s) /\ UNCHANGED <<appliers, cutShort, outdated, edition>>
          /\ managed' \in {managed, [managed EXCEPT ![s] = @ \ {target}]}
        BY <1>1 DEF SaveServiceCheck
    <2>2. DOMAIN managed' = Subjects /\ \A x \in Subjects \ {s} : managed'[x] = managed[x]
        BY <2>1 DEF DefinitionsInv
    <2> QED
        BY <2>1, <2>2, TouchingKeeps
<1>2. ASSUME NEW target, DeleteServiceCheck(s, target) PROVE DefinitionsInv'
    <2>1. /\ labels' = Custom(s) /\ UNCHANGED <<appliers, cutShort, outdated, edition>>
          /\ managed' = [managed EXCEPT ![s] = @ \ {target}]
        BY <1>2 DEF DeleteServiceCheck
    <2>2. DOMAIN managed' = Subjects /\ \A x \in Subjects \ {s} : managed'[x] = managed[x]
        BY <2>1 DEF DefinitionsInv
    <2> QED
        BY <2>1, <2>2, TouchingKeeps
<1> QED
    BY <1>1, <1>2, RemovingKeeps, CopyingKeeps

LEMMA DefinitionsSteps == DefinitionsInv /\ [DefinitionsNext]_definitionVars => DefinitionsInv'
<1> SUFFICES ASSUME DefinitionsInv, [DefinitionsNext]_definitionVars PROVE DefinitionsInv'
    OBVIOUS
<1>1. ASSUME NEW a \in Appliers, ApplierStep(a) PROVE DefinitionsInv'
    BY <1>1, WorkingKeeps, WritingBackKeeps, ApplyingKeeps, ReplacingKeeps, CuttingKeeps DEF ApplierStep
<1>2. CASE UserStep
    BY <1>2, UsersKeep DEF UserStep
<1>3. CASE UNCHANGED definitionVars
    <2>1. UNCHANGED <<labels, managed, appliers, cutShort, outdated, edition>>
        BY <1>3 DEF definitionVars
    <2>2. \A x \in DOMAIN labels : Followed(x) => Followed(x)'
        BY <2>1 DEF Followed, Agrees, UpToDate, ChecksOf, Busy, HalfDone, Awaited, ToDo
    <2> QED
        BY <2>1, <2>2 DEF DefinitionsInv
<1> QED
    BY <1>1, <1>2, <1>3, BeginningKeeps DEF DefinitionsNext

(* Whatever is saved, deleted, reapplied and edited at once, a service in       *)
(* automatic mode has the checks of the definition its row names, unless        *)
(* applyBestDefinitionToService or ApplyDiscoveredServiceDefinition is between  *)
(* its two transactions about it, or broke off there; and they are made from    *)
(* its present templates, unless somebody has yet to reach the service, did not *)
(* get there, or wrote what he had read before the edit.                        *)
THEOREM DefinitionsAreFollowed == DefinitionsSpec => []ChecksFollowDefinition
<1>1. DefinitionsInv => ChecksFollowDefinition
    BY DEF DefinitionsInv, Followed, Busy, Awaited, ChecksFollowDefinition
<1> QED
    BY <1>1, DefinitionsStart, DefinitionsSteps, PTL DEF DefinitionsSpec
=============================================================================
