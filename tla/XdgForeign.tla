----------------------------- MODULE XdgForeign -----------------------------
(***************************************************************************)
(* Surfaces exported by one client and imported by another as parents of   *)
(* its own: server/xdg_foreign_v2.cpp.  Surfaces, exports and imports are  *)
(* destroyed in any order, and a destroyed export is heard of twice if its *)
(* surface goes as well.                                                   *)
(***************************************************************************)
CONSTANTS
  Surface,  \* surfaces that are there from the start
  Exported, \* XdgExportedV2 objects
  Imported, \* XdgImportedV2 objects
  None      \* the null pointer

(* What is assumed of the constants.                                       *)
Assumptions == None \notin Surface \cup Exported

VARIABLES
  surfaces,  \* surfaces that are not destroyed
  exports,   \* XdgExporterV2::Private::exportedSurfaces
  surfaceOf, \* XdgExportedV2::Private::exportedSurface
  imports,   \* imported objects
  export,    \* the export that an import listens to
  surface,   \* the surface that an import listens to
  child,     \* XdgImportedV2::Private::child
  parents,   \* XdgImporterV2::Private::parents
  fault      \* a pointer that is null or freed was followed

vars == <<surfaces, exports, surfaceOf, imports, export, surface, child, parents, fault>>

TypeOK ==
  /\ surfaces \subseteq Surface /\ exports \subseteq Exported /\ imports \subseteq Imported
  /\ surfaceOf \in [Exported -> Surface \cup {None}]
  /\ export \in [Imported -> exports \cup {None}]
  /\ surface \in [Imported -> Surface \cup {None}]
  /\ child \in [Imported -> Surface \cup {None}]
  /\ parents \in [Surface -> Surface \cup {None}]
  /\ fault \in {"none", "null", "freed"}

Init ==
  /\ surfaces = Surface /\ exports = {} /\ imports = {}
  /\ surfaceOf = [e \in Exported |-> None]
  /\ export = [i \in Imported |-> None] /\ surface = [i \in Imported |-> None]
  /\ child = [i \in Imported |-> None]
  /\ parents = [s \in Surface |-> None]
  /\ fault = "none"

-----------------------------------------------------------------------------
(* XdgImportedV2::source: null once the export or its surface is gone.     *)
HasSource(i) == export[i] # None /\ surface[i] # None

(* childChange without a parent, for the children of some imports          *)
ChildrenOf(is) == {child[i] : i \in is}
Without(cs) == [s \in Surface |-> IF s \in cs THEN None ELSE parents[s]]

(* onSourceDestroy sets the child anew, for which there is no parent now.  *)
KeepParents(is) == parents \* mutated form of Orphaned
Orphaned(is) == Without(ChildrenOf(is))

ExportToplevel(e, s) ==
  /\ e \notin exports /\ s \in surfaces
  /\ exports' = exports \cup {e}
  /\ surfaceOf' = [surfaceOf EXCEPT ![e] = s]
  /\ UNCHANGED <<surfaces, imports, export, surface, child, parents, fault>>

DestroyExported(e) ==
  LET listening == {i \in imports : export[i] = e}
  IN  /\ e \in exports
      /\ exports' = exports \ {e}
      /\ surfaceOf' = [surfaceOf EXCEPT ![e] = None]
      /\ export' = [i \in Imported |-> IF i \in listening THEN None ELSE export[i]]
      /\ parents' = Orphaned(listening)
      /\ UNCHANGED <<surfaces, imports, surface, child, fault>>

(* importToplevelCallback connects to the surface of the export, which     *)
(* does not know that it was destroyed.                                    *)
ImportToplevel(i, e) ==
  /\ i \notin imports /\ e \in exports
  /\ IF surfaceOf[e] \notin surfaces
       THEN fault' = "freed" /\ UNCHANGED <<imports, export, surface, child>>
       ELSE /\ imports' = imports \cup {i}
            /\ export' = [export EXCEPT ![i] = e]
            /\ surface' = [surface EXCEPT ![i] = surfaceOf[e]]
            /\ child' = [child EXCEPT ![i] = None]
            /\ UNCHANGED fault
  /\ UNCHANGED <<surfaces, exports, surfaceOf, parents>>

(* setParentOfCallback and setChild; a surface is not made its own parent. *)
ParentsWith(i, c) ==
  [s \in Surface |-> IF s = c /\ HasSource(i) THEN surface[i] ELSE Without({child[i]})[s]]

SetParentOf(i, c) ==
  /\ i \in imports /\ c \in surfaces \ {child[i], surface[i]}
  /\ child' = [child EXCEPT ![i] = c]
  /\ parents' = ParentsWith(i, c)
  /\ UNCHANGED <<surfaces, exports, surfaceOf, imports, export, surface, fault>>

(* ~XdgImportedV2 ends the relation if there is still a source.            *)
DestroyImported(i) ==
  /\ i \in imports
  /\ imports' = imports \ {i}
  /\ export' = [export EXCEPT ![i] = None]
  /\ surface' = [surface EXCEPT ![i] = None]
  /\ child' = [child EXCEPT ![i] = None]
  /\ parents' = IF HasSource(i) THEN Without({child[i]}) ELSE parents
  /\ UNCHANGED <<surfaces, exports, surfaceOf, fault>>

(* Imports with the surface as child ask their source for its surface,     *)
(* even when the source is gone.                                           *)
DestroySurface(s) ==
  LET ofChild == {i \in imports : child[i] = s}
      listening == {i \in imports : surface[i] = s}
  IN  /\ s \in surfaces
      /\ surfaces' = surfaces \ {s}
      /\ IF \A i \in ofChild : HasSource(i)
           THEN /\ surface' = [i \in Imported |-> IF i \in listening THEN None ELSE surface[i]]
                /\ child' = [i \in Imported |-> IF i \in ofChild THEN None ELSE child[i]]
                /\ parents' = [Orphaned(listening) EXCEPT
                                 ![s] = IF ofChild = {} THEN @ ELSE None]
                /\ UNCHANGED fault
           ELSE fault' = "null" /\ UNCHANGED <<surface, child, parents>>
      /\ UNCHANGED <<exports, surfaceOf, imports, export>>

Next ==
  /\ fault = "none"
  /\ \/ \E e \in Exported : DestroyExported(e)
     \/ \E e \in Exported, s \in Surface : ExportToplevel(e, s)
     \/ \E i \in Imported, e \in Exported : ImportToplevel(i, e)
     \/ \E i \in Imported, c \in Surface : SetParentOf(i, c)
     \/ \E i \in Imported : DestroyImported(i)
     \/ \E s \in Surface : DestroySurface(s)

Spec == Init /\ [][Next]_vars

-----------------------------------------------------------------------------
(* A surface has a parent only while both live, and while there is an      *)
(* import of the parent that names the child: whoever goes first ends the  *)
(* relation (xdg_foreign_v2.cpp:162-172, 277-300, 319-335).                *)
RelationAlive ==
  fault = "none" =>
    \A s \in Surface :
      parents[s] # None =>
        /\ {s, parents[s]} \subseteq surfaces
        /\ \E i \in imports : HasSource(i) /\ surface[i] = parents[s] /\ child[i] = s

(* "the setChild function can be reused for setting the same child when    *)
(* the exporting source goes away" (xdg_foreign_v2.cpp:313).               *)
SourceThere == fault # "null"

(* "Surface not exported anymore." (xdg_foreign_v2.cpp:68): nobody imports *)
(* a surface that is gone.                                                 *)
ExportAlive == fault # "freed"

(* A surface has a parent if "the client did import a foreign surface" and *)
(* set it as the parent (xdg_foreign.h:43-45).                             *)
ParentKept ==
  fault = "none" => \A i \in imports : HasSource(i) /\ child[i] # None => parents[child[i]] # None
=============================================================================
