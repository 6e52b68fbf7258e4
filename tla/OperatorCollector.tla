----------------------------- MODULE OperatorCollector -----------------------------
(***************************************************************************)
(* pkg/operator/collector.go.  mirrorToDisk: for every catalog, download   *)
(* the catalog image unless its extracted manifests exist, read its index, *)
(* extract it and select the related images; then plan the images.         *)
(* diskToMirror: walk the directories of the catalogs.                     *)
(***************************************************************************)
EXTENDS Workspace

c == Head(todo)
InCatalog(step) == phase = "operator" /\ todo # <<>> /\ at = step

\* The directory looked up is the one of the extracted manifests, not the
\* one of the catalog image.
CatalogStat ==
    /\ InCatalog("stat")
    /\ \/ hold[c] # "absent" /\ at' = "index" /\ UNCHANGED <<phase, exit>>
       \/ hold[c] = "absent" /\ at' = "fetch" /\ UNCHANGED <<phase, exit>>
       \/ hold[c] = "absent" /\ Stop("error") /\ UNCHANGED at
    /\ UNCHANGED <<disk, todo, related, found, work, failed, kept, history>>

\* Mirror.Run of the catalog image: its error is only logged.
CatalogFetch ==
    /\ InCatalog("fetch") /\ at' = "index"
    /\ onDisk' \in {onDisk, onDisk \cup {<<c>>}}
    /\ UNCHANGED <<dirs, hold, phase, todo, related, found, work, failed, exit, kept, history>>

\* Mutant: a catalog without an index is passed over.
CatalogIndex_Unchecked ==
    /\ InCatalog("index") /\ at' = "extract"
    /\ UNCHANGED <<disk, phase, exit, todo, related, found, work, failed, kept, history>>

CatalogIndex ==
    /\ InCatalog("index")
    /\ \/ <<c>> \in onDisk /\ at' = "extract" /\ UNCHANGED <<phase, exit>>
       \/ <<c>> \notin onDisk /\ Stop("error") /\ UNCHANGED at
    /\ UNCHANGED <<disk, todo, related, found, work, failed, kept, history>>

CatalogExtract == phase = "operator" /\ todo # <<>> /\ Extract(c)

\* GetRelatedImagesFromCatalogByFilter (module CatalogFilter; a catalog without
\* packages only fails here): the result replaces that of the catalog before.  After a partial extraction a catalog.json may be missing
\* or cut short: an error, unless the cut falls between two of its objects.
CatalogSelect ==
    /\ InCatalog("schema")
    /\ \/ /\ \E n \in 0 .. Len(RelatedImages[c]) :
                 /\ hold[c] = "complete" => n = Len(RelatedImages[c])
                 /\ related' = <<c, SubSeq(RelatedImages[c], 1, n)>>
          /\ todo' = Tail(todo) /\ at' = "stat"
          /\ UNCHANGED <<phase, exit>>
       \/ hold[c] = "partial" /\ Stop("error") /\ UNCHANGED <<related, todo, at>>
    /\ UNCHANGED <<disk, found, work, failed, kept, history>>

-----------------------------------------------------------------------------
(***************************************************************************)
(* batchWorkerConverter, called once, with the directory of the last       *)
(* catalog: of the images of one bundle and namespace, the first creates   *)
(* the directory and is added to the list, the others find it.  A          *)
(* directory that cannot be created is an error, and so is a name that     *)
(* customImageParser rejects, which may be any: names have no text here.   *)
(***************************************************************************)
Planned(cat, imgs) ==
    {k \in DOMAIN imgs :
        /\ ComponentDir(cat, imgs[k]) \notin dirs
        /\ \A j \in 1 .. k - 1 : Component[imgs[j]] # Component[imgs[k]]}

OperatorsDone ==
    /\ phase = "operator" /\ Mode = "mirrorToDisk" /\ at = "stat" /\ todo = <<>>
    /\ LET cat == related[1]
           imgs == related[2]
           new == Planned(cat, imgs)
       IN \/ /\ dirs' = dirs \cup {ComponentDir(cat, imgs[k]) : k \in new}
             /\ work' = work \cup {[img |-> <<cat, imgs[k]>>,
                                    dest |-> ComponentDir(cat, imgs[k])] : k \in new}
             /\ Leave("additional", config.additionalImages)
             /\ UNCHANGED exit
          \/ \E made \in SUBSET new :
                /\ imgs # <<>>
                /\ dirs' = dirs \cup {ComponentDir(cat, imgs[k]) : k \in made}
                /\ Stop("error") \/ Stop("killed")
                /\ UNCHANGED <<todo, at, found, work>>
    /\ UNCHANGED <<hold, onDisk, related, failed, kept, history>>

\* diskToMirror: the walk looks for index.json under a path that contains the
\* name of a package.  The related images were copied with the dir transport
\* and have none; a catalog image has one in its root, so it is found when
\* its own path happens to contain that name.
OperatorWalk ==
    /\ phase = "operator" /\ Mode = "diskToMirror"
    /\ \E S \in SUBSET {x \in Elements(ConfiguredCatalogs) : <<x>> \in onDisk} :
           work' = work \cup {[img |-> <<x>>, dest |-> RegistryRef(x)] : x \in S}
    /\ Leave("additional", <<>>)
    /\ UNCHANGED <<disk, related, failed, exit, kept, history>>

OperatorImageCollector ==
    \/ OperatorWalk
    \/ CatalogStat \/ CatalogFetch \/ CatalogIndex \/ CatalogExtract
    \/ CatalogSelect \/ OperatorsDone
=============================================================================
