--------------------------- MODULE FrontendProofs ---------------------------
(***************************************************************************)
(* For any versions, profiles and numbers of faults: what is published     *)
(* under the name operation of the shell is one version of it.             *)
(***************************************************************************)
EXTENDS Frontend, TLAPS

Fenced == {"fresh", "stage", "graph", "storage", "document", "binding"}

\* Between acquire and release the name operation is held, so that the row read
\* under it, and then the receipt stored under it, stay those of the selection.
SelectionHolds ==
    /\ pc \in Fenced => lock = TRUE
    /\ pc \in Fenced \ {"fresh"} => sel = row.v
    /\ pc \in Fenced \ {"fresh", "stage"} => receipt = sel

\* The bindings are made one after the other, storage and pool before the
\* document.
BoundInOrder ==
    /\ pc \in {"document", "binding"} => storage = sel /\ pool = sel
    /\ pc = "binding" => active.v = sel /\ active.platform = sel

\* Nothing is published and nobody has an answer before that.
Unpublished ==
    /\ pc \notin {"binding", "register", "serving"} => active = None
    /\ pc # "serving" => reply = NoReply

FrontendInv ==
    /\ SelectionHolds
    /\ BoundInOrder
    /\ Unpublished
    /\ PlatformIsOneVersion

USE DEF FrontendInv, SelectionHolds, BoundInOrder, Unpublished, PlatformIsOneVersion, Fenced,
        None, NoReply

LEMMA FrontendInit == Init => FrontendInv
BY DEF Init

\* A process that ends has published nothing.
LEMMA EndsUnpublished == ASSUME NEW how, Ends(how) PROVE FrontendInv'
BY DEF Ends

\* Up to the selection: rows, link and pool move, nothing is published.
LEMMA FrontendBoot ==
    ASSUME FrontendInv,
           \/ Serve \/ ReconcileInFlightInstalls \/ EnsureBundledShellInstalled
           \/ ExtractTree \/ InstallFails \/ Activate \/ ActivateUnacknowledged
           \/ Rename \/ Commit \/ CommitFails \/ CutoverFails \/ Resolve
    PROVE  FrontendInv'
<1>1. CASE Serve
  BY <1>1 DEF Serve
<1>2. CASE ReconcileInFlightInstalls
  <2>1. CASE Ends("error")
    BY <2>1, EndsUnpublished, Zenon
  <2>2. CASE Goes("firstboot") /\ UNCHANGED <<fence, lock, storage, active, routes, reply>>
    <3>1. pc = "reconcile" /\ pc' = "firstboot"
      BY <1>2, <2>2 DEF ReconcileInFlightInstalls, Goes
    <3>. QED
      BY <2>2, <3>1
  <2>. QED
    BY <1>2, <2>1, <2>2, Zenon DEF ReconcileInFlightInstalls
<1>3. CASE EnsureBundledShellInstalled
  <2>1. CASE Decision \in {"error", "recovery"}
    BY <1>3, <2>1, EndsUnpublished, Zenon DEF EnsureBundledShellInstalled
  <2>2. CASE Decision \notin {"error", "recovery"}
    <3>1. /\ pc = "firstboot" /\ pc' = Decision
          /\ UNCHANGED <<active, reply>>
      BY <1>3, <2>2 DEF EnsureBundledShellInstalled, memory
    <3>2. pc' \in {"extract", "resolve", "rename"}
      BY <2>2, <3>1 DEF Decision
    <3>. QED
      BY <3>1, <3>2
  <2>. QED
    BY <2>1, <2>2, Zenon
<1>4. CASE ExtractTree
  BY <1>4 DEF ExtractTree, Goes, memory
<1>5. CASE InstallFails
  BY <1>5, EndsUnpublished, Zenon DEF InstallFails
<1>6. CASE Activate
  BY <1>6 DEF Activate, Goes
<1>7. CASE ActivateUnacknowledged
  BY <1>7, EndsUnpublished, Zenon DEF ActivateUnacknowledged
<1>8. CASE Rename
  BY <1>8, EndsUnpublished, Zenon DEF Rename, Goes
<1>9. CASE Commit
  BY <1>9 DEF Commit, Goes
<1>10. CASE CommitFails
  BY <1>10, EndsUnpublished, Zenon DEF CommitFails
<1>11. CASE CutoverFails
  BY <1>11, EndsUnpublished, Zenon DEF CutoverFails
<1>12. CASE Resolve
  BY <1>12 DEF Resolve, memory
<1>. QED
  BY <1>1, <1>2, <1>3, <1>4, <1>5, <1>6, <1>7, <1>8, <1>9, <1>10, <1>11, <1>12, Zenon

\* From the name operation to its release.
LEMMA FrontendPublish ==
    ASSUME FrontendInv,
           \/ Acquire \/ CheckFresh \/ Interrupted \/ Stage \/ StageUnacknowledged
           \/ PreparePlatform \/ PublishFixedShellStorage
           \/ PublishPlatformFrontend \/ Release
    PROVE  FrontendInv'
<1>1. CASE Acquire
  BY <1>1, EndsUnpublished, Zenon DEF Acquire, Goes
<1>2. CASE CheckFresh
  <2>1. CASE Fresh(sel)
    BY <1>2, <2>1 DEF CheckFresh, Fresh, Goes, memory, durable
  <2>2. CASE ~Fresh(sel)
    BY <1>2, <2>2, EndsUnpublished, Zenon DEF CheckFresh
  <2>. QED
    BY <2>1, <2>2, Zenon
<1>3. CASE Interrupted
  BY <1>3, EndsUnpublished, Zenon DEF Interrupted
<1>4. CASE Stage
  BY <1>4, Zenon DEF Stage, Goes, WithoutPlatform, memory
<1>5. CASE StageUnacknowledged
  BY <1>5, EndsUnpublished, Zenon DEF StageUnacknowledged
<1>6. CASE PreparePlatform
  BY <1>6, Zenon DEF PreparePlatform, Goes, WithoutPlatform, memory, durable
<1>7. CASE PublishFixedShellStorage
  <2>1. CASE PoolIs(sel)
    BY <1>7, <2>1 DEF PublishFixedShellStorage, PoolIs, Goes, durable
  <2>2. CASE ~PoolIs(sel)
    BY <1>7, <2>2, EndsUnpublished, Zenon DEF PublishFixedShellStorage
  <2>. QED
    BY <2>1, <2>2, Zenon
<1>8. CASE PublishPlatformFrontend
  BY <1>8 DEF PublishPlatformFrontend, Goes, durable
<1>9. CASE Release
  <2>1. CASE storage = sel
    BY <1>9, <2>1 DEF Release, Goes, durable
  <2>2. CASE storage # sel
    BY <1>9, <2>2, EndsUnpublished DEF Release
  <2>. QED
    BY <2>1, <2>2, Zenon
<1>. QED
  BY <1>1, <1>2, <1>3, <1>4, <1>5, <1>6, <1>7, <1>8, <1>9, Zenon

\* Serving, the end of the process, the other kernel and the operator.
LEMMA FrontendServe ==
    ASSUME FrontendInv,
           \/ RegisterActiveFrontendRoutes \/ HandleAppRequest \/ HandleRedirect
           \/ Stop \/ Crash \/ OtherUpgrade \/ Repair
    PROVE  FrontendInv'
<1>1. CASE RegisterActiveFrontendRoutes
  BY <1>1 DEF RegisterActiveFrontendRoutes, Goes, durable
<1>2. CASE HandleAppRequest
  BY <1>2 DEF HandleAppRequest, durable, boot
<1>3. CASE HandleRedirect
  BY <1>3 DEF HandleRedirect, durable, boot
<1>4. CASE Stop \/ Crash
  BY <1>4, EndsUnpublished, Zenon DEF Stop, Crash
<1>5. CASE OtherUpgrade
  <2>1. pc \notin Fenced
    BY <1>5 DEF OtherUpgrade
  <2>. QED
    BY <1>5, <2>1 DEF OtherUpgrade, boot, memory
<1>6. CASE Repair
  BY <1>6 DEF Repair, boot, memory
<1>. QED
  BY <1>1, <1>2, <1>3, <1>4, <1>5, <1>6, Zenon

\* For every set of versions and every number of faults: the document at the
\* mount, the storage its scripts write to and the pool behind it are one
\* version of the shell (frontend/platform_startup.cpp), whatever another
\* kernel commits and wherever an earlier boot was cut off.
THEOREM PlatformsAreOneVersion == Spec => []PlatformIsOneVersion
<1>1. FrontendInv /\ [Next]_vars => FrontendInv'
  <2>1. SUFFICES ASSUME FrontendInv, [Next]_vars PROVE FrontendInv'
    BY Zenon
  <2>2. CASE UNCHANGED vars
    BY <2>1, <2>2 DEF vars, durable, boot, memory
  <2>. QED
    BY <2>1, <2>2, FrontendBoot, FrontendPublish, FrontendServe, Zenon DEF Next
<1>2. FrontendInv => PlatformIsOneVersion
  OBVIOUS
<1>. HIDE DEF FrontendInv, PlatformIsOneVersion
<1>. QED
  BY <1>1, <1>2, FrontendInit, PTL DEF Spec

=============================================================================
