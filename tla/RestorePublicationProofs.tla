---------------------- MODULE RestorePublicationProofs ----------------------
(***************************************************************************)
(* The publication of a restored mission is atomic and durable, whatever   *)
(* the entries are.                                                        *)
(***************************************************************************)
EXTENDS RestorePublication, TLAPS

\* Nothing is in a directory that does not exist.
Located ==
  /\ present \subseteq Reachable(present)
  /\ origin # "none" => "state.json" \in present
  /\ "state.json" \in present => origin # "none"
  /\ ~NewParent => "parent" \in present \ unsynced

\* Who holds the lock has opened the directory, and links under the lock.
Locked ==
  /\ lock # "none" => "directory" \in present
  /\ step # "idle" => "parent" \in present
  /\ step = "reserved" => "directory" \in present
  /\ step \in {"linking", "synced_inner", "ready", "published"} <=> lock = "restore"

\* What has been synced at each step of the procedure.
Progress ==
  /\ step = "synced_inner" => Entries \subseteq present /\ unsynced \cap Inner = {}
  /\ step \in {"ready", "published"} => Entries \subseteq present /\ unsynced \cap Entries = {}
  /\ step = "published" => origin = "restore"

\* The marker is only there when everything else is, and is safe.
Marked == origin = "restore" => Entries \subseteq present /\ unsynced \cap Entries = {}

\* A reported restore has nothing left to lose.
Settled == reported /\ ~NewParent => origin = "restore" /\ unsynced = {} /\ step = "idle"

PublicationInv == PublicationType /\ Located /\ Locked /\ Progress /\ Marked /\ Settled

-----------------------------------------------------------------------------
LEMMA PublicationInitially == PublicationInit => PublicationInv
  BY EntriesAssumption DEF PublicationInit, PublicationInv, PublicationType, Located,
     Progress, Locked, Marked, Settled, Steps, Entries, Marker, Reachable, Above

LEMMA PublicationStep == PublicationInv /\ [PublicationNext]_publication => PublicationInv'
<1> SUFFICES ASSUME PublicationInv, [PublicationNext]_publication
             PROVE  PublicationInv'
  OBVIOUS
<1> USE EntriesAssumption
    DEF PublicationInv, PublicationType, Located, Locked, Progress, Marked, Settled, Steps,
        Entries, Marker, Reachable, Above
<1>1. CASE Stage
  BY <1>1 DEF Stage, Created
<1>2. CASE Reserve
  <2>1. present \subseteq {"parent"} /\ origin = "none" /\ ~(reported /\ ~NewParent)
    BY <1>2 DEF Reserve
  <2>2. /\ step' = "reserved" /\ present' = present \cup {"directory"} /\ "parent" \in present
        /\ unsynced' = unsynced \cup {"directory"}
        /\ origin' = origin /\ lock' = lock /\ reported' = reported
    BY <1>2 DEF Reserve, Created
  <2> QED
    BY <1>2, <2>1, <2>2 DEF Reserve
<1>3. CASE Own
  BY <1>3 DEF Own
<1>4. ASSUME NEW e \in Entries, LinkEntry(e)
      PROVE  PublicationInv'
  BY <1>4 DEF LinkEntry, Created
<1>5. CASE SyncInner
  BY <1>5 DEF SyncInner, Synced
<1>6. CASE SyncTop
  BY <1>6 DEF SyncTop, Synced
<1>7. CASE Publish
  BY <1>7 DEF Publish, Created
<1>8. CASE Report
  BY <1>8 DEF Report, Synced
<1>9. CASE Abort
  BY <1>9 DEF Abort
<1>10. CASE OtherOpens
  BY <1>10 DEF OtherOpens, Created
<1>11. CASE OtherInits
  BY <1>11 DEF OtherInits
<1>12. CASE OtherCloses
  BY <1>12 DEF OtherCloses
<1>13. CASE HostCrash
  <2>1. PICK lost \in SUBSET unsynced : present' = Reachable(present \ lost)
    BY <1>13 DEF HostCrash
  <2>2. /\ origin' = IF "state.json" \in present' THEN origin ELSE "none"
        /\ unsynced' = {} /\ step' = "idle" /\ lock' = "none" /\ reported' = reported
    BY <1>13 DEF HostCrash
  <2> QED
    BY <2>1, <2>2
<1>14. CASE UNCHANGED publication
  BY <1>14 DEF publication
<1> QED
  BY <1>1, <1>2, <1>3, <1>4, <1>5, <1>6, <1>7, <1>8, <1>9, <1>10, <1>11, <1>12, <1>13,
     <1>14 DEF PublicationNext, Restoring

-----------------------------------------------------------------------------
\* The inductive invariant of the publication.
THEOREM PublicationInvariance == PublicationSpec => []PublicationInv
BY PublicationInitially, PublicationStep, PTL DEF PublicationSpec

\* Whoever opens a restored mission finds it complete, whatever fails and whoever else
\* uses the path.
THEOREM PublicationAtomic == PublicationSpec => []LoadableIsComplete
<1>1. PublicationInv => LoadableIsComplete
  BY DEF PublicationInv, Marked, LoadableIsComplete
<1> QED
  BY <1>1, PublicationInvariance, PTL

\* A restore that has reported success stays, whatever crashes, if its parent existed.
THEOREM ReportedRestoreStays ==
  ASSUME ~NewParent
  PROVE  PublicationSpec => []ReportedIsDurable
<1>1. PublicationInv => ReportedIsDurable
  BY DEF PublicationInv, Located, Marked, Settled, ReportedIsDurable, Entries, Marker
<1> QED
  BY <1>1, PublicationInvariance, PTL

\* A mission created on the path by another process is never replaced.
THEOREM NeverReplaced == PublicationSpec => NothingReplaced
<1>1. PublicationInv /\ [PublicationNext]_publication
        => [origin = "init" => origin' # "restore"]_publication
  <2> SUFFICES ASSUME PublicationInv, PublicationNext, origin = "init"
               PROVE  origin' # "restore"
    OBVIOUS
  <2> QED
    BY DEF PublicationInv, Located, PublicationNext, Restoring, Stage, Reserve, Own,
       LinkEntry, SyncInner, SyncTop, Publish, Report, Abort, OtherOpens, OtherInits,
       OtherCloses, HostCrash
<1> QED
  BY <1>1, PublicationInitially, PublicationStep, PTL DEF PublicationSpec, NothingReplaced
=============================================================================
