------------------------- MODULE ResumeBundleProofs -------------------------
(***************************************************************************)
(* Proofs that the bundles retention owes the run survive every crash, that *)
(* no manifest outlives a member, and that a resumable stop resumes, for    *)
(* any names, retention count, interval and capacity.                       *)
(***************************************************************************)
EXTENDS ResumeBundle, FiniteSetTheorems, TLAPS

\* The type invariant in two parts: the provers want the Boolean-valued
\* variables apart from the numbers.
Flags == round \in BOOLEAN /\ stop \in BOOLEAN /\ abort \in BOOLEAN

Types ==
    /\ dir \subseteq Files /\ disk \subseteq Files
    /\ stepOf \in [Names -> Nat \cup {Unused}]
    /\ rowsIn \in [Names -> 0 .. Capacity]
    /\ positions \in [Names -> 0 .. Capacity]
    /\ anchorOf \in [Names -> Nat]
    /\ committed \subseteq published /\ published \subseteq Names
    /\ pc \in {"down", "train", "save", "fsync", "ring", "sidecar", "manifest",
               "prune", "unlink", "unlinkring", "unlinkside", "report", "exit"}
    /\ mode \in {"periodic", "stop", "clean"}
    /\ cur \in Names \cup {Unused} /\ wrote \in Kinds
    /\ victims \subseteq Names /\ victim \in Names \cup {Unused}
    /\ step \in Nat /\ size \in 0 .. Capacity
    /\ anchor \in Nat /\ launches \in Nat
    /\ stopped \in Names \cup {Unused}

LEMMA TypesAndFlags == TypeOK <=> Types /\ Flags
  BY DEF TypeOK, Types, Flags

\* Every entry carries a step, and every manifest was published.
Named ==
    /\ \A f \in dir \cup disk : stepOf[f[2]] # Unused
    /\ \A c \in published : stepOf[c] # Unused
    /\ Manifests(dir \cup disk) \subseteq published

\* RetainedSurvives, made inductive: an owed bundle is whole on disk too, or a
\* power loss could bring back an older directory without it.
RetainedDurable == \A c \in committed : Owed(c) => Of(c) \subseteq dir \cap disk

\* The stages of a publish: before a file is written or fsynced, everything
\* written before it is durable.
Writing(place, k) == pc = place \/ (pc = "fsync" /\ wrote = k)
Saving == {"fsync", "ring", "sidecar", "manifest"}
Pruning == {"prune", "unlink", "unlinkring", "unlinkside", "report"}
Stages ==
    /\ pc \in Saving \cup Pruning => cur \in Names
    /\ pc = "fsync" => <<wrote, cur>> \in dir
    /\ Writing("ring", "ring") => <<"ckpt", cur>> \in dir \cap disk
    /\ Writing("sidecar", "side") => {<<"ckpt", cur>>, <<"ring", cur>>} \subseteq dir \cap disk
    /\ Writing("manifest", "bundle") => Members(cur) \subseteq dir \cap disk
    /\ pc \in Saving /\ ~(pc = "fsync" /\ wrote = "bundle") => cur \notin published

\* What a prune still has to remove is not owed.
Victims ==
    /\ pc \in {"unlink", "unlinkring", "unlinkside"} =>
         victims \subseteq published /\ \A v \in victims : ~Owed(v)
    /\ pc \in {"unlinkring", "unlinkside"} => victim \in victims

\* A resumable stop: no round is left to promote after the settle, and from the
\* ring's write on the bundle names the incumbent.
Settled ==
    /\ mode = "stop" /\ ~abort /\ pc \in {"save", "exit"} \cup Saving \cup Pruning =>
         stop /\ ~round
    /\ mode = "stop" /\ (\/ pc \in {"sidecar", "manifest"} \cup Pruning
                         \/ (pc = "fsync" /\ wrote # "ckpt")
                         \/ (pc = "exit" /\ ~abort)) => anchorOf[cur] = anchor
    /\ pc \in Pruning => cur \in committed
    /\ mode = "stop" /\ pc = "exit" /\ ~abort => cur \in committed
    /\ stopped # Unused => pc = "down" /\ anchorOf[stopped] = anchor /\ stopped \in committed

DiskInv == Named /\ ManifestCertifies /\ RetainedDurable

\* The inductive invariant.
BundleInv == Types /\ Flags /\ DiskInv /\ Stages /\ Victims /\ Settled

-----------------------------------------------------------------------------
(* Retention *)

\* What prune_bundles counts as surplus is never a bundle it owes: the newer
\* complete bundles that make it surplus are published ones of later steps.
LEMMA SurplusNotOwed ==
  ASSUME Types, Named, NEW c \in Surplus
  PROVE  c \in published /\ ~Owed(c)
<1> DEFINE newer == {d \in Complete : Newer(d, c)}
           later == {d \in published : stepOf[d] > stepOf[c]}
<1>1. Complete \subseteq published
  BY DEF Complete, Of, Kinds, Named, Manifests
<1>2. c \in published
  BY <1>1 DEF Surplus
<1>3. SUFFICES ASSUME Owed(c) PROVE FALSE
  BY <1>2
<1>4. stepOf \in [Names -> Int] /\ published \subseteq Names /\ c \in Names
  BY <1>2 DEF Types, Unused
<1>5. newer \subseteq later
  <2> SUFFICES ASSUME NEW d \in Complete, Newer(d, c)
               PROVE  d \in published /\ stepOf[d] > stepOf[c]
    OBVIOUS
  <2>1. d \in published /\ d \in Names
    BY <1>1, <1>4
  <2>2. CASE stepOf[d] > stepOf[c]
    BY <2>1, <2>2
  <2>3. CASE stepOf[d] = stepOf[c] /\ d > c
    <3>1. d # c
      BY <2>1, <2>3, <1>4, NamesAssumption
    <3>2. QED
      BY <3>1, <2>1, <2>3, <1>3 DEF Owed
  <2>4. QED
    BY <2>2, <2>3 DEF Newer
<1>6. IsFiniteSet(later)
  <2>1. later \subseteq Names
    BY <1>4
  <2>2. QED
    BY <2>1, NamesAssumption, FS_Subset
<1>7. Cardinality(newer) <= Cardinality(later) /\ IsFiniteSet(newer)
  BY <1>5, <1>6, FS_Subset
<1>8. Cardinality(newer) \in Nat /\ Cardinality(later) \in Nat
  BY <1>6, <1>7, FS_CardinalityType
<1>9. Cardinality(newer) >= Keep
  BY DEF Surplus
<1>10. Cardinality(later) < Keep
  BY <1>3 DEF Owed
<1>11. QED
  BY <1>7, <1>8, <1>9, <1>10, KeepAssumption

\* Publishing more never makes retention owe more.
LEMMA OwedShrinks ==
  ASSUME published' \subseteq Names, published \subseteq published',
         \A d \in published : stepOf'[d] = stepOf[d],
         NEW c \in published, Owed(c)'
  PROVE  Owed(c)
<1> DEFINE was == {d \in published : stepOf[d] > stepOf[c]}
           is == {d \in published' : stepOf'[d] > stepOf'[c]}
<1>1. was \subseteq is
  OBVIOUS
<1>2. IsFiniteSet(is)
  <2>1. is \subseteq Names
    OBVIOUS
  <2>2. QED
    BY <2>1, NamesAssumption, FS_Subset
<1>3. Cardinality(was) <= Cardinality(is) /\ IsFiniteSet(was)
  BY <1>1, <1>2, FS_Subset
<1>4. Cardinality(was) \in Nat /\ Cardinality(is) \in Nat
  BY <1>2, <1>3, FS_CardinalityType
<1>5. Cardinality(is) < Keep
  BY DEF Owed
<1>6. Cardinality(was) < Keep
  BY <1>3, <1>4, <1>5, KeepAssumption
<1>7. \A d \in published \ {c} : stepOf[d] # stepOf[c]
  BY DEF Owed
<1>8. QED
  BY <1>6, <1>7 DEF Owed

\* A step that leaves the files and what they record alone leaves the disk
\* invariant and every debt alone.
LEMMA DiskUntouched ==
  ASSUME DiskInv, UNCHANGED <<diskVars, metaVars>>
  PROVE  DiskInv' /\ \A c \in Names : Owed(c)' <=> Owed(c)
<1> USE DEF diskVars, metaVars
<1>1. \A c \in Names : Owed(c)' <=> Owed(c)
  BY DEF Owed
<1>2. Named'
  BY DEF DiskInv, Named, Manifests
<1>3. ManifestCertifies'
  BY <1>1 DEF DiskInv, ManifestCertifies, Members
<1>4. RetainedDurable'
  BY DEF DiskInv, RetainedDurable, Owed, Of
<1>5. QED
  BY <1>1, <1>2, <1>3, <1>4 DEF DiskInv

-----------------------------------------------------------------------------
(* Types *)

\* Every step keeps the flags Boolean.
LEMMA FlagStep ==
  ASSUME Flags, [Next]_vars
  PROVE  Flags'
<1> USE DEF Flags, diskVars, metaVars, saveVars, liveVars, runVars
<1>1. CASE FreshLaunch
  BY Zenon, <1>1 DEF FreshLaunch, Boot
<1>2. ASSUME NEW c \in Names, Resume(c) PROVE Flags'
  BY Zenon, <1>2 DEF Resume, Boot
<1>3. ASSUME NEW c \in Names, WarmStart(c) PROVE Flags'
  BY Zenon, <1>3 DEF WarmStart, Boot
<1>4. ASSUME NEW c \in Names, SaveCheckpoint(c) PROVE Flags'
  BY Zenon, <1>4 DEF SaveCheckpoint, Rename
<1>5. CASE TrainStep
  BY Zenon, <1>5 DEF TrainStep
<1>6. CASE KickEval
  BY Zenon, <1>6 DEF KickEval
<1>7. CASE PollEval
  BY Zenon, <1>7 DEF PollEval, Route
<1>8. CASE Push
  BY Zenon, <1>8 DEF Push
<1>9. CASE Signal
  BY Zenon, <1>9 DEF Signal
<1>10. CASE Abort
  BY Zenon, <1>10 DEF Abort
<1>11. CASE CleanStop
  BY Zenon, <1>11 DEF CleanStop
<1>12. CASE SettleForStop
  BY Zenon, <1>12 DEF SettleForStop, Route
<1>13. CASE WriteRing
  BY Zenon, <1>13 DEF WriteRing, Rename
<1>14. CASE WriteSidecar
  BY Zenon, <1>14 DEF WriteSidecar, Rename
<1>15. CASE WriteManifest
  BY Zenon, <1>15 DEF WriteManifest, Rename
<1>16. CASE FsyncDir
  BY Zenon, <1>16 DEF FsyncDir
<1>17. CASE BeginPrune
  BY Zenon, <1>17 DEF BeginPrune
<1>18. CASE UnlinkManifest
  BY Zenon, <1>18 DEF UnlinkManifest
<1>19. CASE UnlinkRing
  BY Zenon, <1>19 DEF UnlinkRing
<1>20. CASE UnlinkSidecar
  BY Zenon, <1>20 DEF UnlinkSidecar
<1>21. CASE Report
  BY Zenon, <1>21 DEF Report, Down
<1>22. CASE Exit
  BY Zenon, <1>22 DEF Exit, Down
<1>23. CASE Crash
  BY Zenon, <1>23 DEF Crash, Down
<1>24. CASE PowerLoss
  BY Zenon, <1>24 DEF PowerLoss, Down
<1>25. CASE UNCHANGED vars
  BY Zenon, <1>25 DEF vars
<1>26. QED
  BY <1>1, <1>2, <1>3, <1>4, <1>5, <1>6, <1>7, <1>8, <1>9, <1>10, <1>11, <1>12, <1>13,
     <1>14, <1>15, <1>16, <1>17, <1>18, <1>19, <1>20, <1>21, <1>22, <1>23, <1>24, <1>25
     DEF Next

\* Every step keeps the other types.
LEMMA TypeStep ==
  ASSUME Types, Named, ManifestCertifies, Stages, [Next]_vars
  PROVE  Types'
<1> USE BoundsAssumption DEF Types, Unused, diskVars, metaVars, saveVars, liveVars, runVars
<1>1. CASE FreshLaunch
  BY <1>1 DEF FreshLaunch, Boot
<1>2. ASSUME NEW c \in Names, Resume(c) PROVE Types'
  <2>1. <<"ckpt", c>> \in dir
    BY <1>2 DEF Resume, Resumable, Members
  <2>2. stepOf[c] \in Nat
    BY <2>1 DEF Named
  <2>3. QED
    BY <1>2, <2>2 DEF Resume, Boot
<1>3. ASSUME NEW c \in Names, WarmStart(c) PROVE Types'
  BY <1>3 DEF WarmStart, Boot, Named
<1>4. ASSUME NEW c \in Names, SaveCheckpoint(c) PROVE Types'
  BY <1>4 DEF SaveCheckpoint, Rename, Files, Kinds
<1>5. CASE TrainStep
  BY <1>5 DEF TrainStep
<1>6. CASE KickEval
  BY <1>6 DEF KickEval
<1>7. CASE PollEval
  BY <1>7 DEF PollEval, Route
<1>8. CASE Push
  BY <1>8 DEF Push
<1>9. CASE Signal
  BY <1>9 DEF Signal
<1>10. CASE Abort
  BY <1>10 DEF Abort
<1>11. CASE CleanStop
  BY <1>11 DEF CleanStop
<1>12. CASE SettleForStop
  BY <1>12 DEF SettleForStop, Route
<1>13. CASE WriteRing
  BY <1>13 DEF WriteRing, Rename, Files, Kinds, Stages, Saving
<1>14. CASE WriteSidecar
  BY <1>14 DEF WriteSidecar, Rename, Files, Kinds, Stages, Saving
<1>15. CASE WriteManifest
  BY <1>15 DEF WriteManifest, Rename, Files, Kinds, Stages, Saving
<1>16. CASE FsyncDir
  BY <1>16 DEF FsyncDir, LegEnds, Rest, Kinds, Manifests, Named
<1>17. CASE BeginPrune
  BY <1>17 DEF BeginPrune, Surplus, Complete
<1>18. CASE UnlinkManifest
  BY <1>18 DEF UnlinkManifest
<1>19. CASE UnlinkRing
  BY <1>19 DEF UnlinkRing
<1>20. CASE UnlinkSidecar
  BY <1>20 DEF UnlinkSidecar
<1>21. CASE Report
  BY <1>21 DEF Report, LegEnds, Rest, Down, Kinds
<1>22. CASE Exit
  BY <1>22 DEF Exit, Down, Rest, Kinds
<1>23. CASE Crash
  BY <1>23 DEF Crash, Down, Rest, Kinds
<1>24. CASE PowerLoss
  BY <1>24 DEF PowerLoss, Down, Rest, Kinds, Manifests, Named
<1>25. CASE UNCHANGED vars
  BY <1>25 DEF vars
<1>26. QED
  BY <1>1, <1>2, <1>3, <1>4, <1>5, <1>6, <1>7, <1>8, <1>9, <1>10, <1>11, <1>12, <1>13,
     <1>14, <1>15, <1>16, <1>17, <1>18, <1>19, <1>20, <1>21, <1>22, <1>23, <1>24, <1>25
     DEF Next

-----------------------------------------------------------------------------
(* The disk *)

\* A bundle is its members and its manifest.
LEMMA OfMembers == \A c \in Names : Of(c) = Members(c) \cup {<<"bundle", c>>}
  BY DEF Of, Kinds, Members

\* Every step keeps the disk invariant.
LEMMA DiskStep ==
  ASSUME Types, DiskInv, Stages, Victims, [Next]_vars, Types'
  PROVE  DiskInv'
<1>1. CASE FreshLaunch
  BY <1>1, DiskUntouched DEF FreshLaunch, Boot, diskVars, metaVars
<1>2. ASSUME NEW c \in Names, Resume(c) PROVE DiskInv'
  BY <1>2, DiskUntouched DEF Resume, Boot, diskVars, metaVars
<1>3. ASSUME NEW c \in Names, WarmStart(c) PROVE DiskInv'
  BY <1>3, DiskUntouched DEF WarmStart, Boot, diskVars, metaVars
<1>4. ASSUME NEW c \in Names, SaveCheckpoint(c) PROVE DiskInv'
  <2> USE DEF SaveCheckpoint, Rename, diskVars
  <2>1. /\ published' \subseteq Names /\ published \subseteq published'
        /\ \A d \in published : stepOf'[d] = stepOf[d]
    BY <1>4 DEF DiskInv, Named, Types
  <2>2. \A d \in published : Owed(d)' => Owed(d)
    BY <1>4, <2>1, OwedShrinks
  <2>3. Named'
    BY <1>4 DEF DiskInv, Named, Manifests, Types, Unused, Files
  <2>4. ManifestCertifies'
    BY <1>4, <2>2, <2>3 DEF DiskInv, ManifestCertifies, Members, Named, Owed
  <2>5. RetainedDurable'
    BY <1>4, <2>2 DEF DiskInv, RetainedDurable, Of, Types
  <2>6. QED
    BY <2>3, <2>4, <2>5 DEF DiskInv
<1>5. CASE TrainStep
  BY <1>5, DiskUntouched DEF TrainStep, diskVars, metaVars
<1>6. CASE KickEval
  BY <1>6, DiskUntouched DEF KickEval, diskVars, metaVars
<1>7. CASE PollEval
  BY <1>7, DiskUntouched DEF PollEval, diskVars, metaVars
<1>8. CASE Push
  BY <1>8, DiskUntouched DEF Push, diskVars, metaVars
<1>9. CASE Signal
  BY <1>9, DiskUntouched DEF Signal, diskVars, metaVars
<1>10. CASE Abort
  BY <1>10, DiskUntouched DEF Abort, diskVars, metaVars
<1>11. CASE CleanStop
  BY <1>11, DiskUntouched DEF CleanStop, diskVars, metaVars
<1>12. CASE SettleForStop
  BY <1>12, DiskUntouched DEF SettleForStop, diskVars, metaVars
<1>13. CASE WriteRing
  <2> USE DEF WriteRing, Rename, diskVars
  <2>1. /\ published' \subseteq Names /\ published \subseteq published'
        /\ \A d \in published : stepOf'[d] = stepOf[d]
    BY <1>13 DEF Types
  <2>2. \A d \in published : Owed(d)' => Owed(d)
    BY <1>13, <2>1, OwedShrinks
  <2>3. Named'
    <3>1. <<"ckpt", cur>> \in dir
      BY <1>13 DEF Stages, Writing, Members
    <3>2. stepOf[cur] # Unused
      BY <3>1 DEF DiskInv, Named
    <3>3. QED
      BY <1>13, <3>2 DEF DiskInv, Named, Manifests
  <2>4. ManifestCertifies'
    BY <1>13, <2>2, <2>3 DEF DiskInv, ManifestCertifies, Members, Named, Owed
  <2>5. RetainedDurable'
    BY <1>13, <2>2 DEF DiskInv, RetainedDurable, Of, Types
  <2>6. QED
    BY <2>3, <2>4, <2>5 DEF DiskInv
<1>14. CASE WriteSidecar
  <2> USE DEF WriteSidecar, Rename, diskVars
  <2>1. /\ published' \subseteq Names /\ published \subseteq published'
        /\ \A d \in published : stepOf'[d] = stepOf[d]
    BY <1>14 DEF Types
  <2>2. \A d \in published : Owed(d)' => Owed(d)
    BY <1>14, <2>1, OwedShrinks
  <2>3. Named'
    <3>1. <<"ckpt", cur>> \in dir
      BY <1>14 DEF Stages, Writing, Members
    <3>2. stepOf[cur] # Unused
      BY <3>1 DEF DiskInv, Named
    <3>3. QED
      BY <1>14, <3>2 DEF DiskInv, Named, Manifests
  <2>4. ManifestCertifies'
    BY <1>14, <2>2, <2>3 DEF DiskInv, ManifestCertifies, Members, Named, Owed
  <2>5. RetainedDurable'
    BY <1>14, <2>2 DEF DiskInv, RetainedDurable, Of, Types
  <2>6. QED
    BY <2>3, <2>4, <2>5 DEF DiskInv
<1>15. CASE WriteManifest
  <2> USE DEF WriteManifest, Rename, diskVars
  <2>1. /\ published' \subseteq Names /\ published \subseteq published'
        /\ \A d \in published : stepOf'[d] = stepOf[d]
    BY <1>15 DEF Types
  <2>2. \A d \in published : Owed(d)' => Owed(d)
    BY <1>15, <2>1, OwedShrinks
  <2>3. Named'
    <3>1. <<"ckpt", cur>> \in dir
      BY <1>15 DEF Stages, Writing, Members
    <3>2. stepOf[cur] # Unused
      BY <3>1 DEF DiskInv, Named
    <3>3. QED
      BY <1>15, <3>2 DEF DiskInv, Named, Manifests
  <2>4. ManifestCertifies'
    <3>1. cur \notin published /\ Members(cur) \subseteq dir \cap disk
      BY <1>15 DEF Stages, Writing, Saving
    <3>2. SUFFICES ASSUME NEW c \in Names, Owed(c)', <<"bundle", c>> \in dir' \cup disk', c # cur
                   PROVE  Members(c) \subseteq dir' \cap disk'
      BY <1>15, <3>1 DEF ManifestCertifies, Members
    <3>3. <<"bundle", c>> \in dir \cup disk
      BY <1>15, <3>2
    <3>4. c \in published
      BY <1>15, <3>2 DEF Owed
    <3>5. QED
      BY <1>15, <2>2, <3>2, <3>3, <3>4 DEF DiskInv, ManifestCertifies
  <2>5. RetainedDurable'
    BY <1>15, <2>2 DEF DiskInv, RetainedDurable, Of, Types
  <2>6. QED
    BY <2>3, <2>4, <2>5 DEF DiskInv
<1>16. CASE FsyncDir
  <2> USE DEF FsyncDir
  <2>1. \A c \in Names : Owed(c)' <=> Owed(c)
    BY <1>16 DEF Owed
  <2>2. Named'
    BY <1>16 DEF DiskInv, Named, Manifests
  <2>3. ManifestCertifies'
    BY <1>16, <2>1 DEF DiskInv, ManifestCertifies, Members
  <2>4. RetainedDurable'
    BY <1>16, <2>1, OfMembers DEF DiskInv, RetainedDurable, ManifestCertifies, Manifests, Types
  <2>5. QED
    BY <2>2, <2>3, <2>4 DEF DiskInv
<1>17. CASE BeginPrune
  BY <1>17, DiskUntouched DEF BeginPrune, diskVars, metaVars
<1>18. CASE UnlinkManifest
  <2>1. UNCHANGED <<disk, metaVars>>
    BY <1>18 DEF UnlinkManifest
  <2>2. PICK f : dir' = dir \ {f} /\ (f \in dir => f[2] \in Names /\ ~Owed(f[2]))
    <3>1. PICK v \in victims : \E f \in ManifestsAt(stepOf[v]) : dir' = dir \ {f}
      BY <1>18 DEF UnlinkManifest
    <3>2. v \in published /\ ~Owed(v)
      BY <1>18, <3>1 DEF UnlinkManifest, Victims
    <3>3. PICK f \in ManifestsAt(stepOf[v]) : dir' = dir \ {f}
      BY <3>1
    <3>4. f \in dir /\ f[2] \in Names /\ stepOf[f[2]] = stepOf[v]
      BY DEF ManifestsAt, Types, Files
    <3>5. ~Owed(f[2])
      BY <3>2, <3>4 DEF Owed
    <3>6. QED
      BY <3>3, <3>4, <3>5
  <2>3. \A c \in Names : Owed(c)' <=> Owed(c)
    BY <2>1 DEF Owed, metaVars
  <2>4. Named'
    BY <2>1, <2>2 DEF DiskInv, Named, Manifests, metaVars
  <2>5. ManifestCertifies'
    BY <2>1, <2>2, <2>3 DEF DiskInv, ManifestCertifies, Members, metaVars
  <2>6. RetainedDurable'
    BY <2>1, <2>2, <2>3 DEF DiskInv, RetainedDurable, Of, metaVars, Types
  <2>7. QED
    BY <2>4, <2>5, <2>6 DEF DiskInv
<1>19. CASE UnlinkRing
  <2>1. UNCHANGED <<disk, metaVars>>
    BY <1>19 DEF UnlinkRing
  <2>2. PICK f : dir' = dir \ {f} /\ (f \in dir => f[2] \in Names /\ ~Owed(f[2]))
    <3> DEFINE f == <<"ring", victim>>
    <3>1. dir' = dir \ {f} /\ f[2] = victim
      BY <1>19 DEF UnlinkRing
    <3>2. victim \in Names /\ ~Owed(victim)
      BY <1>19 DEF UnlinkRing, Victims, Types
    <3>3. f[2] \in Names /\ ~Owed(f[2])
      BY <3>1, <3>2
    <3> HIDE DEF f
    <3>4. QED
      BY <3>1, <3>3
  <2>3. \A c \in Names : Owed(c)' <=> Owed(c)
    BY <2>1 DEF Owed, metaVars
  <2>4. Named'
    BY <2>1, <2>2 DEF DiskInv, Named, Manifests, metaVars
  <2>5. ManifestCertifies'
    BY <2>1, <2>2, <2>3 DEF DiskInv, ManifestCertifies, Members, metaVars
  <2>6. RetainedDurable'
    BY <2>1, <2>2, <2>3 DEF DiskInv, RetainedDurable, Of, metaVars, Types
  <2>7. QED
    BY <2>4, <2>5, <2>6 DEF DiskInv
<1>20. CASE UnlinkSidecar
  <2>1. UNCHANGED <<disk, metaVars>>
    BY <1>20 DEF UnlinkSidecar
  <2>2. PICK f : dir' = dir \ {f} /\ (f \in dir => f[2] \in Names /\ ~Owed(f[2]))
    <3> DEFINE f == <<"side", victim>>
    <3>1. dir' = dir \ {f} /\ f[2] = victim
      BY <1>20 DEF UnlinkSidecar
    <3>2. victim \in Names /\ ~Owed(victim)
      BY <1>20 DEF UnlinkSidecar, Victims, Types
    <3>3. f[2] \in Names /\ ~Owed(f[2])
      BY <3>1, <3>2
    <3> HIDE DEF f
    <3>4. QED
      BY <3>1, <3>3
  <2>3. \A c \in Names : Owed(c)' <=> Owed(c)
    BY <2>1 DEF Owed, metaVars
  <2>4. Named'
    BY <2>1, <2>2 DEF DiskInv, Named, Manifests, metaVars
  <2>5. ManifestCertifies'
    BY <2>1, <2>2, <2>3 DEF DiskInv, ManifestCertifies, Members, metaVars
  <2>6. RetainedDurable'
    BY <2>1, <2>2, <2>3 DEF DiskInv, RetainedDurable, Of, metaVars, Types
  <2>7. QED
    BY <2>4, <2>5, <2>6 DEF DiskInv
<1>21. CASE Report
  BY <1>21, DiskUntouched DEF Report, diskVars, metaVars
<1>22. CASE Exit
  BY <1>22, DiskUntouched DEF Exit, diskVars, metaVars
<1>23. CASE Crash
  BY <1>23, DiskUntouched DEF Crash, diskVars, metaVars
<1>24. CASE PowerLoss
  <2>1. UNCHANGED <<stepOf, published>> /\ disk' = dir' /\ committed' = committed \cup Manifests(dir')
    BY <1>24 DEF PowerLoss
  <2>2. dir \cap disk \subseteq dir' /\ dir' \subseteq dir \cup disk
    BY <1>24 DEF PowerLoss
  <2>3. \A c \in Names : Owed(c)' <=> Owed(c)
    BY <2>1 DEF Owed
  <2>4. Named'
    BY <2>1, <2>2 DEF DiskInv, Named, Manifests
  <2>5. ManifestCertifies'
    BY <2>1, <2>2, <2>3 DEF DiskInv, ManifestCertifies, Members
  <2>6. RetainedDurable'
    BY <2>1, <2>2, <2>3, OfMembers DEF DiskInv, RetainedDurable, ManifestCertifies, Manifests, Types
  <2>7. QED
    BY <2>4, <2>5, <2>6 DEF DiskInv
<1>25. CASE UNCHANGED vars
  BY <1>25, DiskUntouched DEF vars
<1>26. QED
  BY <1>1, <1>2, <1>3, <1>4, <1>5, <1>6, <1>7, <1>8, <1>9, <1>10, <1>11, <1>12, <1>13,
     <1>14, <1>15, <1>16, <1>17, <1>18, <1>19, <1>20, <1>21, <1>22, <1>23, <1>24, <1>25
     DEF Next

-----------------------------------------------------------------------------
(* The saving leg *)

\* Every step keeps the order of a publish.
LEMMA StagesStep ==
  ASSUME Types, DiskInv, Stages, [Next]_vars
  PROVE  Stages'
<1> USE DEF Stages, Writing, Saving, Pruning, Members, diskVars, metaVars, saveVars, liveVars, runVars
<1>1. CASE FreshLaunch
  BY <1>1 DEF FreshLaunch, Boot
<1>2. ASSUME NEW c \in Names, Resume(c) PROVE Stages'
  BY <1>2 DEF Resume, Boot
<1>3. ASSUME NEW c \in Names, WarmStart(c) PROVE Stages'
  BY <1>3 DEF WarmStart, Boot
<1>4. ASSUME NEW c \in Names, SaveCheckpoint(c) PROVE Stages'
  <2>1. c \notin published
    BY <1>4 DEF SaveCheckpoint, DiskInv, Named
  <2>2. QED
    BY <1>4, <2>1 DEF SaveCheckpoint, Rename
<1>5. CASE TrainStep
  BY <1>5 DEF TrainStep
<1>6. CASE KickEval
  BY <1>6 DEF KickEval
<1>7. CASE PollEval
  BY <1>7 DEF PollEval, Route
<1>8. CASE Push
  BY <1>8 DEF Push
<1>9. CASE Signal
  BY <1>9 DEF Signal
<1>10. CASE Abort
  BY <1>10 DEF Abort
<1>11. CASE CleanStop
  BY <1>11 DEF CleanStop
<1>12. CASE SettleForStop
  BY <1>12 DEF SettleForStop, Route
<1>13. CASE WriteRing
  BY <1>13 DEF WriteRing, Rename
<1>14. CASE WriteSidecar
  BY <1>14 DEF WriteSidecar, Rename
<1>15. CASE WriteManifest
  BY <1>15 DEF WriteManifest, Rename
<1>16. CASE FsyncDir
  <2>1. wrote \in {"ckpt", "ring", "side", "bundle"}
    BY DEF Types, Kinds
  <2>2. \/ pc' = "train"
        \/ pc' = "exit" /\ UNCHANGED saveVars /\ (mode = "clean" \/ abort)
        \/ /\ UNCHANGED saveVars
           /\ \/ wrote = "ckpt" /\ pc' = "ring"
              \/ wrote = "ring" /\ pc' = "sidecar"
              \/ wrote = "side" /\ pc' = "manifest"
              \/ wrote = "bundle" /\ pc' = "prune"
    BY <1>16, <2>1 DEF FsyncDir, LegEnds, Rest, Declines
  <2>3. /\ disk' = dir /\ dir' = dir /\ UNCHANGED <<published, anchorOf, runVars>> /\ pc = "fsync"
        /\ committed' = committed \cup Manifests(dir)
    BY <1>16 DEF FsyncDir
  <2>4. QED
    BY <2>2, <2>3 DEF Manifests
<1>17. CASE BeginPrune
  BY <1>17 DEF BeginPrune
<1>18. CASE UnlinkManifest
  BY <1>18 DEF UnlinkManifest
<1>19. CASE UnlinkRing
  BY <1>19 DEF UnlinkRing
<1>20. CASE UnlinkSidecar
  BY <1>20 DEF UnlinkSidecar
<1>21. CASE Report
  BY <1>21 DEF Report, LegEnds, Rest, Down
<1>22. CASE Exit
  BY <1>22 DEF Exit, Down, Rest
<1>23. CASE Crash
  BY <1>23 DEF Crash, Down, Rest
<1>24. CASE PowerLoss
  BY <1>24 DEF PowerLoss, Down, Rest
<1>25. CASE UNCHANGED vars
  BY <1>25 DEF vars
<1>26. QED
  BY <1>1, <1>2, <1>3, <1>4, <1>5, <1>6, <1>7, <1>8, <1>9, <1>10, <1>11, <1>12, <1>13,
     <1>14, <1>15, <1>16, <1>17, <1>18, <1>19, <1>20, <1>21, <1>22, <1>23, <1>24, <1>25
     DEF Next

\* Every step keeps the victims of a prune out of debt.
LEMMA VictimsStep ==
  ASSUME Types, DiskInv, Stages, Victims, [Next]_vars
  PROVE  Victims'
<1> USE DEF Victims, diskVars, metaVars, saveVars, liveVars, runVars
<1>1. CASE FreshLaunch
  BY <1>1 DEF FreshLaunch, Boot
<1>2. ASSUME NEW c \in Names, Resume(c) PROVE Victims'
  BY <1>2 DEF Resume, Boot
<1>3. ASSUME NEW c \in Names, WarmStart(c) PROVE Victims'
  BY <1>3 DEF WarmStart, Boot
<1>4. ASSUME NEW c \in Names, SaveCheckpoint(c) PROVE Victims'
  BY <1>4 DEF SaveCheckpoint, Rename
<1>5. CASE TrainStep
  BY <1>5 DEF TrainStep
<1>6. CASE KickEval
  BY <1>6 DEF KickEval
<1>7. CASE PollEval
  BY <1>7 DEF PollEval, Route
<1>8. CASE Push
  <2>1. UNCHANGED <<published, stepOf>>
    BY <1>8 DEF Push
  <2>2. \A c \in published : Owed(c)' <=> Owed(c)
    BY <2>1 DEF Owed
  <2>3. QED
    BY <1>8, <2>1, <2>2 DEF Push
<1>9. CASE Signal
  <2>1. UNCHANGED <<published, stepOf>>
    BY <1>9 DEF Signal
  <2>2. \A c \in published : Owed(c)' <=> Owed(c)
    BY <2>1 DEF Owed
  <2>3. QED
    BY <1>9, <2>1, <2>2 DEF Signal
<1>10. CASE Abort
  <2>1. UNCHANGED <<published, stepOf>>
    BY <1>10 DEF Abort
  <2>2. \A c \in published : Owed(c)' <=> Owed(c)
    BY <2>1 DEF Owed
  <2>3. QED
    BY <1>10, <2>1, <2>2 DEF Abort
<1>11. CASE CleanStop
  BY <1>11 DEF CleanStop
<1>12. CASE SettleForStop
  BY <1>12 DEF SettleForStop, Route
<1>13. CASE WriteRing
  BY <1>13 DEF WriteRing, Rename
<1>14. CASE WriteSidecar
  BY <1>14 DEF WriteSidecar, Rename
<1>15. CASE WriteManifest
  BY <1>15 DEF WriteManifest, Rename
<1>16. CASE FsyncDir
  <2>1. wrote \in {"ckpt", "ring", "side", "bundle"}
    BY DEF Types, Kinds
  <2>2. \/ pc' = "train"
        \/ pc' = "exit" /\ UNCHANGED saveVars /\ (mode = "clean" \/ abort)
        \/ /\ UNCHANGED saveVars
           /\ \/ wrote = "ckpt" /\ pc' = "ring"
              \/ wrote = "ring" /\ pc' = "sidecar"
              \/ wrote = "side" /\ pc' = "manifest"
              \/ wrote = "bundle" /\ pc' = "prune"
    BY <1>16, <2>1 DEF FsyncDir, LegEnds, Rest, Declines
  <2>3. /\ disk' = dir /\ dir' = dir /\ UNCHANGED <<published, anchorOf, runVars>> /\ pc = "fsync"
        /\ committed' = committed \cup Manifests(dir)
    BY <1>16 DEF FsyncDir
  <2>4. QED
    BY <2>2, <2>3 DEF Manifests
<1>17. CASE BeginPrune
  <2>1. UNCHANGED <<published, stepOf>>
    BY <1>17 DEF BeginPrune
  <2>2. \A c \in published : Owed(c)' <=> Owed(c)
    BY <2>1 DEF Owed
  <2>3. QED
    BY <1>17, <2>1, <2>2, SurplusNotOwed DEF BeginPrune, DiskInv
<1>18. CASE UnlinkManifest
  <2>1. UNCHANGED <<published, stepOf>>
    BY <1>18 DEF UnlinkManifest
  <2>2. \A c \in published : Owed(c)' <=> Owed(c)
    BY <2>1 DEF Owed
  <2>3. QED
    BY <1>18, <2>1, <2>2 DEF UnlinkManifest
<1>19. CASE UnlinkRing
  <2>1. UNCHANGED <<published, stepOf>>
    BY <1>19 DEF UnlinkRing
  <2>2. \A c \in published : Owed(c)' <=> Owed(c)
    BY <2>1 DEF Owed
  <2>3. QED
    BY <1>19, <2>1, <2>2 DEF UnlinkRing
<1>20. CASE UnlinkSidecar
  <2>1. UNCHANGED <<published, stepOf>>
    BY <1>20 DEF UnlinkSidecar
  <2>2. \A c \in published : Owed(c)' <=> Owed(c)
    BY <2>1 DEF Owed
  <2>3. QED
    BY <1>20, <2>1, <2>2 DEF UnlinkSidecar
<1>21. CASE Report
  BY <1>21 DEF Report, LegEnds, Rest, Down
<1>22. CASE Exit
  BY <1>22 DEF Exit, Down, Rest
<1>23. CASE Crash
  BY <1>23 DEF Crash, Down, Rest
<1>24. CASE PowerLoss
  BY <1>24 DEF PowerLoss, Down, Rest
<1>25. CASE UNCHANGED vars
  <2>1. \A c \in published : Owed(c)' <=> Owed(c)
    BY <1>25 DEF Owed, vars
  <2>2. QED
    BY <1>25, <2>1 DEF vars
<1>26. QED
  BY <1>1, <1>2, <1>3, <1>4, <1>5, <1>6, <1>7, <1>8, <1>9, <1>10, <1>11, <1>12, <1>13,
     <1>14, <1>15, <1>16, <1>17, <1>18, <1>19, <1>20, <1>21, <1>22, <1>23, <1>24, <1>25
     DEF Next

\* Every step keeps what a resumable stop has settled.
LEMMA SettledStep ==
  ASSUME Types, Flags, DiskInv, Stages, Settled, [Next]_vars
  PROVE  Settled'
<1> USE DEF Settled, Stages, Saving, Pruning, diskVars, metaVars, saveVars, liveVars, runVars
<1>1. CASE FreshLaunch
  BY <1>1 DEF FreshLaunch, Boot
<1>2. ASSUME NEW c \in Names, Resume(c) PROVE Settled'
  BY <1>2 DEF Resume, Boot
<1>3. ASSUME NEW c \in Names, WarmStart(c) PROVE Settled'
  BY <1>3 DEF WarmStart, Boot
<1>4. ASSUME NEW c \in Names, SaveCheckpoint(c) PROVE Settled'
  BY <1>4 DEF SaveCheckpoint, Rename
<1>5. CASE TrainStep
  BY <1>5 DEF TrainStep
<1>6. CASE KickEval
  BY <1>6 DEF KickEval
<1>7. CASE PollEval
  BY <1>7 DEF PollEval, Route
<1>8. CASE Push
  BY <1>8 DEF Push
<1>9. CASE Signal
  BY <1>9 DEF Signal
<1>10. CASE Abort
  BY <1>10 DEF Abort
<1>11. CASE CleanStop
  BY <1>11 DEF CleanStop
<1>12. CASE SettleForStop
  BY <1>12 DEF SettleForStop, Route
<1>13. CASE WriteRing
  BY <1>13 DEF WriteRing, Rename, Types
<1>14. CASE WriteSidecar
  BY <1>14 DEF WriteSidecar, Rename
<1>15. CASE WriteManifest
  BY <1>15 DEF WriteManifest, Rename
<1>16. CASE FsyncDir
  <2>1. wrote \in {"ckpt", "ring", "side", "bundle"}
    BY DEF Types, Kinds
  <2>2. \/ pc' = "train"
        \/ pc' = "exit" /\ UNCHANGED saveVars /\ (mode = "clean" \/ abort)
        \/ /\ UNCHANGED saveVars
           /\ \/ wrote = "ckpt" /\ pc' = "ring"
              \/ wrote = "ring" /\ pc' = "sidecar"
              \/ wrote = "side" /\ pc' = "manifest"
              \/ wrote = "bundle" /\ pc' = "prune"
    BY <1>16, <2>1 DEF FsyncDir, LegEnds, Rest, Declines
  <2>3. /\ disk' = dir /\ dir' = dir /\ UNCHANGED <<published, anchorOf, runVars>> /\ pc = "fsync"
        /\ committed' = committed \cup Manifests(dir)
    BY <1>16 DEF FsyncDir
  <2>4. QED
    BY <2>2, <2>3 DEF Manifests
<1>17. CASE BeginPrune
  BY <1>17 DEF BeginPrune
<1>18. CASE UnlinkManifest
  BY <1>18 DEF UnlinkManifest
<1>19. CASE UnlinkRing
  BY <1>19 DEF UnlinkRing
<1>20. CASE UnlinkSidecar
  BY <1>20 DEF UnlinkSidecar
<1>21. CASE Report
  BY <1>21 DEF Report, LegEnds, Rest, Down
<1>22. CASE Exit
  BY <1>22 DEF Exit, Down, Rest
<1>23. CASE Crash
  BY <1>23 DEF Crash, Down, Rest
<1>24. CASE PowerLoss
  BY <1>24 DEF PowerLoss, Down, Rest
<1>25. CASE UNCHANGED vars
  BY <1>25 DEF vars
<1>26. QED
  BY <1>1, <1>2, <1>3, <1>4, <1>5, <1>6, <1>7, <1>8, <1>9, <1>10, <1>11, <1>12, <1>13,
     <1>14, <1>15, <1>16, <1>17, <1>18, <1>19, <1>20, <1>21, <1>22, <1>23, <1>24, <1>25
     DEF Next

-----------------------------------------------------------------------------
(* Theorems *)

\* The initial state satisfies the invariant.
LEMMA InitInv == Init => BundleInv
<1> SUFFICES ASSUME Init PROVE BundleInv
  OBVIOUS
<1> USE DEF Init
<1>1. Types
  BY BoundsAssumption DEF Types, Kinds
<1>2. Flags
  BY Zenon DEF Flags
<1>3. DiskInv
  BY DEF DiskInv, Named, Manifests, ManifestCertifies, RetainedDurable
<1>4. Stages /\ Victims /\ Settled
  BY DEF Stages, Writing, Saving, Pruning, Victims, Settled
<1>5. QED
  BY <1>1, <1>2, <1>3, <1>4 DEF BundleInv

\* Every step keeps the invariant.
LEMMA NextInv == BundleInv /\ [Next]_vars => BundleInv'
<1> SUFFICES ASSUME BundleInv, [Next]_vars PROVE BundleInv'
  OBVIOUS
<1>1. Types /\ Flags /\ DiskInv /\ Stages /\ Victims /\ Settled
  BY DEF BundleInv
<1>2. Types'
  BY <1>1, TypeStep DEF DiskInv
<1>3. Flags'
  BY <1>1, FlagStep
<1>4. DiskInv'
  BY <1>1, <1>2, DiskStep
<1>5. Stages' /\ Victims' /\ Settled'
  BY <1>1, StagesStep, VictimsStep, SettledStep
<1>6. QED
  BY <1>2, <1>3, <1>4, <1>5 DEF BundleInv

\* The invariant of every reachable state of the save, prune and resume legs.
THEOREM BundleInvariant == Spec => []BundleInv
  BY InitInv, NextInv, PTL DEF Spec

\* Type correctness.
THEOREM BundleTypes == Spec => []TypeOK
<1>1. BundleInv => TypeOK
  BY TypesAndFlags DEF BundleInv
<1>2. QED
  BY <1>1, BundleInvariant, PTL

\* complete_bundles and prune_bundles: whatever crashes and power losses come, a
\* bundle that retention still owes and whose manifest became durable is whole.
THEOREM OwedBundlesSurvive == Spec => []RetainedSurvives
<1>1. BundleInv => RetainedSurvives
  BY DEF BundleInv, DiskInv, RetainedDurable, RetainedSurvives
<1>2. QED
  BY <1>1, BundleInvariant, PTL

\* publish_bundle's fsync order: no manifest of an owed bundle can outlive a
\* member it certifies.
THEOREM ManifestsCertify == Spec => []ManifestCertifies
<1>1. BundleInv => ManifestCertifies
  BY DEF BundleInv, DiskInv
<1>2. QED
  BY <1>1, BundleInvariant, PTL

\* settle_inflight_eval_for_stop then persist_resume_state: the bundle of a
\* resumable stop is one _restore_resume_state and the launch pin accept.
THEOREM StopsResume == Spec => []StopResumes
<1>1. ASSUME BundleInv PROVE StopResumes
  <2>1. SUFFICES ASSUME NEW c \in Names, c = stopped, Owed(c), rowsIn[c] = positions[c]
                 PROVE  Resumable(c)
    BY DEF StopResumes
  <2>2. c # Unused
    BY NamesAssumption DEF Unused
  <2>3. anchorOf[c] = anchor /\ c \in committed
    BY <1>1, <2>1, <2>2 DEF BundleInv, Settled
  <2>4. Of(c) \subseteq dir
    BY <1>1, <2>1, <2>3 DEF BundleInv, DiskInv, RetainedDurable
  <2>5. QED
    BY <2>1, <2>3, <2>4, OfMembers DEF Resumable, Pinned
<1>2. QED
  BY <1>1, BundleInvariant, PTL
=============================================================================
