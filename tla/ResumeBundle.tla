---------------------------- MODULE ResumeBundle ----------------------------
(***************************************************************************)
(* The resume bundle: the checkpoint, ring, sidecar and manifest a stop or *)
(* a periodic save leaves behind, the retention pass that prunes older     *)
(* bundles, and the launch that resumes from one.                          *)
(*                                                                         *)
(* Three actors touch this state.  The trainer thread saves, publishes and *)
(* prunes.  The feeder thread pushes rows into the live ring all the while *)
(* (pool.stop() comes after the final save).  The machine crashes: a       *)
(* process death keeps every directory entry, a power loss keeps an        *)
(* arbitrary part of the entries not yet fsynced.                          *)
(*                                                                         *)
(* A file is <<kind, name>>, where name is the checkpoint name its members *)
(* derive from.  Every writer fills and fsyncs a temporary file before it  *)
(* renames it, and a name holds a content hash and so is written once:     *)
(* contents are whole and fixed, and only the directory entries can be     *)
(* lost.  dir is the live directory, disk the part of it known durable.    *)
(***************************************************************************)
EXTENDS Integers, FiniteSets

CONSTANTS
    Names,        \* checkpoint names, numbered in file-name order
    Keep,         \* _BUNDLES_RETAINED
    Interval,     \* train.checkpoint_interval
    Capacity,     \* rows the ring holds
    StopStep,     \* train.stop_step: the run is complete there
    MaxLaunches,  \* bound on launches
    MaxAnchor     \* bound on promotions

ASSUME NamesAssumption == Names \subseteq Nat /\ IsFiniteSet(Names)
ASSUME KeepAssumption == Keep \in Nat \ {0}
ASSUME BoundsAssumption ==
    /\ Interval \in Nat \ {0} /\ Capacity \in Nat \ {0}
    /\ StopStep \in Nat /\ MaxLaunches \in Nat /\ MaxAnchor \in Nat

Kinds == {"ckpt", "ring", "side", "bundle"}

\* A checkpoint name no save has produced yet.
Unused == -1

VARIABLES
    dir,        \* directory entries a reader of the filesystem sees
    disk,       \* directory entries as of the last directory fsync
    stepOf,     \* name -> training step in the name, or Unused
    rowsIn,     \* name -> rows in its ring file
    positions,  \* name -> ring.positions its sidecar records
    anchorOf,   \* name -> anchor_sha256 its sidecar records
    published,  \* history: names whose manifest was renamed into place
    committed,  \* history: names whose manifest has been durable
    pc,         \* where the trainer thread is; "down" when there is no process
    mode,       \* which leg is saving: "periodic", "stop" or "clean"
    cur,        \* the name being saved
    wrote,      \* the kind written last, for the fsync that follows
    victims,    \* bundles prune_bundles still has to remove
    victim,     \* the one it is removing
    step,       \* trainer.step
    size,       \* buffer.size, the live ring's row count
    round,      \* is an evaluation round in flight or in the mailbox
    stop,       \* shutdown.shutdown_save
    abort,      \* abort_rule set, or the disk guard's critical_fired
    anchor,     \* identity of best_model.pt
    launches,   \* launches so far
    stopped     \* the bundle of the resumable stop that ended the last process

diskVars == <<dir, disk>>
metaVars == <<stepOf, rowsIn, positions, anchorOf, published, committed>>
saveVars == <<mode, cur, wrote, victims, victim>>
liveVars == <<step, size, round, stop, abort>>
runVars == <<liveVars, anchor, launches, stopped>>
vars == <<diskVars, metaVars, pc, saveVars, runVars>>

Files == Kinds \X Names
Of(c) == Kinds \X {c}
Manifests(entries) == {c \in Names : <<"bundle", c>> \in entries}
Members(c) == {<<"ckpt", c>>, <<"ring", c>>, <<"side", c>>}

\* complete_bundles: the manifest parses and every member verifies.
Complete == {c \in Names : Of(c) \subseteq dir}

\* The order complete_bundles sorts in: by step, and by file name within one.
Newer(a, b) == \/ stepOf[a] > stepOf[b]
               \/ stepOf[a] = stepOf[b] /\ a > b

\* Mutant: keeps one bundle too few.
Surplus_OffByOne ==
    {c \in Complete : Cardinality({d \in Complete : Newer(d, c)}) >= Keep - 1}

\* What prune_bundles removes: the complete bundles with Keep newer ones.
Surplus == {c \in Complete : Cardinality({d \in Complete : Newer(d, c)}) >= Keep}

Init ==
    /\ dir = {} /\ disk = {}
    /\ stepOf = [c \in Names |-> Unused]
    /\ rowsIn = [c \in Names |-> 0]
    /\ positions = [c \in Names |-> 0]
    /\ anchorOf = [c \in Names |-> 0]
    /\ published = {} /\ committed = {}
    /\ pc = "down" /\ mode = "periodic" /\ cur = Unused /\ wrote = "ckpt"
    /\ victims = {} /\ victim = Unused
    /\ step = 0 /\ size = 0 /\ round = FALSE /\ stop = FALSE /\ abort = FALSE
    /\ anchor = 0 /\ launches = 0 /\ stopped = Unused

-----------------------------------------------------------------------------
(* Launching *)

\* The process comes up at step s with n rows in its ring.
Boot(s, n) ==
    /\ pc = "down" /\ launches < MaxLaunches
    /\ pc' = "train" /\ step' = s /\ size' = n
    /\ round' = FALSE /\ stop' = FALSE /\ abort' = FALSE
    /\ launches' = launches + 1 /\ stopped' = Unused
    /\ UNCHANGED <<diskVars, metaVars, saveVars, anchor>>

FreshLaunch == launches = 0 /\ Boot(0, 0)

\* The launch pin: the incumbent on disk is the one the sidecar names.
Pinned(c) == anchorOf[c] = anchor

\* _restore_resume_state, past its refusals: the sidecar alone makes the launch
\* a continuation, and the ring must hash and load as the sidecar says.
Resumable(c) ==
    /\ Members(c) \subseteq dir
    /\ rowsIn[c] = positions[c]
    /\ Pinned(c)

Resume(c) == Resumable(c) /\ Boot(stepOf[c], rowsIn[c])

\* No sidecar beside the checkpoint: a warm start on an empty ring.
WarmStart(c) ==
    /\ <<"ckpt", c>> \in dir /\ <<"side", c>> \notin dir
    /\ Boot(stepOf[c], 0)

-----------------------------------------------------------------------------
(* The running process, outside its saves *)

\* One training step; the periodic seam fires on the step it reaches.
TrainStep ==
    /\ pc = "train" /\ step < StopStep
    /\ step' = step + 1
    /\ IF step' % Interval = 0
         THEN pc' = "save" /\ mode' = "periodic"
         ELSE UNCHANGED <<pc, mode>>
    /\ UNCHANGED <<diskVars, metaVars, cur, wrote, victims, victim, size,
                   round, stop, abort, anchor, launches, stopped>>

KickEval ==
    /\ pc = "train" /\ step > 0 /\ ~round
    /\ round' = TRUE
    /\ UNCHANGED <<diskVars, metaVars, pc, saveVars, step, size, stop, abort,
                   anchor, launches, stopped>>

\* Routing a finished round may promote, which replaces best_model.pt.
Route ==
    /\ round' = FALSE
    /\ \/ anchor' = anchor
       \/ round /\ anchor < MaxAnchor /\ anchor' = anchor + 1

PollEval ==
    /\ pc = "train" /\ round /\ Route
    /\ UNCHANGED <<diskVars, metaVars, pc, saveVars, step, size, stop, abort,
                   launches, stopped>>

\* The feeder pushes one row; at capacity it overwrites the oldest.
Push ==
    /\ pc # "down" /\ size < Capacity
    /\ size' = size + 1
    /\ UNCHANGED <<diskVars, metaVars, pc, saveVars, step, round, stop, abort,
                   anchor, launches, stopped>>

\* The first SIGINT or SIGTERM.
Signal ==
    /\ pc # "down" /\ ~stop
    /\ stop' = TRUE
    /\ UNCHANGED <<diskVars, metaVars, pc, saveVars, step, size, round, abort,
                   anchor, launches, stopped>>

\* The disk guard latches critical_fired before it signals; an armed gate
\* records its abort_rule.
Abort ==
    /\ pc # "down" /\ ~abort
    /\ abort' = TRUE
    /\ UNCHANGED <<diskVars, metaVars, pc, saveVars, step, size, round, stop,
                   anchor, launches, stopped>>

-----------------------------------------------------------------------------
(* Saving *)

\* The clean-completion leg: a checkpoint, no bundle.
CleanStop ==
    /\ pc = "train" /\ step >= StopStep
    /\ pc' = "save" /\ mode' = "clean"
    /\ UNCHANGED <<diskVars, metaVars, cur, wrote, victims, victim, runVars>>

\* Mutant: the round in flight is left for close_out to settle.
SettleForStop_Later ==
    /\ pc = "train" /\ stop
    /\ pc' = "save" /\ mode' = "stop"
    /\ UNCHANGED <<diskVars, metaVars, cur, wrote, victims, victim, runVars>>

\* The shutdown-save leg settles the round in flight before it saves.
SettleForStop ==
    /\ pc = "train" /\ stop
    /\ IF abort THEN UNCHANGED <<round, anchor>> ELSE Route
    /\ pc' = "save" /\ mode' = "stop"
    /\ UNCHANGED <<diskVars, metaVars, cur, wrote, victims, victim, step, size,
                   stop, abort, launches, stopped>>

\* One writer renames its finished temporary file into place.
Rename(k, c) ==
    /\ dir' = dir \cup {<<k, c>>} /\ wrote' = k /\ pc' = "fsync"
    /\ UNCHANGED <<disk, mode, victims, victim, runVars>>

\* The name carries a hash of the payload with its creation time: always new.
SaveCheckpoint(c) ==
    /\ pc = "save" /\ stepOf[c] = Unused
    /\ Rename("ckpt", c)
    /\ cur' = c /\ stepOf' = [stepOf EXCEPT ![c] = step]
    /\ UNCHANGED <<rowsIn, positions, anchorOf, published, committed>>

\* The sidecar's own fields are captured before the ring is written, the
\* ring's row count under the ring lock by the write itself.
WriteRing ==
    /\ pc = "ring"
    /\ Rename("ring", cur)
    /\ anchorOf' = [anchorOf EXCEPT ![cur] = anchor]
    /\ rowsIn' = [rowsIn EXCEPT ![cur] = size]
    /\ UNCHANGED <<cur, stepOf, positions, published, committed>>

\* Mutant: the sidecar's rename is not made durable before the manifest's.
WriteSidecar_NoFsync ==
    /\ pc = "sidecar"
    /\ dir' = dir \cup {<<"side", cur>>} /\ wrote' = "side" /\ pc' = "manifest"
    /\ positions' = [positions EXCEPT ![cur] = size]
    /\ UNCHANGED <<disk, mode, victims, victim, runVars, cur, stepOf, rowsIn,
                   anchorOf, published, committed>>

\* positions is buffer.size, read again once the ring file has been hashed.
WriteSidecar ==
    /\ pc = "sidecar"
    /\ Rename("side", cur)
    /\ positions' = [positions EXCEPT ![cur] = size]
    /\ UNCHANGED <<cur, stepOf, rowsIn, anchorOf, published, committed>>

WriteManifest ==
    /\ pc = "manifest"
    /\ Rename("bundle", cur)
    /\ published' = published \cup {cur}
    /\ UNCHANGED <<cur, stepOf, rowsIn, positions, anchorOf, committed>>

\* The saving leg at rest.
Rest ==
    mode' = "periodic" /\ cur' = Unused /\ wrote' = "ckpt" /\ victims' = {} /\ victim' = Unused

\* The leg is over: back to training, or out of the loop.
LegEnds == IF mode = "periodic" THEN pc' = "train" /\ Rest ELSE pc' = "exit" /\ UNCHANGED saveVars

\* persist_resume_state declines on an abort, and a clean completion never
\* calls it: the checkpoint stays without a bundle.
Declines == mode = "clean" \/ abort

FsyncDir ==
    /\ pc = "fsync"
    /\ disk' = dir
    /\ IF wrote = "ckpt" /\ Declines
         THEN LegEnds
         ELSE /\ pc' = CASE wrote = "ckpt" -> "ring"
                         [] wrote = "ring" -> "sidecar"
                         [] wrote = "side" -> "manifest"
                         [] wrote = "bundle" -> "prune"
              /\ UNCHANGED saveVars
    /\ committed' = committed \cup Manifests(dir)
    /\ UNCHANGED <<dir, stepOf, rowsIn, positions, anchorOf, published, runVars>>

-----------------------------------------------------------------------------
(* Retention: prune_bundles, one unlink at a time *)

BeginPrune ==
    /\ pc = "prune"
    /\ victims' = Surplus
    /\ pc' = IF victims' = {} THEN "report" ELSE "unlink"
    /\ UNCHANGED <<diskVars, metaVars, mode, cur, wrote, victim, runVars>>

\* Manifests the glob can return first for a bundle of step s.
ManifestsAt(s) == {f \in dir : f[1] = "bundle" /\ stepOf[f[2]] = s}

\* The oldest victim's manifest goes first.  It is looked up by step, in the
\* directory's own order; each victim removes one, so there is one to find.
UnlinkManifest ==
    /\ pc = "unlink"
    /\ \E v \in victims :
         /\ \A w \in victims \ {v} : Newer(w, v)
         /\ victim' = v
         /\ \E f \in ManifestsAt(stepOf[v]) : dir' = dir \ {f}
    /\ pc' = "unlinkring"
    /\ UNCHANGED <<disk, metaVars, mode, cur, wrote, victims, runVars>>

UnlinkRing ==
    /\ pc = "unlinkring"
    /\ dir' = dir \ {<<"ring", victim>>}
    /\ pc' = "unlinkside"
    /\ UNCHANGED <<disk, metaVars, saveVars, runVars>>

UnlinkSidecar ==
    /\ pc = "unlinkside"
    /\ dir' = dir \ {<<"side", victim>>}
    /\ victims' = victims \ {victim}
    /\ pc' = IF victims' = {} THEN "report" ELSE "unlink"
    /\ UNCHANGED <<disk, metaVars, mode, cur, wrote, victim, runVars>>

\* The process is gone, and with it all it held in memory.
Down ==
    /\ pc' = "down" /\ Rest
    /\ step' = 0 /\ size' = 0 /\ round' = FALSE /\ stop' = FALSE /\ abort' = FALSE

\* The publisher reads its manifest back for its event; an absent one raises
\* and the run dies with it.
Report ==
    /\ pc = "report"
    /\ IF <<"bundle", cur>> \in dir THEN LegEnds /\ UNCHANGED liveVars ELSE Down
    /\ UNCHANGED <<diskVars, metaVars, anchor, launches, stopped>>

-----------------------------------------------------------------------------
(* How a process ends *)

\* close_out: a resumable stop abandons the round in flight, every other end
\* drains it and then runs the terminal evaluation, which may promote too.
Exit ==
    /\ pc = "exit"
    /\ Down
    /\ stopped' = IF mode = "stop" /\ ~abort THEN cur ELSE Unused
    /\ \/ anchor' = anchor
       \/ /\ round \/ ~stop \/ abort
          /\ anchor < MaxAnchor /\ anchor' = anchor + 1
    /\ UNCHANGED <<diskVars, metaVars, launches>>

\* A second signal, a kill, or an exception the saving leg lets through.
Crash ==
    /\ pc # "down" /\ Down
    /\ UNCHANGED <<diskVars, metaVars, anchor, launches, stopped>>

\* Any part of the entries changed since the last fsync survives.
PowerLoss ==
    /\ \E lost \in SUBSET ((dir \ disk) \cup (disk \ dir)) :
         dir' = (dir \cup (disk \cap lost)) \ (lost \ disk)
    /\ disk' = dir'
    /\ committed' = committed \cup Manifests(dir')
    /\ Down
    /\ UNCHANGED <<stepOf, rowsIn, positions, anchorOf, published, anchor, launches, stopped>>

Next ==
    \/ FreshLaunch
    \/ \E c \in Names : Resume(c) \/ WarmStart(c) \/ SaveCheckpoint(c)
    \/ TrainStep \/ KickEval \/ PollEval \/ Push \/ Signal \/ Abort
    \/ CleanStop \/ SettleForStop \/ WriteRing \/ WriteSidecar \/ WriteManifest
    \/ FsyncDir \/ BeginPrune \/ UnlinkManifest \/ UnlinkRing \/ UnlinkSidecar
    \/ Report \/ Exit \/ Crash \/ PowerLoss

Spec == Init /\ [][Next]_vars

-----------------------------------------------------------------------------
(* Properties *)

\* Type invariant.
TypeOK ==
    /\ dir \subseteq Files /\ disk \subseteq Files
    /\ stepOf \in [Names -> Nat \cup {Unused}]
    /\ rowsIn \in [Names -> 0 .. Capacity]
    /\ positions \in [Names -> 0 .. Capacity]
    /\ anchorOf \in [Names -> Nat]
    /\ committed \subseteq published /\ published \subseteq Names
    /\ pc \in {"down", "train", "save", "fsync", "ring", "sidecar", "manifest",
               "prune", "unlink", "unlinkring", "unlinkside", "report", "exit"}
    /\ mode \in {"periodic", "stop", "clean"}
    /\ cur \in Names \cup {Unused} /\ wrote \in Kinds
    /\ victims \subseteq Names /\ victim \in Names \cup {Unused}
    /\ step \in Nat /\ size \in 0 .. Capacity
    /\ round \in BOOLEAN /\ stop \in BOOLEAN /\ abort \in BOOLEAN
    /\ anchor \in Nat /\ launches \in Nat
    /\ stopped \in Names \cup {Unused}

\* A bundle retention owes the run: no other bundle was ever published at its
\* step, and fewer than Keep were published at a later one.
Owed(c) ==
    /\ c \in published
    /\ \A d \in published \ {c} : stepOf[d] # stepOf[c]
    /\ Cardinality({d \in published : stepOf[d] > stepOf[c]}) < Keep

\* Whatever crashes, power losses and prunes follow, a bundle whose manifest
\* became durable stays complete for as long as retention owes it.
RetainedSurvives == \A c \in committed : Owed(c) => Of(c) \subseteq dir

\* The fsync order of publish_bundle: no power loss can keep the manifest of an
\* owed bundle and lose a member it certifies.
ManifestCertifies ==
    \A c \in Names :
      Owed(c) /\ <<"bundle", c>> \in dir \cup disk => Members(c) \subseteq dir \cap disk

\* The point of a resumable stop: its own bundle is taken back by the next
\* launch, whatever promotions the settled round made, as long as retention
\* owes it and no row arrived between the ring's write and the sidecar's.
StopResumes ==
    \A c \in Names :
      c = stopped /\ Owed(c) /\ rowsIn[c] = positions[c] => Resumable(c)

\* bundle.py: an incomplete bundle is skipped, since "the alternative is
\* offering a resume point that fails on read".  A complete bundle of the
\* incumbent in force is one a resume takes.  The code does not keep this, and
\* no run checks it (README, Observations): step.py:319 counts the sidecar's rows
\* after the ring file was written.
CompleteResumes == \A c \in Complete : anchorOf[c] = anchor => Resumable(c)

\* step.py: _BUNDLES_RETAINED complete bundles are kept; once that many have
\* been committed there are never fewer.  The code does not keep this, and no run
\* checks it (README, Observations): bundle.py:338 finds manifests by step.
RetainsKeep == Cardinality(committed) >= Keep => Cardinality(Complete) >= Keep

\* persist_resume_state "makes checkpoint_path resumable": when a resumable stop
\* has ended, the bundle of its own checkpoint is complete.
StopLeavesBundle == stopped # Unused => stopped \in Complete

=============================================================================
