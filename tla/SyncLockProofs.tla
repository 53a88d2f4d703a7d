--------------------------- MODULE SyncLockProofs ---------------------------
(***************************************************************************)
(* What the lock protocol guarantees for any number of workers and         *)
(* processes.  The argument rests on one relation between the path and the *)
(* program counters: a worker that holds the lock and was not evicted is   *)
(* the creator of the file now at the path.                                *)
(***************************************************************************)
EXTENDS SyncLock, TLAPS

\* The file at the path belongs to every holder that was not evicted.
HolderOwnsFile ==
    \A w \in Workers :
        Holds(w) /\ w \notin evicted => lockFile # NoFile /\ lockFile.creator = w

\* Until a process dies or a pid-less file grows old, nobody judges a lock stale.
NothingStale ==
    /\ \A w \in Workers : pc[w] = "probe" => seen[w] \in Pids
    /\ lockFile # NoFile /\ lockFile.expired => outlived
    /\ (\A p \in Pids : proc[p] = "running") /\ ~outlived =>
          evicted = {} /\ \A w \in Workers : pc[w] # "reclaim"

\* The steps preserve the types: every assignment stays in its range.
THEOREM TypeCorrect == Spec => []TypeOK
<1>1. Init => TypeOK
  BY ProcessAssumption DEF Init, TypeOK, Steps
<1>2. TypeOK /\ [Next]_vars => TypeOK'
  <2> SUFFICES ASSUME TypeOK, [Next]_vars PROVE TypeOK'
    OBVIOUS
  <2> USE ProcessAssumption DEF TypeOK, Steps, Goto, CreateNew, RemoveLockFile, LockFile
  <2>1. ASSUME NEW w \in Workers, AcquireFirst(w) PROVE TypeOK'
    BY <2>1 DEF AcquireFirst
  <2>2. ASSUME NEW w \in Workers, FindTaken(w) PROVE TypeOK'
    BY <2>2 DEF FindTaken
  <2>3. ASSUME NEW w \in Workers, ReadOwner(w) PROVE TypeOK'
    BY <2>3 DEF ReadOwner
  <2>4. ASSUME NEW w \in Workers, ProbeOwner(w) PROVE TypeOK'
    BY <2>4 DEF ProbeOwner
  <2>5. ASSUME NEW w \in Workers, CheckAge(w) PROVE TypeOK'
    BY <2>5 DEF CheckAge
  <2>6. ASSUME NEW w \in Workers, Reclaim(w) PROVE TypeOK'
    BY <2>6 DEF Reclaim
  <2>7. ASSUME NEW w \in Workers, AcquireRetry(w) PROVE TypeOK'
    BY <2>7 DEF AcquireRetry
  <2>8. ASSUME NEW w \in Workers, GiveUp(w) PROVE TypeOK'
    BY <2>8 DEF GiveUp
  <2>9. ASSUME NEW w \in Workers, Stamp(w) PROVE TypeOK'
    BY <2>9 DEF Stamp
  <2>10. ASSUME NEW w \in Workers, Release(w) PROVE TypeOK'
    BY <2>10 DEF Release
  <2>11. ASSUME NEW p \in Pids, Die(p) PROVE TypeOK'
    BY <2>11 DEF Die
  <2>12. ASSUME NEW p \in Pids, ReusePid(p) PROVE TypeOK'
    BY <2>12 DEF ReusePid
  <2>13. CASE Expire
    BY <2>13 DEF Expire
  <2>14. CASE UNCHANGED vars
    BY <2>14 DEF vars
  <2>15. QED
    BY <2>1, <2>2, <2>3, <2>4, <2>5, <2>6, <2>7, <2>8, <2>9, <2>10, <2>11, <2>12,
       <2>13, <2>14 DEF Next, Step
<1>3. QED
  BY <1>1, <1>2, PTL DEF Spec

-----------------------------------------------------------------------------
(* Eviction is the only way to lose the file while holding the lock.       *)

LEMMA HolderOwnsFileInit == Init => HolderOwnsFile
  BY DEF Init, HolderOwnsFile, Holds

\* Creating needs a free path, so nobody unevicted holds; removing evicts the
\* creator if it holds; the other steps leave path and creators alone.
LEMMA HolderOwnsFileStep == TypeOK /\ HolderOwnsFile /\ [Next]_vars => HolderOwnsFile'
<1> SUFFICES ASSUME TypeOK, HolderOwnsFile, [Next]_vars PROVE HolderOwnsFile'
  OBVIOUS
<1> USE ProcessAssumption DEF TypeOK, HolderOwnsFile, Holds, Goto, LockFile
<1>1. ASSUME NEW w \in Workers, AcquireFirst(w) \/ AcquireRetry(w) PROVE HolderOwnsFile'
  <2>1. lockFile = NoFile /\ lockFile' = [creator |-> w, owner |-> Blank, expired |-> FALSE]
    BY <1>1 DEF AcquireFirst, AcquireRetry, CreateNew
  <2>2. lockFile' # NoFile /\ lockFile'.creator = w
    <3>1. [creator |-> w, owner |-> Blank, expired |-> FALSE] \in LockFile
      BY DEF LockFile
    <3>2. QED
      BY <2>1, <3>1, ProcessAssumption
  <2>3. \A v \in Workers : Holds(v) => v \in evicted
    BY <2>1
  <2>4. evicted' = evicted /\ pc' = [pc EXCEPT ![w] = "stamp"]
    BY <1>1 DEF AcquireFirst, AcquireRetry
  <2>5. QED
    BY <2>2, <2>3, <2>4
<1>2. ASSUME NEW w \in Workers, Reclaim(w) \/ Release(w) PROVE HolderOwnsFile'
  BY <1>2 DEF Reclaim, Release, RemoveLockFile
<1>3. ASSUME NEW w \in Workers, Stamp(w) PROVE HolderOwnsFile'
  BY <1>3 DEF Stamp
<1>4. ASSUME NEW w \in Workers,
             FindTaken(w) \/ ReadOwner(w) \/ ProbeOwner(w) \/ CheckAge(w) \/ GiveUp(w)
      PROVE HolderOwnsFile'
  BY <1>4 DEF FindTaken, ReadOwner, ProbeOwner, CheckAge, GiveUp
<1>5. ASSUME NEW p \in Pids, Die(p) PROVE HolderOwnsFile'
  BY <1>5 DEF Die
<1>6. ASSUME NEW p \in Pids, ReusePid(p) PROVE HolderOwnsFile'
  BY <1>6 DEF ReusePid
<1>7. CASE Expire
  BY <1>7 DEF Expire
<1>8. CASE UNCHANGED vars
  BY <1>8 DEF vars
<1>9. QED
  BY <1>1, <1>2, <1>3, <1>4, <1>5, <1>6, <1>7, <1>8 DEF Next, Step

LEMMA HolderOwnsFileInvariant == Spec => []HolderOwnsFile
  BY TypeCorrect, HolderOwnsFileInit, HolderOwnsFileStep, PTL DEF Spec

\* Of two workers past the creation of the lock, one was evicted: the creation
\* with O_EXCL does exclude, and only the removal of a live lock defeats it.
THEOREM EvictionIsTheOnlyHole == Spec => []ExclusiveUnlessEvicted
<1>1. HolderOwnsFile => ExclusiveUnlessEvicted
  BY DEF HolderOwnsFile, ExclusiveUnlessEvicted
<1>2. QED
  BY <1>1, HolderOwnsFileInvariant, PTL

\* Drop removes the path without looking: it hits another worker's lock only if
\* its own lock was removed before.
THEOREM DropPassesEvictionOn == Spec => DropHarmsOnlyIfEvicted
<1>1. TypeOK /\ HolderOwnsFile =>
        [\A w \in Workers : Release(w) /\ w \notin evicted => evicted' \subseteq evicted]_vars
  <2> SUFFICES ASSUME TypeOK, HolderOwnsFile, NEW w \in Workers, Release(w), w \notin evicted
               PROVE evicted' \subseteq evicted
    OBVIOUS
  <2>1. lockFile # NoFile /\ lockFile.creator = w
    BY DEF HolderOwnsFile, Holds, Release
  <2>2. QED
    BY <2>1 DEF Release, RemoveLockFile
<1>2. QED
  BY <1>1, TypeCorrect, HolderOwnsFileInvariant, PTL DEF DropHarmsOnlyIfEvicted

-----------------------------------------------------------------------------
(* Without a death or an outlived file there is no eviction.               *)

LEMMA NothingStaleStep ==
    TypeOK /\ HolderOwnsFile /\ NothingStale /\ [Next]_vars => NothingStale'
<1> SUFFICES ASSUME TypeOK, HolderOwnsFile, NothingStale, [Next]_vars PROVE NothingStale'
  OBVIOUS
<1> USE ProcessAssumption DEF TypeOK, NothingStale, Goto, LockFile
<1>1. ASSUME NEW w \in Workers, AcquireFirst(w) \/ AcquireRetry(w) PROVE NothingStale'
  BY <1>1 DEF AcquireFirst, AcquireRetry, CreateNew
<1>2. ASSUME NEW w \in Workers, FindTaken(w) \/ GiveUp(w) PROVE NothingStale'
  BY <1>2 DEF FindTaken, GiveUp
<1>3. ASSUME NEW w \in Workers, ReadOwner(w) PROVE NothingStale'
  BY <1>3 DEF ReadOwner
<1>4. ASSUME NEW w \in Workers, ProbeOwner(w) PROVE NothingStale'
  BY <1>4 DEF ProbeOwner
<1>5. ASSUME NEW w \in Workers, CheckAge(w) PROVE NothingStale'
  BY <1>5 DEF CheckAge
<1>6. ASSUME NEW w \in Workers, Reclaim(w) PROVE NothingStale'
  BY <1>6 DEF Reclaim, RemoveLockFile
<1>7. ASSUME NEW w \in Workers, Release(w) PROVE NothingStale'
  BY <1>7 DEF Release, RemoveLockFile, HolderOwnsFile, Holds
<1>8. ASSUME NEW w \in Workers, Stamp(w) PROVE NothingStale'
  BY <1>8 DEF Stamp
<1>9. ASSUME NEW p \in Pids, Die(p) \/ ReusePid(p) PROVE NothingStale'
  <2>1. proc'[p] # "running"
    BY <1>9 DEF Die, ReusePid
  <2>2. QED
    BY <1>9, <2>1 DEF Die, ReusePid
<1>10. CASE Expire
  BY <1>10 DEF Expire
<1>11. CASE UNCHANGED vars
  BY <1>11 DEF vars
<1>12. QED
  BY <1>1, <1>2, <1>3, <1>4, <1>5, <1>6, <1>7, <1>8, <1>9, <1>10, <1>11 DEF Next, Step

\* Among live processes whose lock files carry their pids, at most one worker at a
\* time is past acquire.
THEOREM LiveProcessesExclude == Spec => []CrashFreeExclusion
<1>1. Init => NothingStale
  BY ProcessAssumption DEF Init, NothingStale
<1>2. Spec => []NothingStale
  BY <1>1, NothingStaleStep, TypeCorrect, HolderOwnsFileInvariant, PTL DEF Spec
<1>3. HolderOwnsFile /\ NothingStale => CrashFreeExclusion
  BY DEF HolderOwnsFile, NothingStale, CrashFreeExclusion, OneWriter, Holds
<1>4. QED
  BY <1>2, <1>3, HolderOwnsFileInvariant, PTL
=============================================================================
