---------------------------- MODULE CyclesProofs ----------------------------
(***************************************************************************)
(* Tarjan's algorithm, on every call graph.  The argument: every file on   *)
(* the stack reaches a file with a frame that was entered no later         *)
(* (ReachesFrame), which reaches all that was entered after it             *)
(* (FrameReaches); and no call leads below a frame's low link              *)
(* (LowBounds).  So where a frame's low link is its own index, nothing     *)
(* leads out of what lies above it on the stack except into components     *)
(* that are complete.                                                      *)
(***************************************************************************)
EXTENDS Queries, FiniteSetTheorems, Induction, TLAPS

-----------------------------------------------------------------------------
(* Reachability.                                                           *)

Leaving(S) == UNION {Neighbors(g) : g \in S}

Closed(S) == \A g \in S : Neighbors(g) \subseteq S

IsReach(reach, f) ==
    reach = [n \in 0..Cardinality(Files) |->
               IF n = 0 THEN {f}
               ELSE LET nearer == reach[n - 1] IN nearer \union UNION {Neighbors(g) : g \in nearer}]

LEMMA NeighborsType ==
    ASSUME calls \subseteq Sites
    PROVE  \A f : Neighbors(f) \subseteq Files
<1>1. \A e \in calls : FileOf[e.target] \in Files
  BY GraphAssumption
<1> QED
  BY <1>1 DEF Neighbors

LEMMA FilesCount == IsFiniteSet(Files) /\ Cardinality(Files) \in Nat
  BY GraphAssumption, FS_CardinalityType

LEMMA ReachExists ==
    ASSUME calls \subseteq Sites, NEW f \in Files
    PROVE  \E reach : IsReach(reach, f)
<1> DEFINE N == Cardinality(Files)
           V == SUBSET Files
           next(u) == u \union UNION {Neighbors(g) : g \in u}
           step == [i \in 1..N |-> [u \in V |-> next(u)]]
<1>1. \A u \in V : next(u) \in V
  BY NeighborsType
<1>2. step \in [1..N -> [V -> V]] /\ \A i \in 1..N, u \in V : step[i][u] = next(u)
  <2> HIDE DEF next
  <2> QED
    BY <1>1
<1>3. {f} \in V /\ N \in Nat
  BY FilesCount
<1> HIDE DEF step, V, N, next
<1>4. PICK reach \in [0..N -> V] : RunsBy(reach, N, {f}, step)
  BY <1>2, <1>3, Recursion
<1>5. \A i \in 0..N : reach[i] = IF i = 0 THEN {f} ELSE next(reach[i - 1])
  <2>1. reach[0] = {f}
    BY <1>4 DEF RunsBy
  <2>2. ASSUME NEW i \in 1..N PROVE reach[i] = next(reach[i - 1])
    <3>1. reach[i - 1] \in V
      BY <1>3, <1>4
    <3> QED
      BY <1>2, <1>4, <3>1 DEF RunsBy
  <2> QED
    BY <1>3, <2>1, <2>2
<1>6. reach = [i \in 0..N |-> IF i = 0 THEN {f} ELSE next(reach[i - 1])]
  BY <1>4, <1>5
<1>7. IsReach(reach, f)
  BY <1>6 DEF IsReach, N, next
<1> QED
  BY <1>7

LEMMA ReachedIsReach ==
    ASSUME calls \subseteq Sites, NEW f \in Files
    PROVE  \E reach : IsReach(reach, f) /\ ReachedFrom(f) = reach[Cardinality(Files)]
<1> DEFINE reach == CHOOSE r : IsReach(r, f)
<1>1. IsReach(reach, f)
  BY ReachExists
<1>2. ReachedFrom(f) = reach[Cardinality(Files)]
  BY DEF ReachedFrom, IsReach
<1> QED
  BY <1>1, <1>2

\* As many steps as there are files lead everywhere: a step that adds nothing ends the
\* search, and each one before it has added a file.
LEMMA ReachedFromIsLeast ==
    ASSUME calls \subseteq Sites, NEW f \in Files
    PROVE  /\ f \in ReachedFrom(f) /\ ReachedFrom(f) \subseteq Files
           /\ Closed(ReachedFrom(f))
           /\ \A S : f \in S /\ Closed(S) => ReachedFrom(f) \subseteq S
<1> DEFINE N == Cardinality(Files)
<1>1. PICK reach : IsReach(reach, f) /\ ReachedFrom(f) = reach[N]
  BY ReachedIsReach
<1>2. reach[0] = {f} /\ \A k \in 1..N : reach[k] = reach[k - 1] \union Leaving(reach[k - 1])
  <2>1. N \in Nat
    BY FilesCount
  <2> HIDE DEF N
  <2>2. reach = [n \in 0..N |-> IF n = 0 THEN {f} ELSE reach[n - 1] \union Leaving(reach[n - 1])]
    BY <1>1 DEF IsReach, Leaving, N
  <2>3. reach[0] = {f}
    BY <2>1, <2>2
  <2>4. ASSUME NEW k \in 1..N PROVE reach[k] = reach[k - 1] \union Leaving(reach[k - 1])
    <3>1. k \in 0..N /\ k # 0
      BY <2>1
    <3> QED
      BY <2>2, <3>1
  <2> QED
    BY <2>3, <2>4
<1>3. N \in Nat
  BY FilesCount
<1> HIDE DEF N
<1>4. ASSUME NEW S, f \in S, Closed(S) PROVE reach[N] \subseteq S
  <2> DEFINE P == {k \in 0..N : reach[k] \subseteq S}
  <2>1. 0 \in P
    BY <1>2, <1>3, <1>4
  <2>2. ASSUME NEW k \in 1..N, k - 1 \in P PROVE k \in P
    <3>1. Leaving(reach[k - 1]) \subseteq S
      BY <1>4, <2>2 DEF Leaving, Closed
    <3> QED
      BY <1>2, <2>2, <3>1
  <2>3. P = 0..N
    <3> HIDE DEF P
    <3>1. P \subseteq 0..N
      BY DEF P
    <3> QED
      BY <1>3, <2>1, <2>2, <3>1, Stepwise
  <2> QED
    BY <1>3, <2>3
<1>5. Closed(Files)
  BY NeighborsType DEF Closed
<1> DEFINE P == {k \in 0..N : /\ f \in reach[k] /\ reach[k] \subseteq Files
                              /\ Closed(reach[k]) \/ Cardinality(reach[k]) > k}
<1>6. P = 0..N
  <2>1. 0 \in P
    <3>1. Cardinality({f}) = 1
      BY FS_Singleton
    <3> QED
      BY <1>2, <1>3, <3>1
  <2>2. ASSUME NEW k \in 1..N, k - 1 \in P PROVE k \in P
    <3> DEFINE near == reach[k - 1]
               far == reach[k]
    <3>1. far = near \union Leaving(near)
      BY <1>2
    <3>2. f \in near /\ near \subseteq Files /\ (Closed(near) \/ Cardinality(near) > k - 1)
      BY <2>2
    <3> HIDE DEF near, far
    <3>3. Leaving(near) \subseteq Files
      BY NeighborsType DEF Leaving
    <3>4. f \in far /\ far \subseteq Files
      BY <3>1, <3>2, <3>3
    <3>5. CASE Closed(near)
      <4>1. Leaving(near) \subseteq near
        BY <3>5 DEF Leaving, Closed
      <4>2. far = near
        BY <3>1, <4>1
      <4> QED
        BY <3>4, <3>5, <4>2 DEF far
    <3>6. CASE ~Closed(near)
      <4>1. far # near /\ near \subseteq far
        BY <3>1, <3>6 DEF Leaving, Closed
      <4>2. IsFiniteSet(far) /\ IsFiniteSet(near)
        BY <3>2, <3>4, FilesCount, FS_Subset
      <4>3. near \in SUBSET far
        BY <4>1
      <4>4. Cardinality(near) <= Cardinality(far) /\ Cardinality(far) # Cardinality(near)
        BY <4>1, <4>2, <4>3, FS_Subset
      <4>5. Cardinality(near) \in Nat /\ Cardinality(far) \in Nat
        BY <4>2, FS_CardinalityType
      <4>6. Cardinality(far) > k
        BY <1>3, <3>2, <3>6, <4>4, <4>5
      <4> QED
        BY <3>4, <4>6 DEF far
    <3> QED
      BY <3>5, <3>6
  <2> HIDE DEF P
  <2>3. P \subseteq 0..N
    BY DEF P
  <2> QED
    BY <1>3, <2>1, <2>2, <2>3, Stepwise
<1>7. /\ f \in reach[N] /\ reach[N] \subseteq Files
      /\ Closed(reach[N]) \/ Cardinality(reach[N]) > N
  BY <1>3, <1>6
<1>8. ~(Cardinality(reach[N]) > N)
  <2>1. reach[N] \in SUBSET Files
    BY <1>7
  <2>2. Cardinality(reach[N]) <= N /\ IsFiniteSet(reach[N])
    BY <2>1, FilesCount, FS_Subset DEF N
  <2>3. Cardinality(reach[N]) \in Nat
    BY <2>2, FS_CardinalityType
  <2> QED
    BY <1>3, <2>2, <2>3
<1> QED
  BY <1>1, <1>4, <1>7, <1>8

LEMMA Reaching ==
    ASSUME calls \subseteq Sites, NEW f \in Files
    PROVE  /\ f \in ReachedFrom(f) /\ ReachedFrom(f) \subseteq Files
           /\ \A g \in Neighbors(f) : g \in ReachedFrom(f)
           /\ \A g \in ReachedFrom(f) : ReachedFrom(g) \subseteq ReachedFrom(f)
<1>1. f \in ReachedFrom(f) /\ ReachedFrom(f) \subseteq Files /\ Closed(ReachedFrom(f))
  BY ReachedFromIsLeast
<1>2. \A g \in Neighbors(f) : g \in ReachedFrom(f)
  BY <1>1 DEF Closed
<1>3. ASSUME NEW g \in ReachedFrom(f) PROVE ReachedFrom(g) \subseteq ReachedFrom(f)
  BY <1>1, <1>3, ReachedFromIsLeast
<1> QED
  BY <1>1, <1>2, <1>3

-----------------------------------------------------------------------------
(* The invariant.                                                          *)

Done(f) == \E i \in DOMAIN components : f \in components[i]

SearchTypes ==
    /\ calls \subseteq Sites
    /\ index \in [Files -> Nat \union {NoIndex}] /\ lowLink \in [Files -> Nat]
    /\ stack \in Seq(Files)
    /\ work \in Seq([node : Files, left : SUBSET Files])
    /\ components \in Seq(SUBSET Files)

\* Files are numbered as they are entered.
InTurn == \A f \in Files : Entered(f) => f \in Nodes /\ index[f] \in Nat /\ index[f] < NextIndex

StackRises ==
    /\ \A i \in DOMAIN stack : Entered(stack[i])
    /\ \A i, j \in DOMAIN stack : i < j => index[stack[i]] < index[stack[j]]

\* A file that was entered is on the stack or in a component, and never in two places.
EachInItsPlace ==
    /\ \A f \in Files : Entered(f) <=> OnStack(f) \/ Done(f)
    /\ \A f \in Files : ~(OnStack(f) /\ Done(f))
    /\ \A i \in DOMAIN components : components[i] # {}
    /\ \A i, j \in DOMAIN components : \A f \in Files : f \in components[i] /\ f \in components[j] => i = j

\* Each frame is for a neighbour of the one below.
FramesRise ==
    /\ \A k \in DOMAIN work : OnStack(work[k].node) /\ work[k].left \subseteq Neighbors(work[k].node)
    /\ \A k, l \in DOMAIN work : k < l => index[work[k].node] < index[work[l].node]
    /\ \A k \in DOMAIN work : k > 1 => work[k].node \in Neighbors(work[k - 1].node)

StillLeft(f, g) == \E k \in DOMAIN work : work[k].node = f /\ g \in work[k].left

VisitedEntered ==
    \A f \in Files : Entered(f) => \A g \in Neighbors(f) : Entered(g) \/ StillLeft(f, g)

\* Complete components lead to no others but those found before.
DoneIsClosed ==
    \A i \in DOMAIN components : \A f \in components[i] :
        /\ \A g \in Neighbors(f) : \E j \in DOMAIN components : j <= i /\ g \in components[j]
        /\ components[i] \subseteq ReachedFrom(f)

LowIsReached ==
    \A f \in Files : OnStack(f) =>
        /\ lowLink[f] <= index[f]
        /\ \E g \in Files : OnStack(g) /\ g \in ReachedFrom(f) /\ index[g] = lowLink[f]

ReachesFrame ==
    \A f \in Files : OnStack(f) =>
        \E k \in DOMAIN work : work[k].node \in ReachedFrom(f) /\ index[work[k].node] <= index[f]

FrameReaches ==
    \A k \in DOMAIN work : \A f \in Files :
        OnStack(f) /\ index[f] >= index[work[k].node] => f \in ReachedFrom(work[k].node)

\* From the files between a frame and the next, calls that were followed lead to nothing
\* on the stack below the frame's low link.
LowBounds ==
    \A k \in DOMAIN work : \A f \in Files :
        (/\ OnStack(f) /\ index[f] >= index[work[k].node]
         /\ k < Len(work) => index[f] < index[work[k + 1].node]) =>
            \A g \in Neighbors(f) :
                OnStack(g) /\ ~(f = work[k].node /\ g \in work[k].left) => index[g] >= lowLink[work[k].node]

SearchInv ==
    /\ SearchTypes /\ InTurn /\ StackRises /\ EachInItsPlace /\ FramesRise /\ VisitedEntered
    /\ DoneIsClosed /\ LowIsReached /\ ReachesFrame /\ FrameReaches /\ LowBounds

LEMMA SameCalls ==
    ASSUME calls' = calls
    PROVE  /\ \A f : Neighbors(f)' = Neighbors(f)
           /\ Nodes' = Nodes
           /\ \A f : ReachedFrom(f)' = ReachedFrom(f)
<1>1. \A f : Neighbors(f)' = Neighbors(f)
  BY DEF Neighbors
<1>2. Nodes' = Nodes
  BY <1>1 DEF Nodes
<1>3. \A f : ReachedFrom(f)' = ReachedFrom(f)
  BY DEF ReachedFrom, Neighbors
<1> QED
  BY <1>1, <1>2, <1>3

\* On the stack an index names a file.
LEMMA IndexNames ==
    ASSUME SearchTypes, StackRises, NEW f \in Files, NEW g \in Files, OnStack(f), OnStack(g)
    PROVE  /\ Entered(f) /\ index[f] \in Nat
           /\ index[f] = index[g] => f = g
<1>1. PICK i \in DOMAIN stack : stack[i] = f
  BY DEF OnStack
<1>2. PICK j \in DOMAIN stack : stack[j] = g
  BY DEF OnStack
<1>3. Entered(f) /\ Entered(g)
  BY <1>1, <1>2 DEF StackRises
<1>4. index[f] \in Nat /\ index[g] \in Nat
  BY <1>3 DEF SearchTypes, Entered
<1>5. i \in Nat /\ j \in Nat
  BY <1>1, <1>2 DEF SearchTypes
<1>6. (i < j => index[f] < index[g]) /\ (j < i => index[g] < index[f])
  BY <1>1, <1>2 DEF StackRises
<1> QED
  BY <1>1, <1>2, <1>3, <1>4, <1>5, <1>6

Frames == [node : Files, left : SUBSET Files]

-----------------------------------------------------------------------------
(* A file is entered.                                                      *)

LEMMA EnterEffect ==
    ASSUME SearchInv, calls' = calls, components' = components,
           NEW g \in Files, g \in Nodes, ~Entered(g), NEW frames \in Seq(Frames), Enter(g, frames)
    PROVE  /\ SearchTypes'
           /\ NextIndex \in Nat /\ NextIndex' = NextIndex + 1
           /\ index'[g] = NextIndex /\ lowLink'[g] = NextIndex
           /\ \A f \in Files : f # g => index'[f] = index[f] /\ lowLink'[f] = lowLink[f]
           /\ \A f \in Files : (Entered(f)' <=> Entered(f) \/ f = g) /\ (OnStack(f)' <=> OnStack(f) \/ f = g)
           /\ ~OnStack(g) /\ \A f \in Files : Done(f)' <=> Done(f)
           /\ stack' = Append(stack, g)
           /\ Len(work') = Len(frames) + 1 /\ DOMAIN work' = 1..(Len(frames) + 1)
           /\ \A k \in 1..Len(frames) : work'[k] = frames[k]
           /\ work'[Len(frames) + 1] = [node |-> g, left |-> Neighbors(g)]
<1>1. SearchTypes /\ EachInItsPlace
  BY DEF SearchInv
<1>2. NextIndex \in Nat
  <2>1. {f \in Files : Entered(f)} \in SUBSET Files
    OBVIOUS
  <2> QED
    BY <2>1, FilesCount, FS_Subset, FS_CardinalityType DEF NextIndex
<1>3. /\ index' = [index EXCEPT ![g] = NextIndex] /\ lowLink' = [lowLink EXCEPT ![g] = NextIndex]
      /\ stack' = Append(stack, g) /\ work' = Append(frames, [node |-> g, left |-> Neighbors(g)])
  BY DEF Enter
<1>4. /\ index' \in [Files -> Nat \union {NoIndex}] /\ lowLink' \in [Files -> Nat]
      /\ index'[g] = NextIndex /\ lowLink'[g] = NextIndex
      /\ \A f \in Files : f # g => index'[f] = index[f] /\ lowLink'[f] = lowLink[f]
  BY <1>1, <1>2, <1>3 DEF SearchTypes
<1>5. \A f \in Files : Entered(f)' <=> Entered(f) \/ f = g
  BY <1>2, <1>4, CyclesAssumption DEF Entered
<1>6. NextIndex' = NextIndex + 1
  <2> DEFINE S == {f \in Files : Entered(f)}
  <2>1. S' = S \union {g}
    BY <1>5
  <2>2. g \notin S /\ S \in SUBSET Files
    OBVIOUS
  <2>3. NextIndex = Cardinality(S) /\ NextIndex' = Cardinality(S')
    BY DEF NextIndex
  <2> HIDE DEF S
  <2>4. IsFiniteSet(S)
    BY <2>2, FilesCount, FS_Subset
  <2> QED
    BY <2>1, <2>2, <2>3, <2>4, FS_AddElement
<1>7. \A f \in Files : OnStack(f)' <=> OnStack(f) \/ f = g
  <2>1. stack \in Seq(Files)
    BY <1>1 DEF SearchTypes
  <2>2. /\ DOMAIN stack' = 1..(Len(stack) + 1) /\ DOMAIN stack = 1..Len(stack)
        /\ \A i \in 1..Len(stack) : stack'[i] = stack[i]
        /\ stack'[Len(stack) + 1] = g /\ Len(stack) \in Nat
    BY <1>3, <2>1
  <2> QED
    BY <2>2 DEF OnStack
<1>8. \A f \in Files : Done(f)' <=> Done(f)
  BY DEF Done
<1>9. ~OnStack(g)
  BY <1>1 DEF EachInItsPlace
<1>10. /\ Len(work') = Len(frames) + 1 /\ DOMAIN work' = 1..(Len(frames) + 1)
       /\ \A k \in 1..Len(frames) : work'[k] = frames[k]
       /\ work'[Len(frames) + 1] = [node |-> g, left |-> Neighbors(g)]
  BY <1>3
<1>11. SearchTypes'
  <2>1. calls' \subseteq Sites /\ components' \in Seq(SUBSET Files)
    BY <1>1 DEF SearchTypes
  <2>2. stack' \in Seq(Files)
    BY <1>1, <1>3 DEF SearchTypes
  <2>3. [node |-> g, left |-> Neighbors(g)] \in Frames
    BY <1>1, NeighborsType DEF Frames, SearchTypes
  <2>4. work' \in Seq(Frames)
    BY <1>3, <2>3
  <2> QED
    BY <1>4, <2>1, <2>2, <2>4 DEF SearchTypes, Frames
<1> QED
  BY <1>2, <1>3, <1>4, <1>5, <1>6, <1>7, <1>8, <1>9, <1>10, <1>11

\* What does not depend on the frames below.
LEMMA EnterKeeps ==
    ASSUME SearchInv, calls' = calls, components' = components,
           NEW g \in Files, g \in Nodes, ~Entered(g), NEW frames \in Seq(Frames), Enter(g, frames)
    PROVE  InTurn' /\ StackRises' /\ EachInItsPlace' /\ DoneIsClosed' /\ LowIsReached'
<1>1. SearchTypes /\ InTurn /\ StackRises /\ EachInItsPlace /\ DoneIsClosed /\ LowIsReached
  BY DEF SearchInv
<1>2. /\ NextIndex \in Nat /\ NextIndex' = NextIndex + 1
      /\ index'[g] = NextIndex /\ lowLink'[g] = NextIndex
      /\ \A f \in Files : f # g => index'[f] = index[f] /\ lowLink'[f] = lowLink[f]
      /\ \A f \in Files : (Entered(f)' <=> Entered(f) \/ f = g) /\ (OnStack(f)' <=> OnStack(f) \/ f = g)
      /\ ~OnStack(g) /\ \A f \in Files : Done(f)' <=> Done(f)
      /\ stack' = Append(stack, g)
  BY EnterEffect
<1>3. Nodes' = Nodes /\ \A f : Neighbors(f)' = Neighbors(f) /\ ReachedFrom(f)' = ReachedFrom(f)
  BY SameCalls
<1>4. InTurn'
  BY <1>1, <1>2, <1>3 DEF InTurn
<1>5. StackRises'
  <2>1. stack \in Seq(Files)
    BY <1>1 DEF SearchTypes
  <2>2. /\ DOMAIN stack' = 1..(Len(stack) + 1) /\ DOMAIN stack = 1..Len(stack)
        /\ \A i \in 1..Len(stack) : stack'[i] = stack[i] /\ stack[i] \in Files
        /\ stack'[Len(stack) + 1] = g /\ Len(stack) \in Nat
    BY <1>2, <2>1
  <2>3. \A i \in 1..Len(stack) : /\ Entered(stack[i]) /\ stack[i] # g
                                 /\ index'[stack[i]] = index[stack[i]]
                                 /\ index[stack[i]] < NextIndex
    <3> TAKE i \in 1..Len(stack)
    <3>1. OnStack(stack[i]) /\ stack[i] \in Files
      BY <2>2 DEF OnStack
    <3> QED
      BY <1>1, <1>2, <2>2, <3>1 DEF StackRises, InTurn
  <2>4. \A i \in DOMAIN stack' : index'[stack'[i]] # NoIndex
    <3> TAKE i \in DOMAIN stack'
    <3>1. stack'[i] \in Files
      BY <2>2
    <3>2. Entered(stack'[i]) \/ stack'[i] = g
      BY <2>2, <2>3
    <3> QED
      BY <1>2, <3>1, <3>2 DEF Entered
  <2>5. \A i, j \in DOMAIN stack' : i < j => index'[stack'[i]] < index'[stack'[j]]
    <3> TAKE i, j \in DOMAIN stack'
    <3> HAVE i < j
    <3>1. i \in 1..Len(stack)
      BY <2>2
    <3>2. CASE j = Len(stack) + 1
      BY <1>2, <2>2, <2>3, <3>1, <3>2
    <3>3. CASE j # Len(stack) + 1
      BY <1>1, <2>2, <2>3, <3>1, <3>3 DEF StackRises
    <3> QED
      BY <3>2, <3>3
  <2> QED
    BY <2>4, <2>5 DEF StackRises, Entered
<1>6. EachInItsPlace'
  BY <1>1, <1>2 DEF EachInItsPlace, Done
<1>7. DoneIsClosed'
  BY <1>1, <1>3 DEF DoneIsClosed
<1>8. LowIsReached'
  <2> SUFFICES ASSUME NEW f \in Files, OnStack(f)'
               PROVE  /\ lowLink'[f] <= index'[f]
                      /\ \E h \in Files : OnStack(h)' /\ h \in ReachedFrom(f) /\ index'[h] = lowLink'[f]
    BY <1>3 DEF LowIsReached
  <2>1. CASE f = g
    <3>1. g \in ReachedFrom(g)
      BY <1>1, Reaching DEF SearchTypes
    <3> QED
      BY <1>2, <2>1, <3>1
  <2>2. CASE f # g
    <3>1. OnStack(f)
      BY <1>2, <2>2
    <3>2. PICK h \in Files : OnStack(h) /\ h \in ReachedFrom(f) /\ index[h] = lowLink[f]
      BY <1>1, <3>1 DEF LowIsReached
    <3>3. h # g
      BY <1>2, <3>2
    <3> QED
      BY <1>1, <1>2, <2>2, <3>1, <3>2, <3>3 DEF LowIsReached
  <2> QED
    BY <2>1, <2>2
<1> QED
  BY <1>4, <1>5, <1>6, <1>7, <1>8

LEMMA StartSearchKeeps ==
    ASSUME SearchInv, calls' = calls, StartSearch
    PROVE  SearchInv'
<1>1. PICK g \in Nodes : ~Entered(g) /\ Enter(g, <<>>)
  BY DEF StartSearch
<1>2. g \in Files /\ components' = components /\ work = <<>> /\ <<>> \in Seq(Frames)
  BY <1>1 DEF StartSearch, Nodes
<1>3. /\ SearchTypes'
      /\ index'[g] = NextIndex /\ lowLink'[g] = NextIndex /\ NextIndex \in Nat
      /\ \A f \in Files : f # g => index'[f] = index[f]
      /\ \A f \in Files : (Entered(f)' <=> Entered(f) \/ f = g) /\ (OnStack(f)' <=> OnStack(f) \/ f = g)
      /\ Len(work') = 1 /\ DOMAIN work' = 1..1 /\ work'[1] = [node |-> g, left |-> Neighbors(g)]
  <2> DEFINE none == <<>>
  <2>1. none \in Seq(Frames) /\ Len(none) = 0 /\ Enter(g, none)
    BY <1>1, <1>2
  <2> HIDE DEF none
  <2>2. /\ SearchTypes'
        /\ index'[g] = NextIndex /\ lowLink'[g] = NextIndex /\ NextIndex \in Nat
        /\ \A f \in Files : f # g => index'[f] = index[f]
        /\ \A f \in Files : (Entered(f)' <=> Entered(f) \/ f = g) /\ (OnStack(f)' <=> OnStack(f) \/ f = g)
    BY <1>1, <1>2, <2>1, EnterEffect
  <2>3. /\ Len(work') = Len(none) + 1 /\ DOMAIN work' = 1..(Len(none) + 1)
        /\ work'[Len(none) + 1] = [node |-> g, left |-> Neighbors(g)]
    BY <1>1, <1>2, <2>1, EnterEffect
  <2> QED
    BY <2>1, <2>2, <2>3
<1>4. InTurn' /\ StackRises' /\ EachInItsPlace' /\ DoneIsClosed' /\ LowIsReached'
  BY <1>1, <1>2, EnterKeeps
<1>5. Nodes' = Nodes /\ \A f : Neighbors(f)' = Neighbors(f) /\ ReachedFrom(f)' = ReachedFrom(f)
  BY SameCalls
<1>6. \A f \in Files : ~OnStack(f)
  BY <1>2 DEF SearchInv, ReachesFrame
<1>7. \A k \in DOMAIN work' : k = 1 /\ work'[k].node = g /\ work'[k].left = Neighbors(g)
  BY <1>3
<1>8. FramesRise'
  BY <1>3, <1>5, <1>7, <1>2 DEF FramesRise
<1>9. VisitedEntered'
  <2> SUFFICES ASSUME NEW f \in Files, Entered(f)', NEW h \in Neighbors(f)
               PROVE  Entered(h)' \/ StillLeft(f, h)'
    BY <1>5 DEF VisitedEntered
  <2>1. CASE f = g
    <3>1. 1 \in DOMAIN work' /\ work'[1].node = f /\ h \in work'[1].left
      BY <1>3, <2>1
    <3> QED
      BY <3>1 DEF StillLeft
  <2>2. CASE f # g
    <3>1. ~StillLeft(f, h)
      BY <1>2 DEF StillLeft
    <3>2. Entered(f)
      BY <1>3, <2>2
    <3>3. Entered(h) /\ h \in Files
      BY <3>1, <3>2, NeighborsType DEF SearchInv, SearchTypes, VisitedEntered
    <3> QED
      BY <1>3, <3>3
  <2> QED
    BY <2>1, <2>2
<1>10. g \in ReachedFrom(g)
  BY <1>2, Reaching DEF SearchInv, SearchTypes
<1>11. ReachesFrame'
  BY <1>3, <1>5, <1>6, <1>10 DEF ReachesFrame
<1>12. FrameReaches'
  BY <1>3, <1>5, <1>6, <1>7, <1>10 DEF FrameReaches
<1>13. LowBounds'
  BY <1>3, <1>5, <1>6, <1>7 DEF LowBounds
<1> QED
  BY <1>3, <1>4, <1>8, <1>9, <1>11, <1>12, <1>13 DEF SearchInv

LEMMA VisitedEffect ==
    ASSUME work \in Seq(Frames), work # <<>>, NEW g
    PROVE  /\ Len(work) \in Nat \ {0} /\ DOMAIN work = 1..Len(work) /\ Frame = work[Len(work)]
           /\ Visited(g) \in Seq(Frames)
           /\ Len(Visited(g)) = Len(work) /\ DOMAIN Visited(g) = DOMAIN work
           /\ \A k \in DOMAIN work : Visited(g)[k].node = work[k].node
           /\ \A k \in 1..(Len(work) - 1) : Visited(g)[k] = work[k]
           /\ Visited(g)[Len(work)].left = work[Len(work)].left \ {g}
<1>1. Len(work) \in Nat \ {0} /\ DOMAIN work = 1..Len(work) /\ Frame = work[Len(work)]
  BY DEF Last, Frame
<1> DEFINE n == Len(work)
           top == work[n]
           less == [node |-> top.node, left |-> top.left \ {g}]
<1>2. top \in Frames
  BY <1>1
<1>3. less \in Frames /\ less = [top EXCEPT !.left = @ \ {g}]
  <2> HIDE DEF top
  <2>1. top.node \in Files /\ top.left \in SUBSET Files
    BY <1>2 DEF Frames
  <2>2. top.left \ {g} \in SUBSET Files
    BY <2>1
  <2>3. less \in Frames
    BY <2>1, <2>2 DEF Frames
  <2>4. [top EXCEPT !.left = @ \ {g}] \in Frames
    BY <1>2, <2>2 DEF Frames
  <2>5. [top EXCEPT !.left = @ \ {g}].node = less.node /\ [top EXCEPT !.left = @ \ {g}].left = less.left
    BY <1>2 DEF Frames
  <2> HIDE DEF less
  <2>6. \A p, q \in Frames : p.node = q.node /\ p.left = q.left => p = q
    BY DEF Frames
  <2> QED
    BY <2>3, <2>4, <2>5, <2>6
<1>4. Visited(g) = [work EXCEPT ![n] = less]
  <2>1. Visited(g) = [work EXCEPT ![n] = [top EXCEPT !.left = @ \ {g}]]
    BY DEF Visited
  <2> HIDE DEF less
  <2> QED
    BY <1>3, <2>1
<1> HIDE DEF less
<1>5. /\ Visited(g) \in Seq(Frames) /\ Len(Visited(g)) = n /\ DOMAIN Visited(g) = DOMAIN work
      /\ Visited(g)[n] = less
      /\ \A k \in 1..(n - 1) : Visited(g)[k] = work[k]
  <2> HIDE DEF top
  <2>1. n \in Nat \ {0} /\ DOMAIN work = 1..n
    BY <1>1
  <2> QED
    BY <1>3, <1>4, <2>1
<1>6. less.node = top.node /\ less.left = top.left \ {g}
  BY DEF less
<1> QED
  BY <1>1, <1>5, <1>6

LEMMA DescendKeeps ==
    ASSUME SearchInv, calls' = calls, NEW g \in Files, Descend(g)
    PROVE  SearchInv'
<1> DEFINE n == Len(work)
           v == work[n].node
<1>1. /\ SearchTypes /\ InTurn /\ StackRises /\ FramesRise /\ VisitedEntered /\ LowIsReached
      /\ ReachesFrame /\ FrameReaches /\ LowBounds
      /\ work \in Seq(Frames)
  BY DEF SearchInv, SearchTypes, Frames
<1>2. /\ work # <<>> /\ g \in Frame.left /\ ~Entered(g) /\ Enter(g, Visited(g)) /\ components' = components
  BY DEF Descend, Searching
<1>3. /\ n \in Nat \ {0} /\ DOMAIN work = 1..n /\ g \in work[n].left
      /\ Visited(g) \in Seq(Frames) /\ Len(Visited(g)) = n
      /\ \A k \in 1..n : Visited(g)[k].node = work[k].node
      /\ \A k \in 1..(n - 1) : Visited(g)[k] = work[k]
      /\ Visited(g)[n].left = work[n].left \ {g}
  BY <1>1, <1>2, VisitedEffect
<1>4. OnStack(v) /\ v \in Files /\ g \in Neighbors(v) /\ index[v] \in Nat /\ Entered(v)
  <2>1. OnStack(v) /\ g \in Neighbors(v)
    BY <1>1, <1>3 DEF FramesRise
  <2>2. v \in Files
    BY <2>1, <1>1 DEF OnStack, SearchTypes
  <2> QED
    BY <1>1, <2>1, <2>2, IndexNames
<1>5. g \in Nodes
  BY <1>4 DEF Nodes
<1>6. /\ SearchTypes'
      /\ NextIndex \in Nat /\ index'[g] = NextIndex
      /\ \A f \in Files : f # g => index'[f] = index[f] /\ lowLink'[f] = lowLink[f]
      /\ \A f \in Files : (Entered(f)' <=> Entered(f) \/ f = g) /\ (OnStack(f)' <=> OnStack(f) \/ f = g)
      /\ ~OnStack(g)
  BY <1>2, <1>3, <1>5, EnterEffect
<1>7. /\ Len(work') = n + 1 /\ DOMAIN work' = 1..(n + 1)
      /\ work'[n + 1] = [node |-> g, left |-> Neighbors(g)]
      /\ \A k \in 1..n : work'[k].node = work[k].node
      /\ \A k \in 1..(n - 1) : work'[k] = work[k]
      /\ work'[n].left = work[n].left \ {g}
  <2>1. /\ Len(work') = Len(Visited(g)) + 1 /\ DOMAIN work' = 1..(Len(Visited(g)) + 1)
        /\ \A k \in 1..Len(Visited(g)) : work'[k] = Visited(g)[k]
        /\ work'[Len(Visited(g)) + 1] = [node |-> g, left |-> Neighbors(g)]
    BY <1>2, <1>3, <1>5, EnterEffect
  <2> DEFINE m == n
             once == Visited(g)
  <2>2. Len(once) = m /\ m \in Nat \ {0} /\ m \in 1..m /\ \A k \in 1..(m - 1) : k \in 1..m
    BY <1>3
  <2>3. /\ Len(work') = Len(once) + 1 /\ DOMAIN work' = 1..(Len(once) + 1)
        /\ \A k \in 1..Len(once) : work'[k] = once[k]
        /\ work'[Len(once) + 1] = [node |-> g, left |-> Neighbors(g)]
    BY <2>1
  <2>4. /\ \A k \in 1..m : once[k].node = work[k].node
        /\ \A k \in 1..(m - 1) : once[k] = work[k]
        /\ once[m].left = work[m].left \ {g}
    BY <1>3
  <2> HIDE DEF m, once
  <2>5. \A k \in 1..m : work'[k] = once[k]
    BY <2>2, <2>3
  <2>6. /\ Len(work') = m + 1 /\ DOMAIN work' = 1..(m + 1)
        /\ work'[m + 1] = [node |-> g, left |-> Neighbors(g)]
        /\ \A k \in 1..m : work'[k].node = work[k].node
        /\ \A k \in 1..(m - 1) : work'[k] = work[k]
        /\ work'[m].left = work[m].left \ {g}
    BY <2>2, <2>3, <2>4, <2>5
  <2> QED
    BY <2>6 DEF m
<1>8. InTurn' /\ StackRises' /\ EachInItsPlace' /\ DoneIsClosed' /\ LowIsReached'
  BY <1>2, <1>3, <1>5, EnterKeeps
<1>9. Nodes' = Nodes /\ \A f : Neighbors(f)' = Neighbors(f) /\ ReachedFrom(f)' = ReachedFrom(f)
  BY SameCalls
<1>10. \A f \in Files : OnStack(f) => f # g /\ index[f] \in Nat /\ index[f] < NextIndex
  BY <1>1, <1>6, IndexNames DEF InTurn
<1>11. ASSUME NEW k \in 1..n
       PROVE  /\ work[k].node \in Files /\ OnStack(work[k].node) /\ work[k].node # g
              /\ work'[k].node = work[k].node /\ index'[work[k].node] = index[work[k].node]
              /\ lowLink'[work[k].node] = lowLink[work[k].node]
              /\ index[work[k].node] \in Nat /\ index[work[k].node] < NextIndex
  <2>1. OnStack(work[k].node)
    BY <1>1, <1>3 DEF FramesRise
  <2>2. work[k].node \in Files
    BY <1>1, <2>1 DEF SearchTypes, OnStack
  <2> QED
    BY <1>6, <1>7, <1>10, <2>1, <2>2
<1>12. work'[n + 1].node = g /\ work'[n + 1].left = Neighbors(g)
  BY <1>7
<1> HIDE DEF v, n
<1>13. FramesRise'
  <2>0. \A f \in Files : OnStack(f) \/ f = g => \E i \in DOMAIN stack' : stack'[i] = f
    BY <1>6 DEF OnStack
  <2>1. \A k \in 1..(n + 1) : /\ \E i \in DOMAIN stack' : stack'[i] = work'[k].node
                              /\ work'[k].left \subseteq Neighbors(work'[k].node)
    <3> TAKE k \in 1..(n + 1)
    <3>1. CASE k = n + 1
      BY <1>12, <2>0, <3>1
    <3>2. CASE k \in 1..n
      <4>1. work'[k].left \subseteq work[k].left
        <5>1. k = n \/ k \in 1..(n - 1)
          BY <1>3, <3>2
        <5> QED
          BY <1>7, <5>1
      <4>2. work[k].left \subseteq Neighbors(work[k].node)
        BY <1>1, <1>3, <3>2 DEF FramesRise
      <4> QED
        BY <1>11, <2>0, <3>2, <4>1, <4>2
    <3> QED
      BY <1>3, <3>1, <3>2
  <2>2. \A k, l \in 1..(n + 1) : k < l => index'[work'[k].node] < index'[work'[l].node]
    <3> TAKE k, l \in 1..(n + 1)
    <3> HAVE k < l
    <3>1. k \in 1..n
      BY <1>3
    <3>2. CASE l = n + 1
      BY <1>6, <1>11, <1>12, <3>1, <3>2
    <3>3. CASE l \in 1..n
      <4>1. index[work[k].node] < index[work[l].node]
        BY <1>1, <1>3, <3>1, <3>3 DEF FramesRise
      <4>2. index'[work'[k].node] = index[work[k].node] /\ index'[work'[l].node] = index[work[l].node]
        BY <1>11, <3>1, <3>3
      <4> QED
        BY <4>1, <4>2
    <3>4. l = n + 1 \/ l \in 1..n
      <4>1. n \in Nat
        BY <1>3
      <4> QED
        BY <4>1
    <3> QED
      BY <3>2, <3>3, <3>4
  <2>3. \A k \in 1..(n + 1) : k > 1 => work'[k].node \in Neighbors(work'[k - 1].node)
    <3> TAKE k \in 1..(n + 1)
    <3> HAVE k > 1
    <3>1. CASE k = n + 1
      <4>1. work'[n].node = v
        BY <1>3, <1>7 DEF v
      <4> QED
        BY <1>3, <1>4, <1>12, <3>1, <4>1
    <3>2. CASE k \in 1..n
      <4>1. k - 1 \in 1..n
        BY <1>3, <3>2
      <4> QED
        BY <1>1, <1>3, <1>11, <3>2, <4>1 DEF FramesRise
    <3> QED
      BY <1>3, <3>1, <3>2
  <2> QED
    BY <1>7, <1>9, <2>1, <2>2, <2>3 DEF FramesRise, OnStack
<1>14. VisitedEntered'
  <2> SUFFICES ASSUME NEW f \in Files, Entered(f)', NEW h \in Neighbors(f), ~Entered(h)'
               PROVE  StillLeft(f, h)'
    BY <1>9 DEF VisitedEntered
  <2>0. h \in Files /\ h # g /\ ~Entered(h)
    BY <1>1, <1>6, NeighborsType DEF SearchTypes
  <2>1. CASE f = g
    <3>1. n + 1 \in DOMAIN work' /\ work'[n + 1].node = f /\ h \in work'[n + 1].left
      BY <1>3, <1>7, <1>12, <2>1
    <3> QED
      BY <3>1 DEF StillLeft
  <2>2. CASE f # g
    <3>1. StillLeft(f, h)
      BY <1>1, <1>6, <2>0, <2>2 DEF VisitedEntered
    <3>2. PICK k \in 1..n : work[k].node = f /\ h \in work[k].left
      BY <1>3, <3>1 DEF StillLeft
    <3>3. h \in work'[k].left
      <4>1. k = n \/ k \in 1..(n - 1)
        BY <1>3, <3>2
      <4> QED
        BY <1>7, <2>0, <3>2, <4>1
    <3>4. k \in DOMAIN work' /\ work'[k].node = f
      BY <1>3, <1>7, <3>2
    <3> QED
      BY <3>3, <3>4 DEF StillLeft
  <2> QED
    BY <2>1, <2>2
<1>15. ReachesFrame'
  <2> SUFFICES ASSUME NEW f \in Files, OnStack(f)'
               PROVE  \E k \in 1..(n + 1) : work'[k].node \in ReachedFrom(f) /\ index'[work'[k].node] <= index'[f]
    BY <1>7, <1>9 DEF ReachesFrame
  <2>1. CASE f = g
    <3>1. n + 1 \in 1..(n + 1) /\ g \in ReachedFrom(g)
      BY <1>1, <1>3, Reaching DEF SearchTypes
    <3> QED
      BY <1>6, <1>12, <2>1, <3>1
  <2>2. CASE f # g
    <3>1. OnStack(f) /\ index'[f] = index[f]
      BY <1>6, <2>2
    <3>2. PICK k \in 1..n : work[k].node \in ReachedFrom(f) /\ index[work[k].node] <= index[f]
      BY <1>1, <1>3, <3>1 DEF ReachesFrame
    <3>3. k \in 1..(n + 1)
      BY <1>3
    <3> QED
      BY <1>11, <3>1, <3>2, <3>3
  <2> QED
    BY <2>1, <2>2
<1>16. FrameReaches'
  <2> SUFFICES ASSUME NEW k \in 1..(n + 1), NEW f \in Files, OnStack(f)', index'[f] >= index'[work'[k].node]
               PROVE  f \in ReachedFrom(work'[k].node)
    BY <1>7, <1>9 DEF FrameReaches
  <2>1. g \in ReachedFrom(g) /\ g \in ReachedFrom(v)
    BY <1>1, <1>4, Reaching DEF SearchTypes
  <2>2. CASE k = n + 1
    <3>1. f = g
      BY <1>6, <1>10, <1>12, <2>2
    <3> QED
      BY <1>12, <2>1, <2>2, <3>1
  <2>3. CASE k \in 1..n
    <3>1. CASE f = g
      <4>1. k = n \/ k < n
        BY <1>3, <2>3
      <4>2. index[v] >= index[work[k].node]
        BY <1>1, <1>3, <1>4, <1>11, <2>3, <4>1 DEF FramesRise, v
      <4>3. v \in ReachedFrom(work[k].node)
        BY <1>1, <1>3, <1>4, <2>3, <4>2 DEF FrameReaches
      <4>4. ReachedFrom(v) \subseteq ReachedFrom(work[k].node)
        BY <1>1, <1>11, <2>3, <4>3, Reaching DEF SearchTypes
      <4> QED
        BY <1>11, <2>1, <2>3, <3>1, <4>4
    <3>2. CASE f # g
      BY <1>1, <1>3, <1>6, <1>11, <2>3, <3>2 DEF FrameReaches
    <3> QED
      BY <3>1, <3>2
  <2> QED
    BY <1>3, <2>2, <2>3
<1>17. LowBounds'
  <2> SUFFICES ASSUME NEW k \in 1..(n + 1), NEW f \in Files, OnStack(f)', index'[f] >= index'[work'[k].node],
                      k < n + 1 => index'[f] < index'[work'[k + 1].node],
                      NEW h \in Neighbors(f), OnStack(h)', ~(f = work'[k].node /\ h \in work'[k].left)
               PROVE  index'[h] >= lowLink'[work'[k].node]
    BY <1>7, <1>9 DEF LowBounds
  <2>0. h \in Files
    BY <1>1, NeighborsType DEF SearchTypes
  <2>1. CASE k = n + 1
    <3>1. f = g
      BY <1>6, <1>10, <1>12, <2>1
    <3> QED
      BY <1>12, <2>1, <3>1
  <2>2. CASE k \in 1..n
    <3>1. index'[f] < index'[g] /\ f # g
      <4>1. k + 1 \in 1..(n + 1)
        BY <1>3, <2>2
      <4>2. index'[f] < index'[work'[k + 1].node]
        BY <1>3, <2>2
      <4>3. CASE k = n
        BY <1>6, <1>12, <4>2, <4>3
      <4>4. CASE k # n
        <5>1. k + 1 \in 1..n
          BY <1>3, <2>2, <4>4
        <5> QED
          BY <1>6, <1>10, <1>11, <4>2, <5>1
      <4> QED
        BY <4>3, <4>4
    <3>2. OnStack(f) /\ index'[f] = index[f] /\ index[f] >= index[work[k].node]
      BY <1>6, <1>11, <2>2, <3>1
    <3>3. k < n => index[f] < index[work[k + 1].node]
      <4> HAVE k < n
      <4>1. k + 1 \in 1..n /\ k < n + 1
        BY <1>3, <2>2
      <4> QED
        BY <1>11, <3>2, <4>1
    <3>4. lowLink'[work'[k].node] = lowLink[work[k].node]
      BY <1>11, <2>2
    <3>5. CASE h = g
      <4>1. lowLink[work[k].node] <= index[work[k].node]
        BY <1>1, <1>11, <2>2 DEF LowIsReached
      <4>2. lowLink[work[k].node] \in Nat
        BY <1>1, <1>11, <2>2 DEF SearchTypes
      <4> QED
        BY <1>6, <1>11, <2>2, <3>4, <3>5, <4>1, <4>2
    <3>6. CASE h # g
      <4>1. OnStack(h) /\ index'[h] = index[h]
        BY <1>6, <2>0, <3>6
      <4>2. ~(f = work[k].node /\ h \in work[k].left)
        <5>1. h \in work[k].left => h \in work'[k].left
          <6>1. k = n \/ k \in 1..(n - 1)
            BY <1>3, <2>2
          <6> QED
            BY <1>7, <3>6, <6>1
        <5> QED
          BY <1>11, <2>2, <5>1
      <4>3. index[h] >= lowLink[work[k].node]
        <5>1. n = Len(work)
          BY DEF n
        <5> QED
          BY <1>1, <1>3, <2>2, <3>2, <3>3, <4>1, <4>2, <5>1 DEF LowBounds
      <4> QED
        BY <3>4, <4>1, <4>3
    <3> QED
      BY <3>5, <3>6
  <2> QED
    BY <1>3, <2>1, <2>2
<1> QED
  BY <1>6, <1>8, <1>13, <1>14, <1>15, <1>16, <1>17 DEF SearchInv

-----------------------------------------------------------------------------
(* A neighbour that was entered is visited.                                *)

LEMMA MinOfTwo ==
    ASSUME NEW a \in Nat, NEW b \in Nat
    PROVE  /\ Min({a, b}) \in Nat /\ Min({a, b}) <= a /\ Min({a, b}) <= b
           /\ Min({a, b}) = a \/ Min({a, b}) = b
<1>1. \E x \in {a, b} : \A y \in {a, b} : x <= y
  <2>1. CASE a <= b
    BY <2>1
  <2>2. CASE b <= a
    BY <2>2
  <2> QED
    BY <2>1, <2>2
<1>2. Min({a, b}) \in {a, b} /\ \A y \in {a, b} : Min({a, b}) <= y
  BY <1>1 DEF Min
<1> QED
  BY <1>2

\* The frame on top.
LEMMA TopFrame ==
    ASSUME SearchInv, work # <<>>
    PROVE  /\ Len(work) \in Nat \ {0} /\ DOMAIN work = 1..Len(work) /\ Frame = work[Len(work)]
           /\ work \in Seq(Frames)
           /\ \A k \in 1..Len(work) : work[k].node \in Files /\ OnStack(work[k].node) /\ index[work[k].node] \in Nat
           /\ \A k \in 1..(Len(work) - 1) : /\ index[work[k].node] < index[work[Len(work)].node]
                                            /\ work[k].node # work[Len(work)].node
<1>1. SearchTypes /\ StackRises /\ FramesRise /\ work \in Seq(Frames)
  BY DEF SearchInv, SearchTypes, Frames
<1>2. Len(work) \in Nat \ {0} /\ DOMAIN work = 1..Len(work) /\ Frame = work[Len(work)]
  BY <1>1, VisitedEffect
<1>3. ASSUME NEW k \in 1..Len(work)
      PROVE  work[k].node \in Files /\ OnStack(work[k].node) /\ index[work[k].node] \in Nat
  <2>1. OnStack(work[k].node)
    BY <1>1, <1>2 DEF FramesRise
  <2>2. work[k].node \in Files
    BY <1>1, <2>1 DEF OnStack, SearchTypes
  <2> QED
    BY <1>1, <2>1, <2>2, IndexNames
<1>4. ASSUME NEW k \in 1..(Len(work) - 1)
      PROVE  index[work[k].node] < index[work[Len(work)].node] /\ work[k].node # work[Len(work)].node
  <2> DEFINE n == Len(work)
  <2>1. n \in Nat \ {0} /\ k \in 1..(n - 1) /\ DOMAIN work = 1..n
    BY <1>2
  <2> HIDE DEF n
  <2>2. k \in 1..n /\ n \in 1..n /\ k < n
    BY <2>1
  <2>3. index[work[k].node] < index[work[n].node]
    BY <1>1, <2>1, <2>2 DEF FramesRise
  <2>4. index[work[k].node] \in Nat
    BY <1>3, <2>2 DEF n
  <2> QED
    BY <2>3, <2>4 DEF n
<1> QED
  BY <1>1, <1>2, <1>3, <1>4

LEMMA LowerKeeps ==
    ASSUME SearchInv, calls' = calls, NEW g \in Files, Lower(g)
    PROVE  SearchInv'
<1> DEFINE n == Len(work)
           v == work[n].node
<1>1. /\ SearchTypes /\ InTurn /\ StackRises /\ EachInItsPlace /\ FramesRise /\ VisitedEntered
      /\ DoneIsClosed /\ LowIsReached /\ ReachesFrame /\ FrameReaches /\ LowBounds
  BY DEF SearchInv
<1>2. /\ work # <<>> /\ g \in Frame.left /\ Entered(g) /\ work' = Visited(g)
      /\ lowLink' = IF OnStack(g) THEN [lowLink EXCEPT ![Frame.node] = Min({@, index[g]})] ELSE lowLink
      /\ index' = index /\ stack' = stack /\ components' = components
  BY DEF Lower, Searching
<1>3. /\ n \in Nat \ {0} /\ DOMAIN work = 1..n /\ Frame = work[n] /\ work \in Seq(Frames)
      /\ \A k \in 1..n : work[k].node \in Files /\ OnStack(work[k].node) /\ index[work[k].node] \in Nat
      /\ \A k \in 1..(n - 1) : index[work[k].node] < index[v] /\ work[k].node # v
  BY <1>2, TopFrame
<1>4. /\ g \in work[n].left
      /\ work' \in Seq(Frames) /\ Len(work') = n /\ DOMAIN work' = 1..n
      /\ \A k \in 1..n : work'[k].node = work[k].node
      /\ \A k \in 1..(n - 1) : work'[k] = work[k]
      /\ work'[n].left = work[n].left \ {g}
  BY <1>2, <1>3, VisitedEffect
<1>5. /\ v \in Files /\ OnStack(v) /\ g \in Neighbors(v) /\ index[v] \in Nat /\ lowLink[v] \in Nat
      /\ index[g] \in Nat /\ Frame.node = v
  <2>1. n \in 1..n
    BY <1>3
  <2>2. g \in Neighbors(v)
    BY <1>1, <1>3, <1>4, <2>1 DEF FramesRise
  <2>3. index[g] \in Nat
    BY <1>1, <1>2 DEF InTurn
  <2> QED
    BY <1>1, <1>3, <2>1, <2>2, <2>3 DEF SearchTypes
<1> HIDE DEF n, v
<1>6. /\ lowLink' \in [Files -> Nat]
      /\ \A f \in Files : f # v => lowLink'[f] = lowLink[f]
      /\ lowLink'[v] \in Nat /\ lowLink'[v] <= lowLink[v] /\ (OnStack(g) => lowLink'[v] <= index[g])
      /\ lowLink'[v] = lowLink[v] \/ (OnStack(g) /\ lowLink'[v] = index[g])
  <2>1. CASE OnStack(g)
    <3> DEFINE low == Min({lowLink[v], index[g]})
    <3>1. low \in Nat /\ low <= lowLink[v] /\ low <= index[g] /\ (low = lowLink[v] \/ low = index[g])
      BY <1>5, MinOfTwo
    <3>2. lowLink' = [lowLink EXCEPT ![v] = low]
      BY <1>2, <1>5, <2>1
    <3> HIDE DEF low
    <3> QED
      BY <1>1, <1>5, <2>1, <3>1, <3>2 DEF SearchTypes
  <2>2. CASE ~OnStack(g)
    BY <1>1, <1>2, <1>5, <2>2 DEF SearchTypes
  <2> QED
    BY <2>1, <2>2
<1>7. SearchTypes'
  BY <1>1, <1>2, <1>4, <1>6 DEF SearchTypes, Frames
<1>8. Nodes' = Nodes /\ \A f : Neighbors(f)' = Neighbors(f) /\ ReachedFrom(f)' = ReachedFrom(f)
  BY SameCalls
<1>9. /\ NextIndex' = NextIndex /\ \A f : Entered(f)' <=> Entered(f)
      /\ \A f : (OnStack(f)' <=> OnStack(f)) /\ (Done(f)' <=> Done(f))
  BY <1>2 DEF NextIndex, Entered, OnStack, Done
<1>10. InTurn' /\ StackRises' /\ EachInItsPlace' /\ DoneIsClosed'
  <2>1. InTurn'
    BY <1>1, <1>2, <1>8, <1>9 DEF InTurn
  <2>2. StackRises'
    BY <1>1, <1>2 DEF StackRises, Entered
  <2>3. EachInItsPlace'
    BY <1>1, <1>2, <1>9 DEF EachInItsPlace
  <2>4. DoneIsClosed'
    BY <1>1, <1>2, <1>8 DEF DoneIsClosed
  <2> QED
    BY <2>1, <2>2, <2>3, <2>4
<1>11. \A k \in 1..n : work'[k].left \subseteq work[k].left
  <2>1. \A k \in 1..n : k = n \/ k \in 1..(n - 1)
    BY <1>3
  <2> QED
    BY <1>4, <2>1
<1>12. FramesRise'
  <2>1. \A k \in 1..n : /\ \E i \in DOMAIN stack' : stack'[i] = work'[k].node
                        /\ work'[k].left \subseteq Neighbors(work'[k].node)
    BY <1>1, <1>2, <1>3, <1>4, <1>11 DEF FramesRise, OnStack
  <2>2. \A k, l \in 1..n : k < l => index'[work'[k].node] < index'[work'[l].node]
    BY <1>1, <1>2, <1>3, <1>4 DEF FramesRise
  <2>3. \A k \in 1..n : k > 1 => work'[k].node \in Neighbors(work'[k - 1].node)
    <3> TAKE k \in 1..n
    <3> HAVE k > 1
    <3>1. k - 1 \in 1..n
      BY <1>3
    <3> QED
      BY <1>1, <1>3, <1>4, <3>1 DEF FramesRise
  <2> QED
    BY <1>4, <1>8, <2>1, <2>2, <2>3 DEF FramesRise, OnStack
<1>13. VisitedEntered'
  <2> SUFFICES ASSUME NEW f \in Files, Entered(f), NEW h \in Neighbors(f), ~Entered(h)
               PROVE  StillLeft(f, h)'
    BY <1>8, <1>9 DEF VisitedEntered
  <2>1. PICK k \in 1..n : work[k].node = f /\ h \in work[k].left
    BY <1>1, <1>3 DEF VisitedEntered, StillLeft
  <2>2. h # g
    BY <1>2
  <2>3. h \in work'[k].left
    <3>1. k = n \/ k \in 1..(n - 1)
      BY <1>3
    <3> QED
      BY <1>4, <2>1, <2>2, <3>1
  <2> QED
    BY <1>4, <2>1, <2>3 DEF StillLeft
<1>14. LowIsReached'
  <2> SUFFICES ASSUME NEW f \in Files, OnStack(f)
               PROVE  /\ lowLink'[f] <= index[f]
                      /\ \E h \in Files : OnStack(h) /\ h \in ReachedFrom(f) /\ index[h] = lowLink'[f]
    BY <1>2, <1>8, <1>9 DEF LowIsReached
  <2>1. lowLink[f] <= index[f] /\ lowLink[f] \in Nat /\ index[f] \in Nat
    BY <1>1, IndexNames DEF LowIsReached, SearchTypes
  <2>2. PICK h \in Files : OnStack(h) /\ h \in ReachedFrom(f) /\ index[h] = lowLink[f]
    BY <1>1 DEF LowIsReached
  <2>3. g \in ReachedFrom(v)
    BY <1>1, <1>5, Reaching DEF SearchTypes
  <2> QED
    BY <1>6, <2>1, <2>2, <2>3
<1>15. ReachesFrame'
  <2> SUFFICES ASSUME NEW f \in Files, OnStack(f)
               PROVE  \E k \in 1..n : work'[k].node \in ReachedFrom(f) /\ index[work'[k].node] <= index[f]
    BY <1>2, <1>4, <1>8, <1>9 DEF ReachesFrame
  <2> QED
    BY <1>1, <1>3, <1>4 DEF ReachesFrame
<1>16. FrameReaches'
  <2> SUFFICES ASSUME NEW k \in 1..n, NEW f \in Files, OnStack(f), index[f] >= index[work'[k].node]
               PROVE  f \in ReachedFrom(work'[k].node)
    BY <1>2, <1>4, <1>8, <1>9 DEF FrameReaches
  <2> QED
    BY <1>1, <1>3, <1>4 DEF FrameReaches
<1>17. LowBounds'
  <2> SUFFICES ASSUME NEW k \in 1..n, NEW f \in Files, OnStack(f), index[f] >= index[work'[k].node],
                      k < n => index[f] < index[work'[k + 1].node],
                      NEW h \in Neighbors(f), OnStack(h), ~(f = work'[k].node /\ h \in work'[k].left)
               PROVE  index[h] >= lowLink'[work'[k].node]
    BY <1>2, <1>4, <1>8, <1>9 DEF LowBounds
  <2>0. h \in Files /\ index[h] \in Nat
    BY <1>1, NeighborsType, IndexNames DEF SearchTypes
  <2>1. index[f] >= index[work[k].node]
    BY <1>4
  <2>2. k < n => index[f] < index[work[k + 1].node]
    <3> HAVE k < n
    <3>1. k + 1 \in 1..n
      BY <1>3
    <3> QED
      BY <1>4, <3>1
  <2>3. n = Len(work) /\ v = work[n].node
    BY DEF n, v
  <2>4. ASSUME ~(f = work[k].node /\ h \in work[k].left) PROVE index[h] >= lowLink[work[k].node]
    BY <1>1, <1>3, <2>1, <2>2, <2>3, <2>4 DEF LowBounds
  <2>5. CASE k = n
    <3>1. CASE f = v /\ h = g
      BY <1>4, <1>6, <2>3, <2>5, <3>1
    <3>2. CASE ~(f = v /\ h = g)
      <4>1. ~(f = work[k].node /\ h \in work[k].left)
        BY <1>4, <2>3, <2>5, <3>2
      <4>2. index[h] >= lowLink[v]
        BY <2>3, <2>4, <2>5, <4>1
      <4> QED
        BY <1>4, <1>5, <1>6, <2>0, <2>3, <2>5, <4>2
    <3> QED
      BY <3>1, <3>2
  <2>6. CASE k # n
    <3>1. k \in 1..(n - 1)
      BY <1>3, <2>6
    <3>2. ~(f = work[k].node /\ h \in work[k].left)
      BY <1>4, <3>1
    <3>3. lowLink'[work'[k].node] = lowLink[work[k].node]
      BY <1>3, <1>4, <1>6, <3>1
    <3> QED
      BY <2>4, <3>2, <3>3
  <2> QED
    BY <2>5, <2>6
<1> QED
  BY <1>7, <1>10, <1>12, <1>13, <1>14, <1>15, <1>16, <1>17 DEF SearchInv

-----------------------------------------------------------------------------
(* A frame is closed.                                                      *)

LEMMA FrontEffect ==
    ASSUME work \in Seq(Frames), work # <<>>
    PROVE  /\ Front(work) \in Seq(Frames) /\ Len(Front(work)) = Len(work) - 1
           /\ DOMAIN Front(work) = 1..(Len(work) - 1)
           /\ \A k \in 1..(Len(work) - 1) : Front(work)[k] = work[k]
           /\ Front(work) = <<>> <=> Len(work) = 1
           /\ Len(work) > 1 => Last(Front(work)) = work[Len(work) - 1]
<1>1. Len(work) \in Nat \ {0} /\ DOMAIN work = 1..Len(work)
  BY VisitedEffect
<1>2. Front(work) = SubSeq(work, 1, Len(work) - 1)
  BY DEF Front
<1> DEFINE n == Len(work)
           front == Front(work)
<1>3. /\ front \in Seq(Frames) /\ Len(front) = n - 1
      /\ DOMAIN front = 1..(n - 1)
      /\ \A k \in 1..(n - 1) : front[k] = work[k]
  BY <1>1, <1>2
<1>4. n \in Nat \ {0}
  BY <1>1
<1> HIDE DEF n, front
<1>5. front = <<>> <=> n = 1
  BY <1>3, <1>4
<1>6. n > 1 => Last(front) = work[n - 1]
  <2> HAVE n > 1
  <2>1. n - 1 \in 1..(n - 1)
    BY <1>4
  <2> QED
    BY <1>3, <2>1 DEF Last
<1> QED
  BY <1>3, <1>5, <1>6 DEF n, front

LEMMA StackFrom ==
    ASSUME SearchTypes, StackRises, NEW at \in DOMAIN stack
    PROVE  /\ ToSet(SubSeq(stack, at, Len(stack))) =
                {f \in Files : OnStack(f) /\ index[f] >= index[stack[at]]}
           /\ SubSeq(stack, 1, at - 1) \in Seq(Files) /\ DOMAIN SubSeq(stack, 1, at - 1) = 1..(at - 1)
           /\ \A i \in 1..(at - 1) : i \in DOMAIN stack /\ SubSeq(stack, 1, at - 1)[i] = stack[i]
           /\ \A f \in Files : (\E i \in 1..(at - 1) : stack[i] = f) <=> OnStack(f) /\ index[f] < index[stack[at]]
<1> DEFINE m == Len(stack)
<1>1. stack \in Seq(Files) /\ m \in Nat /\ DOMAIN stack = 1..m /\ \A i \in 1..m : stack[i] \in Files
  BY DEF SearchTypes
<1>2. \A i \in 1..m : index[stack[i]] \in Nat
  BY <1>1 DEF StackRises, SearchTypes, Entered
<1>3. \A i, j \in 1..m : i < j => index[stack[i]] < index[stack[j]]
  BY <1>1 DEF StackRises
<1> DEFINE above == SubSeq(stack, at, m)
           below == SubSeq(stack, 1, at - 1)
<1>4. at \in 1..m
  BY <1>1
<1>5. Len(above) = m - at + 1 /\ DOMAIN above = 1..(m - at + 1) /\ \A i \in 1..(m - at + 1) : above[i] = stack[at + i - 1]
  <2> HIDE DEF m
  <2> QED
    BY <1>1, <1>4
<1>6. below \in Seq(Files) /\ DOMAIN below = 1..(at - 1) /\ \A i \in 1..(at - 1) : below[i] = stack[i]
  <2> HIDE DEF m
  <2> QED
    BY <1>1, <1>4
<1> HIDE DEF m, above, below
<1>7. \A i \in 1..(at - 1) : i \in 1..m
  BY <1>1, <1>4
<1>8. \A i \in 1..m : (index[stack[i]] >= index[stack[at]] <=> i >= at) /\ (index[stack[i]] < index[stack[at]] <=> i < at)
  <2> TAKE i \in 1..m
  <2>1. index[stack[i]] \in Nat /\ index[stack[at]] \in Nat
    BY <1>2, <1>4
  <2>2. i < at => index[stack[i]] < index[stack[at]]
    BY <1>3, <1>4
  <2>3. at < i => index[stack[at]] < index[stack[i]]
    BY <1>3, <1>4
  <2>4. i \in Nat /\ at \in Nat
    BY <1>1, <1>4
  <2> QED
    BY <2>1, <2>2, <2>3, <2>4
<1>9. ToSet(above) = {f \in Files : OnStack(f) /\ index[f] >= index[stack[at]]}
  <2>1. ASSUME NEW f \in ToSet(above) PROVE f \in Files /\ OnStack(f) /\ index[f] >= index[stack[at]]
    <3>1. PICK i \in 1..(m - at + 1) : f = stack[at + i - 1]
      BY <1>5, <2>1 DEF ToSet
    <3>2. at + i - 1 \in 1..m /\ at + i - 1 >= at
      BY <1>1, <1>4
    <3> QED
      BY <1>1, <1>8, <3>1, <3>2 DEF OnStack
  <2>2. ASSUME NEW f \in Files, OnStack(f), index[f] >= index[stack[at]] PROVE f \in ToSet(above)
    <3>1. PICK i \in 1..m : stack[i] = f
      BY <1>1, <2>2 DEF OnStack
    <3>2. i >= at
      BY <1>8, <2>2, <3>1
    <3>3. i - at + 1 \in 1..(m - at + 1) /\ at + (i - at + 1) - 1 = i
      BY <1>1, <1>4, <3>2
    <3>4. above[i - at + 1] = f
      BY <1>5, <3>1, <3>3
    <3> QED
      BY <1>5, <3>3, <3>4 DEF ToSet
  <2> QED
    BY <2>1, <2>2
<1>10. ASSUME NEW f \in Files
       PROVE  (\E i \in 1..(at - 1) : stack[i] = f) <=> OnStack(f) /\ index[f] < index[stack[at]]
  <2>1. ASSUME NEW i \in 1..(at - 1), stack[i] = f PROVE OnStack(f) /\ index[f] < index[stack[at]]
    <3>1. i \in 1..m /\ i < at
      BY <1>1, <1>4
    <3> QED
      BY <1>1, <1>8, <2>1, <3>1 DEF OnStack
  <2>2. ASSUME OnStack(f), index[f] < index[stack[at]] PROVE \E i \in 1..(at - 1) : stack[i] = f
    <3>1. PICK i \in 1..m : stack[i] = f
      BY <1>1, <2>2 DEF OnStack
    <3>2. i < at
      BY <1>8, <2>2, <3>1
    <3>3. i \in 1..(at - 1)
      BY <1>1, <1>4, <3>2
    <3> QED
      BY <3>1, <3>3
  <2> QED
    BY <2>1, <2>2
<1> QED
  BY <1>1, <1>6, <1>7, <1>9, <1>10 DEF m, above, below

TopFrom(v) == {f \in Files : OnStack(f) /\ index[f] >= index[v]}

\* What stands on the stack from a root upwards is a component.
LEMMA RootIsComplete ==
    ASSUME SearchInv, work # <<>>, Frame.left = {}, NEW v \in Files, v = Frame.node, index[v] = lowLink[v]
    PROVE  /\ v \in TopFrom(v)
           /\ \A f \in TopFrom(v) : /\ \A h \in Neighbors(f) : h \in TopFrom(v) \/ Done(h)
                                  /\ TopFrom(v) \subseteq ReachedFrom(f)
<1> DEFINE n == Len(work)
           C == TopFrom(v)
<1>1. /\ SearchTypes /\ InTurn /\ StackRises /\ EachInItsPlace /\ FramesRise /\ VisitedEntered
      /\ DoneIsClosed /\ LowIsReached /\ ReachesFrame /\ FrameReaches /\ LowBounds
  BY DEF SearchInv
<1>2. /\ n \in Nat \ {0} /\ DOMAIN work = 1..n /\ work[n].left = {} /\ work[n].node = v
      /\ \A k \in 1..n : work[k].node \in Files /\ OnStack(work[k].node) /\ index[work[k].node] \in Nat
      /\ \A k \in 1..(n - 1) : index[work[k].node] < index[v] /\ work[k].node # v
  BY TopFrame
<1>3. n = Len(work) /\ n \in 1..n
  BY <1>2
<1> HIDE DEF n
<1>4. v \in C
  BY <1>2, <1>3 DEF TopFrom
<1>5. ASSUME NEW f \in C, NEW h \in Neighbors(f) PROVE h \in C \/ Done(h)
  <2>1. f \in Files /\ OnStack(f) /\ index[f] >= index[v] /\ index[f] \in Nat /\ index[v] \in Nat /\ Entered(f)
    BY <1>1, <1>2, <1>3, IndexNames DEF TopFrom
  <2>2. h \in Files
    BY <1>1, NeighborsType DEF SearchTypes
  <2>3. ~StillLeft(f, h)
    <3> SUFFICES ASSUME NEW k \in 1..n, work[k].node = f, h \in work[k].left PROVE FALSE
      BY <1>2 DEF StillLeft
    <3>1. k \in 1..(n - 1)
      BY <1>2
    <3>2. index[f] < index[v]
      BY <1>2, <3>1
    <3> QED
      BY <2>1, <3>2
  <2>4. Entered(h)
    BY <1>1, <2>1, <2>3 DEF VisitedEntered
  <2>5. CASE OnStack(h)
    <3>1. index[h] >= lowLink[work[n].node]
      <4>1. ~(f = work[n].node /\ h \in work[n].left) /\ ~(n < Len(work)) /\ n \in DOMAIN work
        BY <1>2, <1>3
      <4> QED
        BY <1>1, <1>2, <2>1, <2>5, <4>1 DEF LowBounds
    <3> QED
      BY <1>2, <2>2, <2>5, <3>1 DEF TopFrom
  <2> QED
    BY <1>1, <2>2, <2>4, <2>5 DEF EachInItsPlace
<1>6. C \subseteq ReachedFrom(v)
  BY <1>1, <1>2, <1>3 DEF FrameReaches, TopFrom
<1>7. ASSUME NEW f \in C PROVE v \in ReachedFrom(f)
  <2> DEFINE S == C \union {h \in Files : Done(h)}
  <2>1. f \in Files /\ OnStack(f)
    BY DEF TopFrom
  <2>2. Closed(S)
    <3> SUFFICES ASSUME NEW h \in S, NEW q \in Neighbors(h) PROVE q \in S
      BY DEF Closed
    <3>0. q \in Files
      BY <1>1, NeighborsType DEF SearchTypes
    <3>1. CASE h \in C
      BY <1>5, <3>0, <3>1
    <3>2. CASE Done(h)
      BY <1>1, <3>0, <3>2 DEF DoneIsClosed, Done
    <3> QED
      BY <3>1, <3>2
  <2>3. ReachedFrom(f) \subseteq S
    BY <1>1, <2>1, <2>2, ReachedFromIsLeast DEF SearchTypes
  <2>4. PICK k \in 1..n : work[k].node \in ReachedFrom(f)
    BY <1>1, <1>2, <2>1 DEF ReachesFrame
  <2>5. ~Done(work[k].node)
    BY <1>1, <1>2 DEF EachInItsPlace
  <2>6. work[k].node \in C
    BY <2>3, <2>4, <2>5
  <2>7. CASE k = n
    BY <1>2, <2>4, <2>7
  <2>8. CASE k # n
    <3>1. k \in 1..(n - 1)
      BY <1>2, <2>8
    <3>2. index[work[k].node] < index[v] /\ index[work[k].node] \in Nat /\ index[v] \in Nat
      BY <1>2, <1>3, <3>1
    <3> QED
      BY <2>6, <3>2 DEF TopFrom
  <2> QED
    BY <2>7, <2>8
<1>8. ASSUME NEW f \in C PROVE C \subseteq ReachedFrom(f)
  <2>1. f \in Files
    BY DEF TopFrom
  <2>2. ReachedFrom(v) \subseteq ReachedFrom(f)
    BY <1>1, <1>7, <2>1, Reaching DEF SearchTypes
  <2> QED
    BY <1>6, <2>2
<1> QED
  BY <1>4, <1>5, <1>8

LEMMA CloseEffect ==
    ASSUME SearchInv, calls' = calls, CloseFrame
    PROVE  /\ Len(work) \in Nat \ {0} /\ DOMAIN work = 1..Len(work)
           /\ work[Len(work)].left = {} /\ Frame.left = {} /\ Frame = work[Len(work)] /\ work # <<>>
           /\ \A k \in 1..Len(work) : work[k].node \in Files /\ OnStack(work[k].node) /\ index[work[k].node] \in Nat
           /\ \A k \in 1..(Len(work) - 1) : /\ index[work[k].node] < index[work[Len(work)].node]
                                            /\ work[k].node # work[Len(work)].node
           /\ work' \in Seq(Frames) /\ Len(work') = Len(work) - 1 /\ DOMAIN work' = 1..(Len(work) - 1)
           /\ \A k \in 1..(Len(work) - 1) : k \in 1..Len(work) /\ work'[k] = work[k]
           /\ index' = index /\ NextIndex' = NextIndex /\ \A f : Entered(f)' <=> Entered(f)
           /\ lowLink' = IF Len(work) = 1 THEN lowLink
                         ELSE [lowLink EXCEPT ![work[Len(work) - 1].node] = Min({@, lowLink[Frame.node]})]
<1>1. /\ work # <<>> /\ Frame.left = {} /\ work' = Front(work) /\ index' = index
      /\ lowLink' = IF Front(work) = <<>> THEN lowLink
                    ELSE [lowLink EXCEPT ![Last(Front(work)).node] = Min({@, lowLink[Frame.node]})]
  BY DEF CloseFrame, Searching
<1>2. /\ Len(work) \in Nat \ {0} /\ DOMAIN work = 1..Len(work) /\ Frame = work[Len(work)]
      /\ work \in Seq(Frames)
      /\ \A k \in 1..Len(work) : work[k].node \in Files /\ OnStack(work[k].node) /\ index[work[k].node] \in Nat
      /\ \A k \in 1..(Len(work) - 1) : /\ index[work[k].node] < index[work[Len(work)].node]
                                       /\ work[k].node # work[Len(work)].node
  BY <1>1, TopFrame
<1>3. /\ work' \in Seq(Frames) /\ Len(work') = Len(work) - 1
      /\ DOMAIN work' = 1..(Len(work) - 1)
      /\ \A k \in 1..(Len(work) - 1) : work'[k] = work[k]
      /\ Front(work) = <<>> <=> Len(work) = 1
      /\ Len(work) > 1 => Last(Front(work)) = work[Len(work) - 1]
  BY <1>1, <1>2, FrontEffect
<1>4. \A k \in 1..(Len(work) - 1) : k \in 1..Len(work)
  <2> DEFINE n == Len(work)
  <2>1. n \in Nat
    BY <1>2
  <2> HIDE DEF n
  <2>2. \A k \in 1..(n - 1) : k \in 1..n
    BY <2>1
  <2> QED
    BY <2>2 DEF n
<1>5. lowLink' = IF Len(work) = 1 THEN lowLink
                 ELSE [lowLink EXCEPT ![work[Len(work) - 1].node] = Min({@, lowLink[Frame.node]})]
  <2>1. CASE Len(work) = 1
    BY <1>1, <1>3, <2>1
  <2>2. CASE Len(work) # 1
    <3>1. Len(work) > 1
      BY <1>2, <2>2
    <3>2. Last(Front(work)) = work[Len(work) - 1] /\ Front(work) # <<>>
      BY <1>3, <2>2, <3>1
    <3> QED
      BY <1>1, <2>2, <3>2
  <2> QED
    BY <2>1, <2>2
<1>6. NextIndex' = NextIndex /\ \A f : Entered(f)' <=> Entered(f)
  BY <1>1 DEF NextIndex, Entered
<1> QED
  BY <1>1, <1>2, <1>3, <1>4, <1>5, <1>6

\* What does not depend on low links.
LEMMA CloseKeeps ==
    ASSUME SearchInv, calls' = calls, CloseFrame,
           \A k \in 1..(Len(work) - 1) : \E i \in DOMAIN stack' : stack'[i] = work[k].node
    PROVE  FramesRise' /\ VisitedEntered'
<1> DEFINE n == Len(work)
<1>1. SearchTypes /\ FramesRise /\ VisitedEntered
  BY DEF SearchInv
<1>2. /\ n \in Nat \ {0} /\ DOMAIN work = 1..n /\ work[n].left = {}
      /\ DOMAIN work' = 1..(n - 1)
      /\ \A k \in 1..(n - 1) : k \in 1..n /\ work'[k] = work[k]
      /\ index' = index /\ \A f : Entered(f)' <=> Entered(f)
      /\ \A k \in 1..(n - 1) : \E i \in DOMAIN stack' : stack'[i] = work[k].node
  BY CloseEffect
<1> HIDE DEF n
<1>3. \A f : Neighbors(f)' = Neighbors(f)
  BY SameCalls
<1>4. FramesRise'
  <2>1. \A k \in 1..(n - 1) : /\ \E i \in DOMAIN stack' : stack'[i] = work'[k].node
                              /\ work'[k].left \subseteq Neighbors(work'[k].node)
    BY <1>1, <1>2 DEF FramesRise
  <2>2. \A k, l \in 1..(n - 1) : k < l => index'[work'[k].node] < index'[work'[l].node]
    BY <1>1, <1>2 DEF FramesRise
  <2>3. \A k \in 1..(n - 1) : k > 1 => work'[k].node \in Neighbors(work'[k - 1].node)
    <3> TAKE k \in 1..(n - 1)
    <3> HAVE k > 1
    <3>1. k - 1 \in 1..(n - 1)
      BY <1>2
    <3> QED
      BY <1>1, <1>2, <3>1 DEF FramesRise
  <2> QED
    BY <1>2, <1>3, <2>1, <2>2, <2>3 DEF FramesRise, OnStack
<1>5. VisitedEntered'
  <2> SUFFICES ASSUME NEW f \in Files, Entered(f), NEW h \in Neighbors(f), ~Entered(h)
               PROVE  StillLeft(f, h)'
    BY <1>2, <1>3 DEF VisitedEntered
  <2>1. PICK k \in 1..n : work[k].node = f /\ h \in work[k].left
    BY <1>1, <1>2 DEF VisitedEntered, StillLeft
  <2>2. k \in 1..(n - 1)
    BY <1>2, <2>1
  <2> QED
    BY <1>2, <2>1, <2>2 DEF StillLeft
<1> QED
  BY <1>4, <1>5

LEMMA CloseInnerKeeps ==
    ASSUME SearchInv, calls' = calls, CloseFrame, index[Frame.node] # lowLink[Frame.node]
    PROVE  SearchInv'
<1> DEFINE n == Len(work)
           v == work[n].node
           p == work[n - 1].node
<1>1. /\ SearchTypes /\ InTurn /\ StackRises /\ EachInItsPlace /\ FramesRise /\ VisitedEntered
      /\ DoneIsClosed /\ LowIsReached /\ ReachesFrame /\ FrameReaches /\ LowBounds
  BY DEF SearchInv
<1>2. /\ n \in Nat \ {0} /\ DOMAIN work = 1..n /\ work[n].left = {} /\ Frame = work[n]
      /\ \A k \in 1..n : work[k].node \in Files /\ OnStack(work[k].node) /\ index[work[k].node] \in Nat
      /\ \A k \in 1..(n - 1) : index[work[k].node] < index[v] /\ work[k].node # v
      /\ work' \in Seq(Frames) /\ Len(work') = n - 1 /\ DOMAIN work' = 1..(n - 1)
      /\ \A k \in 1..(n - 1) : k \in 1..n /\ work'[k] = work[k]
      /\ index' = index /\ NextIndex' = NextIndex /\ \A f : Entered(f)' <=> Entered(f)
      /\ lowLink' = IF n = 1 THEN lowLink ELSE [lowLink EXCEPT ![p] = Min({@, lowLink[v]})]
  BY CloseEffect
<1>3. stack' = stack /\ components' = components
  BY DEF CloseFrame
<1>4. n \in 1..n /\ v \in Files /\ OnStack(v) /\ index[v] \in Nat /\ lowLink[v] \in Nat /\ index[v] # lowLink[v]
  BY <1>1, <1>2 DEF SearchTypes
<1> HIDE DEF v
\* The file reaches one below it on the stack, so it has a frame below.
<1>5. PICK h \in Files : OnStack(h) /\ h \in ReachedFrom(v) /\ index[h] = lowLink[v]
  BY <1>1, <1>4 DEF LowIsReached
<1>6. lowLink[v] < index[v]
  BY <1>1, <1>4 DEF LowIsReached
<1>7. PICK j \in 1..n : work[j].node \in ReachedFrom(h) /\ index[work[j].node] <= index[h]
  BY <1>1, <1>2, <1>5 DEF ReachesFrame
<1>8. j \in 1..(n - 1)
  <2>1. work[n].node = v /\ index[v] \in Nat /\ lowLink[v] \in Nat /\ n \in Nat /\ j \in 1..n
    BY <1>2, <1>4 DEF v
  <2> HIDE DEF n, p
  <2>2. j # n
    BY <1>5, <1>6, <1>7, <2>1
  <2> QED
    BY <2>1, <2>2
<1>9. n > 1 /\ n - 1 \in 1..n /\ n - 1 \in 1..(n - 1)
  BY <1>2, <1>8
<1>10. p \in Files /\ OnStack(p) /\ index[p] \in Nat /\ lowLink[p] \in Nat /\ index[p] < index[v] /\ p # v
  BY <1>1, <1>2, <1>9 DEF SearchTypes
<1>11. v \in Neighbors(p)
  BY <1>1, <1>2, <1>4, <1>9 DEF FramesRise, v
<1>12. ReachedFrom(v) \subseteq ReachedFrom(p) /\ ReachedFrom(h) \subseteq ReachedFrom(v) /\ v \in ReachedFrom(p)
  BY <1>1, <1>4, <1>5, <1>10, <1>11, Reaching DEF SearchTypes
<1>13. /\ lowLink' \in [Files -> Nat]
       /\ \A f \in Files : f # p => lowLink'[f] = lowLink[f]
       /\ lowLink'[p] \in Nat /\ lowLink'[p] <= lowLink[p] /\ lowLink'[p] <= lowLink[v]
       /\ lowLink'[p] = lowLink[p] \/ lowLink'[p] = lowLink[v]
  <2> DEFINE low == Min({lowLink[p], lowLink[v]})
  <2>1. low \in Nat /\ low <= lowLink[p] /\ low <= lowLink[v] /\ (low = lowLink[p] \/ low = lowLink[v])
    BY <1>4, <1>10, MinOfTwo
  <2>2. lowLink' = [lowLink EXCEPT ![p] = low]
    BY <1>2, <1>9
  <2> HIDE DEF low, p
  <2> QED
    BY <1>1, <1>10, <2>1, <2>2 DEF SearchTypes
<1> HIDE DEF p
<1>14. p = work[n - 1].node /\ v = work[n].node
  BY DEF p, v
<1> HIDE DEF n
<1>15. Nodes' = Nodes /\ \A f : Neighbors(f)' = Neighbors(f) /\ ReachedFrom(f)' = ReachedFrom(f)
  BY SameCalls
<1>16. \A f : (OnStack(f)' <=> OnStack(f)) /\ (Done(f)' <=> Done(f))
  BY <1>3 DEF OnStack, Done
<1>17. SearchTypes'
  BY <1>1, <1>2, <1>3, <1>13 DEF SearchTypes, Frames
<1>18. InTurn' /\ StackRises' /\ EachInItsPlace' /\ DoneIsClosed'
  <2>1. InTurn'
    BY <1>1, <1>2, <1>15 DEF InTurn
  <2>2. StackRises'
    BY <1>1, <1>2, <1>3 DEF StackRises, Entered
  <2>3. EachInItsPlace'
    BY <1>1, <1>2, <1>3, <1>16 DEF EachInItsPlace
  <2>4. DoneIsClosed'
    BY <1>1, <1>3, <1>15 DEF DoneIsClosed
  <2> QED
    BY <2>1, <2>2, <2>3, <2>4
<1>19. FramesRise' /\ VisitedEntered'
  <2>1. \A k \in 1..(n - 1) : \E i \in DOMAIN stack' : stack'[i] = work[k].node
    BY <1>2, <1>3 DEF OnStack
  <2>2. n = Len(work)
    BY DEF n
  <2> QED
    BY <2>1, <2>2, CloseKeeps
<1>20. LowIsReached'
  <2> SUFFICES ASSUME NEW f \in Files, OnStack(f)
               PROVE  /\ lowLink'[f] <= index[f]
                      /\ \E q \in Files : OnStack(q) /\ q \in ReachedFrom(f) /\ index[q] = lowLink'[f]
    BY <1>2, <1>15, <1>16 DEF LowIsReached
  <2>1. lowLink[f] <= index[f] /\ lowLink[f] \in Nat /\ index[f] \in Nat
    BY <1>1, IndexNames DEF LowIsReached, SearchTypes
  <2>2. PICK q \in Files : OnStack(q) /\ q \in ReachedFrom(f) /\ index[q] = lowLink[f]
    BY <1>1 DEF LowIsReached
  <2> QED
    BY <1>5, <1>12, <1>13, <2>1, <2>2
<1>21. ReachesFrame'
  <2> SUFFICES ASSUME NEW f \in Files, OnStack(f)
               PROVE  \E k \in 1..(n - 1) : work'[k].node \in ReachedFrom(f) /\ index[work'[k].node] <= index[f]
    BY <1>2, <1>15, <1>16 DEF ReachesFrame
  <2>1. PICK k \in 1..n : work[k].node \in ReachedFrom(f) /\ index[work[k].node] <= index[f]
    BY <1>1, <1>2 DEF ReachesFrame
  <2>2. CASE k = n
    <3>1. ReachedFrom(v) \subseteq ReachedFrom(f) /\ index[v] <= index[f]
      BY <1>1, <1>14, <2>1, <2>2, Reaching DEF SearchTypes
    <3>2. index[work[j].node] <= index[f]
      <4>1. index[f] \in Nat /\ index[work[j].node] \in Nat /\ index[h] \in Nat
        BY <1>1, <1>2, <1>5, IndexNames
      <4> QED
        BY <1>4, <1>5, <1>6, <1>7, <3>1, <4>1
    <3> QED
      BY <1>2, <1>7, <1>8, <1>12, <3>1, <3>2
  <2>3. CASE k # n
    <3>1. k \in 1..(n - 1)
      BY <1>2, <2>3
    <3> QED
      BY <1>2, <2>1, <3>1
  <2> QED
    BY <2>2, <2>3
<1>22. FrameReaches'
  <2> SUFFICES ASSUME NEW k \in 1..(n - 1), NEW f \in Files, OnStack(f), index[f] >= index[work[k].node]
               PROVE  f \in ReachedFrom(work[k].node)
    BY <1>2, <1>15, <1>16 DEF FrameReaches
  <2> QED
    BY <1>1, <1>2 DEF FrameReaches
<1>23. LowBounds'
  <2> SUFFICES ASSUME NEW k \in 1..(n - 1), NEW f \in Files, OnStack(f), index[f] >= index[work[k].node],
                      k < n - 1 => index[f] < index[work'[k + 1].node],
                      NEW q \in Neighbors(f), OnStack(q), ~(f = work[k].node /\ q \in work[k].left)
               PROVE  index[q] >= lowLink'[work[k].node]
    BY <1>2, <1>15, <1>16 DEF LowBounds
  <2>0. q \in Files /\ index[q] \in Nat /\ index[f] \in Nat
    BY <1>1, NeighborsType, IndexNames DEF SearchTypes
  <2>1. n = Len(work)
    BY DEF n
  <2>2. CASE k < n - 1
    <3>1. k + 1 \in 1..(n - 1)
      BY <1>2, <2>2
    <3>2. index[f] < index[work[k + 1].node]
      BY <1>2, <2>2, <3>1
    <3>3. index[q] >= lowLink[work[k].node]
      BY <1>1, <1>2, <2>1, <3>2 DEF LowBounds
    <3>4. work[k].node # p
      <4>1. index[work[k].node] < index[work[n - 1].node] /\ index[work[k].node] \in Nat
        BY <1>1, <1>2, <1>9, <2>2 DEF FramesRise
      <4> QED
        BY <1>14, <4>1
    <3> QED
      BY <1>2, <1>13, <3>3, <3>4
  <2>3. CASE k = n - 1
    <3>1. work[k].node = p
      BY <1>14, <2>3
    <3>2. CASE index[f] < index[v]
      <4>1. k + 1 = n
        BY <1>2, <2>3
      <4>2. index[q] >= lowLink[p]
        BY <1>1, <1>2, <1>14, <2>1, <3>1, <3>2, <4>1 DEF LowBounds
      <4> QED
        BY <1>10, <1>13, <2>0, <3>1, <4>2
    <3>3. CASE index[f] >= index[v]
      <4>1. ~(f = work[n].node /\ q \in work[n].left) /\ ~(n < Len(work)) /\ n \in DOMAIN work
        BY <1>2, <1>4, <2>1
      <4>2. index[q] >= lowLink[v]
        BY <1>1, <1>14, <3>3, <4>1 DEF LowBounds
      <4> QED
        BY <1>4, <1>13, <2>0, <3>1, <4>2
    <3> QED
      BY <1>4, <2>0, <3>2, <3>3
  <2> QED
    BY <1>2, <2>2, <2>3
<1> QED
  BY <1>17, <1>18, <1>19, <1>20, <1>21, <1>22, <1>23 DEF SearchInv

LEMMA CloseRootKeeps ==
    ASSUME SearchInv, calls' = calls, CloseFrame, index[Frame.node] = lowLink[Frame.node]
    PROVE  SearchInv'
<1> DEFINE n == Len(work)
           v == work[n].node
           C == TopFrom(v)
           c == Len(components)
           at == CHOOSE i \in DOMAIN stack : stack[i] = v
<1>1. /\ SearchTypes /\ InTurn /\ StackRises /\ EachInItsPlace /\ FramesRise /\ VisitedEntered
      /\ DoneIsClosed /\ LowIsReached /\ ReachesFrame /\ FrameReaches /\ LowBounds
  BY DEF SearchInv
<1>2. /\ n \in Nat \ {0} /\ DOMAIN work = 1..n /\ work[n].left = {} /\ Frame = work[n]
      /\ \A k \in 1..n : work[k].node \in Files /\ OnStack(work[k].node) /\ index[work[k].node] \in Nat
      /\ \A k \in 1..(n - 1) : index[work[k].node] < index[v] /\ work[k].node # v
      /\ work' \in Seq(Frames) /\ Len(work') = n - 1 /\ DOMAIN work' = 1..(n - 1)
      /\ \A k \in 1..(n - 1) : k \in 1..n /\ work'[k] = work[k]
      /\ index' = index /\ NextIndex' = NextIndex /\ \A f : Entered(f)' <=> Entered(f)
      /\ lowLink' = IF n = 1 THEN lowLink
                    ELSE [lowLink EXCEPT ![work[n - 1].node] = Min({@, lowLink[v]})]
  BY CloseEffect
<1>3. n \in 1..n /\ v \in Files /\ OnStack(v) /\ index[v] \in Nat /\ index[v] = lowLink[v]
  BY <1>2
<1>4. at \in DOMAIN stack /\ stack[at] = v
  BY <1>3 DEF OnStack
<1>5. /\ components' = Append(components, ToSet(SubSeq(stack, at, Len(stack))))
      /\ stack' = SubSeq(stack, 1, at - 1)
  BY <1>2, <1>3 DEF CloseFrame
<1>6. /\ v \in C
      /\ \A f \in C : C \subseteq ReachedFrom(f) /\ \A h \in Neighbors(f) : h \in C \/ Done(h)
  BY <1>2, <1>3, CloseEffect, RootIsComplete
<1>7. \A f \in Files : f \in C <=> OnStack(f) /\ index[f] >= index[v]
  BY DEF TopFrom
<1> HIDE DEF at
<1>8. /\ ToSet(SubSeq(stack, at, Len(stack))) = C
      /\ stack' \in Seq(Files) /\ DOMAIN stack' = 1..(at - 1)
      /\ \A i \in 1..(at - 1) : i \in DOMAIN stack /\ stack'[i] = stack[i]
      /\ \A f \in Files : (\E i \in 1..(at - 1) : stack[i] = f) <=> OnStack(f) /\ index[f] < index[v]
  BY <1>1, <1>4, <1>5, StackFrom DEF TopFrom
<1>9. C \subseteq Files
  BY DEF TopFrom
<1> HIDE DEF v, C
<1>10. \A f \in Files : OnStack(f)' <=> OnStack(f) /\ index[f] < index[v]
  BY <1>8 DEF OnStack
<1>11. /\ components \in Seq(SUBSET Files) /\ components' \in Seq(SUBSET Files)
       /\ c \in Nat /\ DOMAIN components = 1..c /\ DOMAIN components' = 1..(c + 1)
       /\ \A i \in 1..c : components'[i] = components[i]
       /\ components'[c + 1] = C
  BY <1>1, <1>5, <1>8, <1>9 DEF SearchTypes
<1> HIDE DEF c
<1>12. lowLink' = lowLink
  <2>1. CASE n = 1
    BY <1>2, <2>1
  <2>2. CASE n # 1
    <3> DEFINE p == work[n - 1].node
               low == Min({lowLink[p], lowLink[v]})
               m == n
    <3>1. m \in Nat \ {0} /\ m # 1
      BY <1>2, <2>2
    <3> HIDE DEF m
    <3>2. m - 1 \in 1..(m - 1)
      BY <3>1
    <3>3. p \in Files /\ OnStack(p) /\ index[p] \in Nat /\ index[p] < index[v]
      BY <1>2, <3>2 DEF m, v
    <3>4. lowLink' = [lowLink EXCEPT ![p] = low]
      BY <1>2, <2>2 DEF v
    <3> HIDE DEF p
    <3>5. lowLink[p] <= index[p] /\ lowLink[p] \in Nat
      BY <1>1, <3>3 DEF LowIsReached, SearchTypes
    <3>6. low \in Nat /\ low <= lowLink[p] /\ (low = lowLink[p] \/ low = lowLink[v])
      BY <1>3, <3>5, MinOfTwo
    <3> HIDE DEF low
    <3>7. low = lowLink[p]
      BY <1>3, <3>3, <3>5, <3>6
    <3> QED
      BY <1>1, <3>3, <3>4, <3>7 DEF SearchTypes
  <2> QED
    BY <2>1, <2>2
<1>13. v = work[n].node /\ n = Len(work)
  BY DEF v
<1> HIDE DEF n
<1>14. Nodes' = Nodes /\ \A f : Neighbors(f)' = Neighbors(f) /\ ReachedFrom(f)' = ReachedFrom(f)
  BY SameCalls
<1>15. \A f : Done(f)' <=> Done(f) \/ f \in C
  <2>1. \A i \in 1..(c + 1) : i = c + 1 \/ i \in 1..c
    BY <1>11
  <2>2. c + 1 \in 1..(c + 1) /\ \A i \in 1..c : i \in 1..(c + 1)
    BY <1>11
  <2> QED
    BY <1>11, <2>1, <2>2 DEF Done
<1>16. SearchTypes'
  BY <1>1, <1>2, <1>8, <1>11, <1>12 DEF SearchTypes, Frames
<1>17. InTurn'
  BY <1>1, <1>2, <1>14 DEF InTurn
<1>18. StackRises'
  BY <1>1, <1>2, <1>8 DEF StackRises, Entered
<1>19. EachInItsPlace'
  <2>1. \A f \in Files : Entered(f)' <=> OnStack(f)' \/ Done(f)'
    <3> TAKE f \in Files
    <3>1. OnStack(f) => index[f] \in Nat
      BY <1>1, IndexNames
    <3>2. OnStack(f) => index[f] < index[v] \/ f \in C
      BY <1>3, <1>7, <3>1
    <3>3. f \in C => OnStack(f)
      BY <1>7
    <3> QED
      BY <1>1, <1>2, <1>10, <1>15, <3>2, <3>3 DEF EachInItsPlace
  <2>2. \A f \in Files : ~(OnStack(f)' /\ Done(f)')
    <3> TAKE f \in Files
    <3>1. OnStack(f) => index[f] \in Nat
      BY <1>1, IndexNames
    <3>2. f \in C => OnStack(f) /\ index[f] >= index[v]
      BY <1>7
    <3>3. f \in C => ~(index[f] < index[v])
      BY <1>3, <3>1, <3>2
    <3> QED
      BY <1>1, <1>10, <1>15, <3>3 DEF EachInItsPlace
  <2>3. \A i \in 1..(c + 1) : i \in 1..c \/ i = c + 1
    BY <1>11
  <2>4. \A i \in 1..(c + 1) : components'[i] # {}
    BY <1>1, <1>6, <1>11, <2>3 DEF EachInItsPlace
  <2>5. \A i, j \in 1..(c + 1) : \A f \in Files : f \in components'[i] /\ f \in components'[j] => i = j
    <3>1. \A i \in 1..c : \A f \in Files : f \in components[i] => f \notin C
      BY <1>1, <1>7, <1>11 DEF EachInItsPlace, Done
    <3> QED
      BY <1>1, <1>11, <2>3, <3>1 DEF EachInItsPlace
  <2> QED
    BY <1>11, <2>1, <2>2, <2>4, <2>5 DEF EachInItsPlace
<1>20. FramesRise' /\ VisitedEntered'
  <2>1. \A k \in 1..(n - 1) : \E i \in DOMAIN stack' : stack'[i] = work[k].node
    <3> TAKE k \in 1..(n - 1)
    <3>1. work[k].node \in Files /\ OnStack(work[k].node) /\ index[work[k].node] < index[v]
      BY <1>2, <1>13
    <3>2. PICK i \in 1..(at - 1) : stack[i] = work[k].node
      BY <1>8, <3>1
    <3> QED
      BY <1>8, <3>2
  <2> QED
    BY <1>13, <2>1, CloseKeeps
<1>21. DoneIsClosed'
  <2> SUFFICES ASSUME NEW i \in 1..(c + 1), NEW f \in components'[i]
               PROVE  /\ \A g \in Neighbors(f) : \E j \in 1..(c + 1) : j <= i /\ g \in components'[j]
                      /\ components'[i] \subseteq ReachedFrom(f)
    BY <1>11, <1>14 DEF DoneIsClosed
  <2>1. CASE i = c + 1
    <3>1. f \in C /\ C \subseteq ReachedFrom(f)
      BY <1>6, <1>11, <2>1
    <3>2. ASSUME NEW g \in Neighbors(f) PROVE \E j \in 1..(c + 1) : j <= i /\ g \in components'[j]
      <4>1. CASE g \in C
        BY <1>11, <2>1, <4>1
      <4>2. CASE Done(g)
        <5>1. PICK j \in 1..c : g \in components[j]
          BY <1>11, <4>2 DEF Done
        <5>2. j \in 1..(c + 1) /\ j <= c + 1
          BY <1>11
        <5> QED
          BY <1>11, <2>1, <5>1, <5>2
      <4> QED
        BY <1>6, <3>1, <4>1, <4>2
    <3> QED
      BY <1>11, <2>1, <3>1, <3>2
  <2>2. CASE i # c + 1
    <3>1. i \in 1..c /\ \A j \in 1..c : j \in 1..(c + 1)
      BY <1>11, <2>2
    <3>2. f \in components[i] /\ components'[i] = components[i]
      BY <1>11, <3>1
    <3>3. /\ \A g \in Neighbors(f) : \E j \in 1..c : j <= i /\ g \in components[j]
          /\ components[i] \subseteq ReachedFrom(f)
      BY <1>1, <1>11, <3>1, <3>2 DEF DoneIsClosed
    <3> QED
      BY <1>11, <3>1, <3>2, <3>3
  <2> QED
    BY <2>1, <2>2
<1>22. LowIsReached'
  <2> SUFFICES ASSUME NEW f \in Files, OnStack(f), index[f] < index[v]
               PROVE  /\ lowLink[f] <= index[f]
                      /\ \E q \in Files : OnStack(q)' /\ q \in ReachedFrom(f) /\ index[q] = lowLink[f]
    BY <1>2, <1>10, <1>12, <1>14 DEF LowIsReached
  <2>1. lowLink[f] <= index[f] /\ lowLink[f] \in Nat /\ index[f] \in Nat
    BY <1>1, IndexNames DEF LowIsReached, SearchTypes
  <2>2. PICK q \in Files : OnStack(q) /\ q \in ReachedFrom(f) /\ index[q] = lowLink[f]
    BY <1>1 DEF LowIsReached
  <2>3. index[q] < index[v]
    BY <1>3, <2>1, <2>2
  <2> QED
    BY <1>10, <2>1, <2>2, <2>3
<1>23. ReachesFrame'
  <2> SUFFICES ASSUME NEW f \in Files, OnStack(f), index[f] < index[v]
               PROVE  \E k \in 1..(n - 1) : work'[k].node \in ReachedFrom(f) /\ index[work'[k].node] <= index[f]
    BY <1>2, <1>10, <1>14 DEF ReachesFrame
  <2>1. PICK k \in 1..n : work[k].node \in ReachedFrom(f) /\ index[work[k].node] <= index[f]
    BY <1>1, <1>2 DEF ReachesFrame
  <2>2. index[f] \in Nat
    BY <1>1, IndexNames
  <2>3. k # n
    BY <1>3, <1>13, <2>1, <2>2
  <2>4. k \in 1..(n - 1)
    BY <1>2, <2>3
  <2> QED
    BY <1>2, <2>1, <2>4
<1>24. FrameReaches'
  <2> SUFFICES ASSUME NEW k \in 1..(n - 1), NEW f \in Files, OnStack(f), index[f] >= index[work[k].node]
               PROVE  f \in ReachedFrom(work[k].node)
    BY <1>2, <1>10, <1>14 DEF FrameReaches
  <2> QED
    BY <1>1, <1>2 DEF FrameReaches
<1>25. LowBounds'
  <2> SUFFICES ASSUME NEW k \in 1..(n - 1), NEW f \in Files, OnStack(f), index[f] < index[v],
                      index[f] >= index[work[k].node],
                      k < n - 1 => index[f] < index[work'[k + 1].node],
                      NEW q \in Neighbors(f), OnStack(q)', ~(f = work[k].node /\ q \in work[k].left)
               PROVE  index[q] >= lowLink[work[k].node]
    BY <1>2, <1>10, <1>12, <1>14 DEF LowBounds
  <2>1. q \in Files
    BY <1>1, NeighborsType DEF SearchTypes
  <2>2. OnStack(q)
    BY <1>10, <2>1
  <2>3. index[f] < index[work[k + 1].node]
    <3>1. CASE k = n - 1
      <4>1. k + 1 = n
        BY <1>2, <3>1
      <4> QED
        BY <1>13, <4>1
    <3>2. CASE k # n - 1
      <4>1. k < n - 1 /\ k + 1 \in 1..(n - 1)
        BY <1>2, <3>2
      <4> QED
        BY <1>2, <4>1
    <3> QED
      BY <3>1, <3>2
  <2> QED
    BY <1>1, <1>2, <1>13, <2>2, <2>3 DEF LowBounds
<1> QED
  BY <1>16, <1>17, <1>18, <1>19, <1>20, <1>21, <1>22, <1>23, <1>24, <1>25 DEF SearchInv

-----------------------------------------------------------------------------
(* The report.                                                             *)

LEMMA ReportKeeps ==
    ASSUME SearchInv, calls' = calls, UNCHANGED <<index, lowLink, stack, work, components>>
    PROVE  SearchInv'
<1>1. Nodes' = Nodes /\ \A f : Neighbors(f)' = Neighbors(f) /\ ReachedFrom(f)' = ReachedFrom(f)
  BY SameCalls
<1>2. /\ NextIndex' = NextIndex /\ \A f : (Entered(f)' <=> Entered(f)) /\ (OnStack(f)' <=> OnStack(f))
      /\ \A f : Done(f)' <=> Done(f)
      /\ \A f, g : StillLeft(f, g)' <=> StillLeft(f, g)
  BY DEF NextIndex, Entered, OnStack, Done, StillLeft
<1>3. SearchTypes'
  BY DEF SearchInv, SearchTypes
<1>4. InTurn' /\ EachInItsPlace' /\ VisitedEntered'
  BY <1>1, <1>2 DEF SearchInv, InTurn, EachInItsPlace, VisitedEntered
<1>5. StackRises'
  BY DEF SearchInv, StackRises, Entered
<1>6. FramesRise'
  <2>1. FramesRise
    BY DEF SearchInv
  <2> QED
    BY <2>1, <1>1 DEF FramesRise, OnStack
<1>7. DoneIsClosed' /\ LowIsReached' /\ ReachesFrame'
  BY <1>1, <1>2 DEF SearchInv, DoneIsClosed, LowIsReached, ReachesFrame
<1>8. FrameReaches' /\ LowBounds'
  BY <1>1, <1>2 DEF SearchInv, FrameReaches, LowBounds
<1> QED
  BY <1>3, <1>4, <1>5, <1>6, <1>7, <1>8 DEF SearchInv

LEMMA ComponentsClosed ==
    ASSUME SearchInv
    PROVE  ComponentsAreClosed
<1>1. SearchTypes /\ EachInItsPlace /\ DoneIsClosed
  BY DEF SearchInv
<1>2. DOMAIN components \subseteq Nat /\ \A i \in DOMAIN components : components[i] \subseteq Files
  BY <1>1 DEF SearchTypes
<1> DEFINE Until(i) == {h \in Files : \E j \in DOMAIN components : j <= i /\ h \in components[j]}
<1>3. ASSUME NEW i \in DOMAIN components PROVE Closed(Until(i))
  <2> SUFFICES ASSUME NEW h \in Until(i), NEW q \in Neighbors(h) PROVE q \in Until(i)
    BY DEF Closed
  <2>1. PICK j \in DOMAIN components : j <= i /\ h \in components[j]
    OBVIOUS
  <2>2. PICK m \in DOMAIN components : m <= j /\ q \in components[m]
    BY <1>1, <2>1 DEF DoneIsClosed
  <2>3. m <= i /\ q \in Files
    BY <1>2, <2>1, <2>2
  <2> QED
    BY <2>2, <2>3
<1>4. ASSUME NEW i \in DOMAIN components, NEW f \in components[i]
      PROVE  /\ f \in Files
             /\ \A g \in ReachedFrom(f) : \E j \in DOMAIN components : j <= i /\ g \in components[j]
  <2>1. f \in Files /\ f \in Until(i)
    BY <1>2
  <2>2. ReachedFrom(f) \subseteq Until(i)
    BY <1>1, <1>3, <2>1, ReachedFromIsLeast DEF SearchTypes
  <2> QED
    BY <2>1, <2>2
<1> SUFFICES ASSUME NEW i \in DOMAIN components, NEW f \in components[i]
             PROVE  Together(f) = components[i]
  BY DEF ComponentsAreClosed
<1>5. ASSUME NEW g \in components[i] PROVE g \in Together(f)
  <2>1. g \in ReachedFrom(f) /\ f \in ReachedFrom(g)
    BY <1>1, <1>5 DEF DoneIsClosed
  <2> QED
    BY <2>1 DEF Together
<1>6. ASSUME NEW g \in Together(f) PROVE g \in components[i]
  <2>1. g \in ReachedFrom(f) /\ f \in ReachedFrom(g)
    BY DEF Together
  <2>2. PICK j \in DOMAIN components : j <= i /\ g \in components[j]
    BY <1>4, <2>1
  <2>3. PICK m \in DOMAIN components : m <= j /\ f \in components[m]
    BY <1>4, <2>1, <2>2
  <2>4. m = i
    BY <1>1, <1>4, <2>3 DEF EachInItsPlace
  <2>5. i = j
    BY <1>2, <2>2, <2>3, <2>4
  <2> QED
    BY <2>2, <2>5
<1> QED
  BY <1>5, <1>6

\* When no search is left to start, the components are the classes of mutual reachability.
LEMMA SearchSettled ==
    ASSUME SearchInv, work = <<>>, \A f \in Nodes : Entered(f)
    PROVE  /\ \A f \in Nodes : \E i \in DOMAIN components : Together(f) = components[i]
           /\ \A i \in DOMAIN components : \E f \in Nodes : Together(f) = components[i]
<1>1. SearchTypes /\ EachInItsPlace /\ InTurn /\ ComponentsAreClosed
  BY ComponentsClosed DEF SearchInv
<1>2. \A f \in Files : ~OnStack(f)
  BY DEF SearchInv, ReachesFrame
<1>3. \A f \in Files : f \in Nodes <=> Done(f)
  BY <1>1, <1>2 DEF EachInItsPlace, InTurn
<1>4. Nodes \subseteq Files /\ \A i \in DOMAIN components : components[i] \subseteq Files /\ components[i] # {}
  BY <1>1 DEF Nodes, SearchTypes, EachInItsPlace
<1>5. ASSUME NEW f \in Nodes PROVE \E i \in DOMAIN components : Together(f) = components[i]
  BY <1>1, <1>3, <1>4 DEF Done, ComponentsAreClosed
<1>6. ASSUME NEW i \in DOMAIN components PROVE \E f \in Nodes : Together(f) = components[i]
  <2>1. PICK f \in components[i] : f \in Files
    BY <1>4
  <2>2. f \in Nodes
    BY <1>3, <2>1 DEF Done
  <2> QED
    BY <1>1, <2>1, <2>2 DEF ComponentsAreClosed
<1> QED
  BY <1>5, <1>6

Size(i) == Cardinality(components[i])

Large == {i \in DOMAIN components : Size(i) > 1}

\* The components that are reported before one.
BiggerThan ==
    [j \in Large |->
       {i \in Large : Size(i) > Size(j) \/ (Size(i) = Size(j) /\ Min(components[i]) < Min(components[j]))}]

LEMMA BiggerIsOrder ==
    ASSUME SearchInv
    PROVE  /\ IsFiniteSet(Large) /\ IsOrder(BiggerThan, Large)
           /\ \A i, j \in Large : components[i] = components[j] => i = j
           /\ \A i \in DOMAIN components : Size(i) \in Nat
<1>1. SearchTypes /\ EachInItsPlace
  BY DEF SearchInv
<1>2. DOMAIN components = 1..Len(components) /\ Len(components) \in Nat
  BY <1>1 DEF SearchTypes
<1>3. IsFiniteSet(Large)
  <2>1. IsFiniteSet(1..Len(components)) /\ Large \subseteq 1..Len(components)
    BY <1>2, CountTo DEF Large
  <2> QED
    BY <2>1, FS_Subset
<1>4. ASSUME NEW i \in DOMAIN components
      PROVE  /\ components[i] \subseteq Files /\ components[i] # {} /\ Size(i) \in Nat
             /\ Min(components[i]) \in components[i] /\ Min(components[i]) \in Nat
  <2>1. components[i] \in SUBSET Files /\ components[i] # {}
    BY <1>1 DEF SearchTypes, EachInItsPlace
  <2>2. IsFiniteSet(components[i])
    BY <2>1, FilesCount, FS_Subset
  <2>3. Size(i) \in Nat
    BY <2>2, FS_CardinalityType DEF Size
  <2>4. components[i] \subseteq Nat
    BY <2>1, GraphAssumption
  <2>5. \E m \in components[i] : \A k \in components[i] : m <= k
    BY <2>1, <2>4, LeastNumber
  <2>6. Min(components[i]) \in components[i]
    BY <2>5 DEF Min
  <2> QED
    BY <2>1, <2>3, <2>4, <2>6
<1>5. ASSUME NEW i \in Large, NEW j \in Large, Min(components[i]) = Min(components[j])
      PROVE  i = j
  <2>1. i \in DOMAIN components /\ j \in DOMAIN components
    BY DEF Large
  <2> QED
    BY <1>1, <1>4, <1>5, <2>1 DEF EachInItsPlace
<1> DEFINE size == [i \in Large |-> Size(i)]
           least == [i \in Large |-> Min(components[i])]
<1>6. size \in [Large -> Nat] /\ least \in [Large -> Nat] /\ \A i, j \in Large : least[i] = least[j] => i = j
  BY <1>4, <1>5 DEF Large
<1>7. BiggerThan = [j \in Large |-> {i \in Large : size[i] > size[j] \/ (size[i] = size[j] /\ least[i] < least[j])}]
  BY DEF BiggerThan
<1> HIDE DEF size, least
<1>8. IsOrder(BiggerThan, Large)
  <2>1. \A i, j \in Large : i \in BiggerThan[j] <=> size[i] > size[j] \/ (size[i] = size[j] /\ least[i] < least[j])
    BY <1>7
  <2>2. BiggerThan \in [Large -> SUBSET Large]
    BY <1>7
  <2>3. \A i \in Large : i \notin BiggerThan[i]
    BY <1>6, <2>1
  <2>4. \A i, j \in Large : i # j => i \in BiggerThan[j] \/ j \in BiggerThan[i]
    BY <1>6, <2>1
  <2>5. ASSUME NEW i \in Large, NEW j \in Large, i \in BiggerThan[j], NEW k \in Large, k \in BiggerThan[i]
        PROVE  k \in BiggerThan[j]
    <3>1. size[i] \in Nat /\ size[j] \in Nat /\ size[k] \in Nat /\ least[i] \in Nat /\ least[j] \in Nat /\ least[k] \in Nat
      BY <1>6
    <3> QED
      BY <2>1, <2>5, <3>1
  <2> QED
    BY <2>2, <2>3, <2>4, <2>5 DEF IsOrder
<1> QED
  BY <1>3, <1>4, <1>5, <1>8

GroupsBy(order) ==
    [groups |-> [k \in 1..Min({GroupCap, Cardinality(Large)}) |-> components[order[k]]],
     total |-> Cardinality(Large), truncated |-> Cardinality(Large) > GroupCap]

LEMMA ReportIsRanked ==
    ASSUME SearchInv, ReportGroups
    PROVE  \E order : IsRanking(order, BiggerThan, Large) /\ groups' = GroupsBy(order)
<1> DEFINE order == [k \in 1..Cardinality(Large) |->
                       CHOOSE x \in Large : Cardinality({y \in Large : \/ Size(y) > Size(x)
                                                                       \/ Size(y) = Size(x) /\ Min(components[y]) < Min(components[x])}) = k - 1]
           total == Cardinality(Large)
<1>1. groups' = GroupsBy(order)
  BY DEF ReportGroups, Large, Size, InOrder, GroupsBy
<1>2. ASSUME NEW k \in 1..total
      PROVE  order[k] \in Large /\ Cardinality(BiggerThan[order[k]]) = k - 1
  <2>1. \E x \in Large : Cardinality(BiggerThan[x]) = k - 1
    BY BiggerIsOrder, Ranks
  <2>2. \A x \in Large : BiggerThan[x] = {y \in Large : \/ Size(y) > Size(x)
                                                        \/ Size(y) = Size(x) /\ Min(components[y]) < Min(components[x])}
    BY DEF BiggerThan
  <2> QED
    BY <2>1, <2>2
<1>3. IsRanking(order, BiggerThan, Large)
  <2>1. order \in [1..total -> Large]
    BY <1>2
  <2> QED
    BY <1>2, <2>1 DEF IsRanking
<1> HIDE DEF order
<1> QED
  BY <1>1, <1>3

LEMMA ReportIsRight ==
    ASSUME SearchInv, calls' = calls, ReportGroups
    PROVE  GroupsAreCycles'
<1> DEFINE total == Cardinality(Large)
           shown == Min({GroupCap, total})
           due == {c \in {Together(f) : f \in Nodes} : Cardinality(c) > 1}
<1>1. PICK order : IsRanking(order, BiggerThan, Large) /\ groups' = GroupsBy(order)
  BY ReportIsRanked
<1>2. /\ IsFiniteSet(Large) /\ IsOrder(BiggerThan, Large)
      /\ \A i, j \in Large : components[i] = components[j] => i = j
      /\ \A i \in DOMAIN components : Size(i) \in Nat
  BY BiggerIsOrder
<1>3. /\ total \in Nat
      /\ \A x \in Large : \E k \in 1..total : order[k] = x
      /\ \A j, k \in 1..total : j < k <=> order[j] \in BiggerThan[order[k]]
      /\ \A j, k \in 1..total : order[j] = order[k] => j = k
  BY <1>1, <1>2, RankedInOrder
<1>4. shown \in Nat /\ shown <= total
  BY <1>3, MinOfTwo, CyclesAssumption
<1>5. \A c : c \in due <=> \E i \in Large : c = components[i]
  <2>1. /\ \A f \in Nodes : \E i \in DOMAIN components : Together(f) = components[i]
        /\ \A i \in DOMAIN components : \E f \in Nodes : Together(f) = components[i]
    BY SearchSettled DEF ReportGroups
  <2> QED
    BY <2>1 DEF Large, Size
<1>6. Cardinality(due) = total
  <2> DEFINE pair == [i \in Large |-> components[i]]
  <2>1. pair \in [Large -> due] /\ (\A i, j \in Large : pair[i] = pair[j] => i = j) /\ \A c \in due : \E i \in Large : pair[i] = c
    BY <1>2, <1>5
  <2> HIDE DEF due, pair
  <2> QED
    BY <1>2, <2>1, SameSize
<1>7. due' = due
  <2>1. Nodes' = Nodes /\ \A f : ReachedFrom(f)' = ReachedFrom(f)
    BY SameCalls
  <2> QED
    BY <2>1 DEF Together
<1> HIDE DEF due
<1> DEFINE out == [k \in 1..shown |-> components[order[k]]]
<1>8. /\ groups'.groups = out /\ groups'.total = total
  BY <1>1 DEF GroupsBy
<1> HIDE DEF total, shown
<1>9. /\ DOMAIN out = 1..shown /\ Len(out) = shown
      /\ \A k \in 1..shown : k \in 1..total /\ order[k] \in Large /\ out[k] = components[order[k]]
  <2>1. order \in [1..total -> Large]
    BY <1>1 DEF IsRanking, total
  <2> QED
    BY <1>3, <1>4, <2>1
<1> HIDE DEF out
<1>10. \A c : c \in ToSet(out) <=> \E k \in 1..shown : c = components[order[k]]
  BY <1>9 DEF ToSet
<1>11. ToSet(out) \subseteq due
  BY <1>5, <1>9, <1>10
<1>12. Cardinality(ToSet(out)) = shown
  <2>1. \A j, k \in 1..shown : out[j] = out[k] => j = k
    BY <1>2, <1>3, <1>9
  <2>2. out \in [1..shown -> ToSet(out)] /\ \A c \in ToSet(out) : \E k \in 1..shown : out[k] = c
    <3>1. out = [k \in 1..shown |-> components[order[k]]]
      BY DEF out
    <3> QED
      BY <1>9, <1>10, <3>1
  <2>3. IsFiniteSet(1..shown) /\ Cardinality(1..shown) = shown
    BY <1>4, CountTo
  <2> QED
    BY <2>1, <2>2, <2>3, SameSize
<1>13. ASSUME NEW c \in due \ ToSet(out), NEW i \in 1..shown
       PROVE  Cardinality(c) <= Cardinality(out[i])
  <2>1. PICK x \in Large : c = components[x]
    BY <1>5
  <2>2. PICK k \in 1..total : order[k] = x
    BY <1>3
  <2>3. k \notin 1..shown
    BY <1>10, <1>13, <2>1, <2>2
  <2>4. i < k /\ i \in 1..total
    BY <1>3, <1>4, <2>3
  <2>5. order[i] \in BiggerThan[x] /\ order[i] \in Large
    BY <1>3, <1>9, <2>2, <2>4
  <2>6. Size(order[i]) > Size(x) \/ Size(order[i]) = Size(x)
    BY <2>5 DEF BiggerThan
  <2>7. Size(order[i]) \in Nat /\ Size(x) \in Nat
    BY <1>2, <2>5 DEF Large
  <2>8. Cardinality(c) = Size(x) /\ Cardinality(out[i]) = Size(order[i])
    BY <1>9, <2>1 DEF Size
  <2> QED
    BY <2>6, <2>7, <2>8
<1>14. shown = Min({GroupCap, Cardinality(due)})
  BY <1>6 DEF shown
<1>15. due = {c \in {Together(f)' : f \in Nodes'} : Cardinality(c) > 1}
  BY <1>7 DEF due
<1>16. /\ groups'.total = Cardinality(due)
       /\ ToSet(groups'.groups) \subseteq due
       /\ Len(groups'.groups) = Min({GroupCap, Cardinality(due)})
       /\ Cardinality(ToSet(groups'.groups)) = Len(groups'.groups)
       /\ \A c \in due \ ToSet(groups'.groups), i \in DOMAIN groups'.groups :
             Cardinality(c) <= Cardinality(groups'.groups[i])
  BY <1>6, <1>8, <1>9, <1>11, <1>12, <1>13, <1>14
<1> QED
  BY <1>15, <1>16 DEF GroupsAreCycles

-----------------------------------------------------------------------------
(* Every run.                                                              *)

CyclesInv == SearchInv /\ GroupsAreCycles

LEMMA CyclesStart == Init => CyclesInv
<1> SUFFICES ASSUME Init PROVE CyclesInv
  OBVIOUS
<1>1. /\ calls \subseteq Sites /\ index = [f \in Files |-> NoIndex] /\ lowLink = [f \in Files |-> 0]
      /\ stack = <<>> /\ work = <<>> /\ components = <<>> /\ cpc # "done"
  BY DEF Init, AnyGraph, Walking, Attributing, Grouping, Comparing, CyclesInit, CyclesIdle
<1>2. SearchTypes
  BY <1>1 DEF SearchTypes
<1>3. DOMAIN stack = {} /\ DOMAIN work = {} /\ DOMAIN components = {}
  BY <1>1
<1>4. \A f \in Files : ~Entered(f) /\ ~OnStack(f) /\ ~Done(f)
  BY <1>1, <1>3 DEF Entered, OnStack, Done
<1>5. SearchInv
  BY <1>2, <1>3, <1>4 DEF SearchInv, InTurn, StackRises, EachInItsPlace, FramesRise, VisitedEntered,
     DoneIsClosed, LowIsReached, ReachesFrame, FrameReaches, LowBounds
<1> QED
  BY <1>1, <1>5 DEF CyclesInv, GroupsAreCycles

\* A step that leaves a report as it is leaves it right.
LEMMA ReportStays ==
    ASSUME GroupsAreCycles, calls' = calls, cpc' = cpc, cpc = "done" => groups' = groups
    PROVE  GroupsAreCycles'
<1>1. CASE cpc = "done"
  <2> DEFINE due == {c \in {Together(f) : f \in Nodes} : Cardinality(c) > 1}
  <2>1. Nodes' = Nodes /\ \A f : ReachedFrom(f)' = ReachedFrom(f)
    BY SameCalls
  <2>2. due' = due /\ groups' = groups
    BY <1>1, <2>1 DEF Together
  <2>3. /\ groups.total = Cardinality(due)
        /\ ToSet(groups.groups) \subseteq due
        /\ Len(groups.groups) = Min({GroupCap, Cardinality(due)})
        /\ Cardinality(ToSet(groups.groups)) = Len(groups.groups)
        /\ \A c \in due \ ToSet(groups.groups), i \in DOMAIN groups.groups :
              Cardinality(c) <= Cardinality(groups.groups[i])
    BY <1>1 DEF GroupsAreCycles
  <2>4. due = {c \in {Together(f)' : f \in Nodes'} : Cardinality(c) > 1}
    BY <2>2
  <2> HIDE DEF due
  <2> QED
    BY <2>2, <2>3, <2>4 DEF GroupsAreCycles
<1>2. CASE cpc # "done"
  BY <1>2 DEF GroupsAreCycles
<1> QED
  BY <1>1, <1>2

LEMMA CyclesStepKeeps == CyclesInv /\ [Next]_vars => CyclesInv'
<1> SUFFICES ASSUME CyclesInv, [Next]_vars PROVE CyclesInv'
  OBVIOUS
<1>0. SearchInv /\ GroupsAreCycles
  BY DEF CyclesInv
<1>1. ASSUME CyclesStep, calls' = calls PROVE CyclesInv'
  <2>1. CASE StartSearch
    <3>1. SearchInv'
      BY <1>0, <1>1, <2>1, StartSearchKeeps
    <3>2. cpc' = cpc /\ groups' = groups
      BY <2>1 DEF StartSearch
    <3> QED
      BY <1>0, <1>1, <3>1, <3>2, ReportStays DEF CyclesInv
  <2>2. CASE CloseFrame
    <3>1. SearchInv'
      BY <1>0, <1>1, <2>2, CloseInnerKeeps, CloseRootKeeps
    <3>2. cpc' = cpc /\ groups' = groups
      BY <2>2 DEF CloseFrame
    <3> QED
      BY <1>0, <1>1, <3>1, <3>2, ReportStays DEF CyclesInv
  <2>3. CASE ReportGroups
    <3>1. SearchInv'
      BY <1>0, <1>1, <2>3, ReportKeeps DEF ReportGroups
    <3>2. GroupsAreCycles'
      BY <1>0, <1>1, <2>3, ReportIsRight
    <3> QED
      BY <3>1, <3>2 DEF CyclesInv
  <2>4. ASSUME NEW g \in Files, Descend(g) PROVE CyclesInv'
    <3>1. SearchInv'
      BY <1>0, <1>1, <2>4, DescendKeeps
    <3>2. cpc' = cpc /\ groups' = groups
      BY <2>4 DEF Descend
    <3> QED
      BY <1>0, <1>1, <3>1, <3>2, ReportStays DEF CyclesInv
  <2>5. ASSUME NEW g \in Files, Lower(g) PROVE CyclesInv'
    <3>1. SearchInv'
      BY <1>0, <1>1, <2>5, LowerKeeps
    <3>2. cpc' = cpc /\ groups' = groups
      BY <2>5 DEF Lower
    <3> QED
      BY <1>0, <1>1, <3>1, <3>2, ReportStays DEF CyclesInv
  <2> QED
    BY <1>1, <2>1, <2>2, <2>3, <2>4, <2>5 DEF CyclesStep
<1>2. ASSUME calls' = calls, cycling' = cycling PROVE CyclesInv'
  <2>1. UNCHANGED <<index, lowLink, stack, work, components>> /\ cpc' = cpc /\ groups' = groups
    BY <1>2 DEF cycling
  <2> QED
    BY <1>0, <1>2, <2>1, ReportKeeps, ReportStays DEF CyclesInv
<1> QED
  BY <1>1, <1>2 DEF Next, vars

LEMMA CyclesInvariant == Spec => []CyclesInv
  BY CyclesStart, CyclesStepKeeps, PTL DEF Spec

\* At every moment of cycles' search (query/health.rs), on every call graph, what was taken
\* off the stack is a whole class of files that reach each other: no component is split and
\* none is merged with another.
THEOREM ComponentsStayClosed == Spec => []ComponentsAreClosed
<1>1. CyclesInv => ComponentsAreClosed
  BY ComponentsClosed DEF CyclesInv
<1> QED
  BY <1>1, CyclesInvariant, PTL

\* What cycles reports, on every call graph and whatever the cap: as total the number of
\* classes of two files or more, as groups that many of them or as many as the cap allows,
\* each once, and no class that is left out larger than one that is shown.
THEOREM CyclesAreReported == Spec => []GroupsAreCycles
<1>1. CyclesInv => GroupsAreCycles
  BY DEF CyclesInv
<1> QED
  BY <1>1, CyclesInvariant, PTL
=============================================================================
