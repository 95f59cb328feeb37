------------------------- MODULE KeyIterationProofs -------------------------
(***************************************************************************)
(* Iterations give back the forwards they take, however deep they nest in  *)
(* each other's callbacks, however many keys they go through and wherever  *)
(* their callbacks stop them; and they call back each key that stays live  *)
(* exactly once.                                                           *)
(***************************************************************************)
EXTENDS KeyLoops, KVStoreProofs, SequenceTheorems

\* The stack is made of frames, is no deeper than its bound, and takes its
\* forwards from among as many numbers as there may be frames, and one more.
FramesTypeOK ==
    /\ frames \in Seq(Frame)
    /\ Len(frames) <= MaxDepth
    /\ \A d \in 1..Len(frames) : frames[d].forward \in 1..(MaxDepth + 1)

FramesInv == FramesTypeOK /\ ForwardsBalanced

\* With a frame to spare there is a forward to spare.
LEMMA ForwardFree ==
    ASSUME FramesInv, Depth < MaxDepth
    PROVE  FreeForward \in 1..(MaxDepth + 1) /\ FreeForward \notin forwards
<1> DEFINE taken == [d \in 1..Depth |-> frames[d].forward]
<1>1. Depth \in Nat /\ MaxDepth \in Nat /\ Depth < MaxDepth
  BY IterationAssumption DEF FramesInv, FramesTypeOK, Depth
<1>2. forwards = {frames[d].forward : d \in 1..Depth} BY DEF FramesInv, ForwardsBalanced
<1>3. IsFiniteSet(1..Depth) /\ Cardinality(1..Depth) = Depth
  BY <1>1, FS_Interval
<1>4. taken \in Surjection(1..Depth, forwards)
  <2>1. taken \in [1..Depth -> forwards] BY <1>2
  <2>2. \A id \in forwards : \E d \in 1..Depth : taken[d] = id BY <1>2
  <2> HIDE DEF taken
  <2> QED BY <2>1, <2>2 DEF Surjection
<1>5. IsFiniteSet(forwards) /\ Cardinality(forwards) <= Depth
  BY <1>3, <1>4, FS_Surjection
<1>6. IsFiniteSet(1..(MaxDepth + 1)) /\ Cardinality(1..(MaxDepth + 1)) = MaxDepth + 1
  BY <1>1, FS_Interval
<1>7. Cardinality(forwards) \in Nat BY <1>5, FS_CardinalityType
<1>8. \E id \in 1..(MaxDepth + 1) : id \notin forwards
  <2> SUFFICES ASSUME \A id \in 1..(MaxDepth + 1) : id \in forwards PROVE FALSE
    OBVIOUS
  <2>1. 1..(MaxDepth + 1) \in SUBSET forwards OBVIOUS
  <2>2. Cardinality(1..(MaxDepth + 1)) <= Cardinality(forwards) BY <1>5, <2>1, FS_Subset
  <2> QED BY <1>1, <1>5, <1>6, <1>7, <2>2
<1> QED BY <1>8 DEF FreeForward

\* An iteration starts: its frame goes on top and takes a forward none has.
LEMMA StartKeeps ==
    ASSUME FramesInv, Depth < MaxDepth, NEW f \in Frame, f.forward = FreeForward,
           frames' = Append(frames, f), forwards' = forwards \cup {FreeForward}
    PROVE  FramesInv'
<1> DEFINE id == FreeForward
<1>1. id \in 1..(MaxDepth + 1) /\ id \notin forwards BY ForwardFree
<1>2. /\ frames \in Seq(Frame) /\ Len(frames) \in Nat /\ Len(frames) < MaxDepth
      /\ \A d \in 1..Len(frames) : frames[d].forward \in 1..(MaxDepth + 1)
  BY DEF FramesInv, FramesTypeOK, Depth
<1>3. /\ frames' \in Seq(Frame) /\ Len(frames') = Len(frames) + 1
      /\ \A d \in 1..Len(frames) : frames'[d] = frames[d]
      /\ frames'[Len(frames) + 1] = f
  BY <1>2, AppendProperties
<1>4. /\ forwards = {frames[d].forward : d \in 1..Len(frames)}
      /\ \A c, d \in 1..Len(frames) : frames[c].forward = frames[d].forward => c = d
  BY DEF FramesInv, ForwardsBalanced, Depth
<1>5. f.forward = id /\ forwards' = forwards \cup {id} OBVIOUS
<1> HIDE DEF id
<1>6. 1..Len(frames') = (1..Len(frames)) \cup {Len(frames) + 1} BY <1>2, <1>3
<1>7. FramesTypeOK'
  <2>1. Len(frames') <= MaxDepth BY <1>2, <1>3, IterationAssumption
  <2>2. \A d \in 1..Len(frames') : frames'[d].forward \in 1..(MaxDepth + 1)
    BY <1>1, <1>2, <1>3, <1>5, <1>6
  <2> QED BY <1>3, <2>1, <2>2 DEF FramesTypeOK
<1>8. forwards' = {frames'[d].forward : d \in 1..Len(frames')}
  <2>1. \A d \in 1..Len(frames) : frames'[d].forward = frames[d].forward BY <1>3
  <2>2. frames'[Len(frames) + 1].forward = id BY <1>3, <1>5
  <2> QED BY <1>4, <1>5, <1>6, <2>1, <2>2
<1>9. \A c, d \in 1..Len(frames') : frames'[c].forward = frames'[d].forward => c = d
  <2>1. \A d \in 1..Len(frames) : frames'[d].forward \in forwards BY <1>3, <1>4
  <2>2. frames'[Len(frames) + 1].forward \notin forwards BY <1>1, <1>3, <1>5
  <2>3. \A c, d \in 1..Len(frames) : frames'[c].forward = frames'[d].forward => c = d
    BY <1>3, <1>4
  <2> QED BY <1>6, <2>1, <2>2, <2>3
<1>10. ForwardsBalanced' BY <1>8, <1>9 DEF ForwardsBalanced, Depth
<1> QED BY <1>7, <1>10 DEF FramesInv

\* A frame that has moved on to its next key.
Moved(f, k, q, n) == [f EXCEPT !.key = k, !.rest = q, !.count = n]

\* It is a frame and keeps its forward.
LEMMA FrameMoves ==
    ASSUME NEW f \in Frame, NEW k \in Key, NEW q \in Seq(Key), NEW n \in Cell
    PROVE  Moved(f, k, q, n) \in Frame /\ Moved(f, k, q, n).forward = f.forward
BY DEF Frame, Moved

\* A callback returns: the frame on top moves on under the forward it has, or
\* leaves and gives it back.
LEMMA ReturnKeeps ==
    ASSUME FramesInv, NEW handled \in BOOLEAN, CallbackReturns(handled)
    PROVE  FramesInv'
<1>1. /\ frames \in Seq(Frame) /\ Depth \in Nat /\ Depth = Len(frames)
      /\ Depth <= MaxDepth /\ frames # <<>>
      /\ \A d \in 1..Depth : frames[d].forward \in 1..(MaxDepth + 1)
  BY DEF FramesInv, FramesTypeOK, Depth, CallbackReturns
<1>2. /\ forwards = {frames[d].forward : d \in 1..Depth}
      /\ \A c, d \in 1..Depth : frames[c].forward = frames[d].forward => c = d
  BY DEF FramesInv, ForwardsBalanced
<1>3. Depth \in 1..Depth /\ Depth - 1 \in Nat BY <1>1
<1>4. Top \in Frame BY <1>1, <1>3 DEF Top
<1> DEFINE moved == Moved(Top, Head(Top.rest), Tail(Top.rest), WrapCell(Top.count + 1))
<1>5. CASE /\ Top.rest # <<>> /\ frames' = [frames EXCEPT ![Depth] = moved]
           /\ UNCHANGED forwards
  <2>1. moved \in Frame /\ moved.forward = Top.forward
    <3>1. Top.rest \in Seq(Key) /\ Top.count \in Int
      BY <1>4, EngineAssumption DEF Frame, Cell
    <3>2. Head(Top.rest) \in Key /\ Tail(Top.rest) \in Seq(Key)
      BY <1>5, <3>1, HeadTailProperties
    <3>3. WrapCell(Top.count + 1) \in Cell BY <3>1, WrapCellIsCell
    <3> QED BY <1>4, <3>2, <3>3, FrameMoves
  <2> HIDE DEF moved
  <2>2. /\ frames' \in Seq(Frame) /\ Len(frames') = Depth
        /\ \A d \in 1..Depth : frames'[d] = IF d = Depth THEN moved ELSE frames[d]
    BY <1>1, <1>3, <1>5, <2>1
  <2>3. \A d \in 1..Depth : frames'[d].forward = frames[d].forward
    BY <1>3, <2>1, <2>2 DEF Top
  <2>4. FramesTypeOK' BY <1>1, <2>2, <2>3 DEF FramesTypeOK
  <2>5. /\ forwards' = {frames'[d].forward : d \in 1..Depth}
        /\ \A c, d \in 1..Depth : frames'[c].forward = frames'[d].forward => c = d
    BY <1>2, <1>5, <2>3
  <2>6. Depth' = Depth BY <1>1, <2>2 DEF Depth
  <2>7. ForwardsBalanced' BY <2>5, <2>6 DEF ForwardsBalanced
  <2> QED BY <2>4, <2>7 DEF FramesInv
<1>6. CASE /\ frames' = SubSeq(frames, 1, Depth - 1)
           /\ forwards' = forwards \ {Top.forward}
  <2>1. /\ frames' \in Seq(Frame) /\ Len(frames') = Depth - 1
        /\ \A d \in 1..(Depth - 1) : frames'[d] = frames[d]
    <3>1. \A d \in 1..(Depth - 1) : frames[d] \in Frame BY <1>1
    <3>2. /\ SubSeq(frames, 1, Depth - 1) \in Seq(Frame)
          /\ Len(SubSeq(frames, 1, Depth - 1)) = IF 1 <= Depth - 1 THEN Depth - 1 - 1 + 1 ELSE 0
          /\ \A i \in 1..(Depth - 1 - 1 + 1) : SubSeq(frames, 1, Depth - 1)[i] = frames[1 + i - 1]
      BY <1>3, <3>1, SubSeqProperties
    <3> QED BY <1>3, <1>6, <3>2
  <2>2. 1..Depth = (1..(Depth - 1)) \cup {Depth} /\ Depth \notin 1..(Depth - 1)
    BY <1>3
  <2>3. FramesTypeOK'
    <3>1. Len(frames') <= MaxDepth BY <1>1, <2>1, IterationAssumption
    <3>2. \A d \in 1..Len(frames') : frames'[d].forward \in 1..(MaxDepth + 1)
      BY <1>1, <2>1, <2>2
    <3> QED BY <2>1, <3>1, <3>2 DEF FramesTypeOK
  <2>4. \A d \in 1..(Depth - 1) : frames'[d].forward = frames[d].forward BY <2>1
  <2>5. forwards' = {frames'[d].forward : d \in 1..(Depth - 1)}
    <3>1. \A d \in 1..(Depth - 1) : frames[d].forward # Top.forward
      BY <1>2, <2>2 DEF Top
    <3> QED BY <1>2, <1>6, <2>2, <2>4, <3>1 DEF Top
  <2>6. ForwardsBalanced' BY <1>2, <2>1, <2>2, <2>4, <2>5 DEF ForwardsBalanced, Depth
  <2> QED BY <2>3, <2>6 DEF FramesInv
<1>7. \/ /\ Top.rest # <<>>
         /\ frames' = [frames EXCEPT ![Depth] =
               [@ EXCEPT !.key = Head(Top.rest), !.rest = Tail(Top.rest),
                         !.count = WrapCell(Top.count + 1)]]
         /\ forwards' = forwards
      \/ /\ frames' = SubSeq(frames, 1, Depth - 1)
         /\ forwards' = forwards \ {Top.forward}
  BY Zenon DEF CallbackReturns, Ahead, Unregistered
<1>8. [frames[Depth] EXCEPT !.key = Head(Top.rest), !.rest = Tail(Top.rest),
                            !.count = WrapCell(Top.count + 1)] = moved
  BY DEF Moved, Top
<1> HIDE DEF moved
<1> QED BY <1>5, <1>6, <1>7, <1>8

\* mem_iterate_keys, refused, over no key or started.
LEMMA IterateKeeps ==
    ASSUME FramesInv, Depth < MaxDepth, NEW ns \in Names, NEW named \in BOOLEAN,
           NEW found \in BOOLEAN, mem_iterate_keys(ns, named, found)
    PROVE  FramesInv'
<1> DEFINE keys == ret'.keys
           f == [ns |-> ns, key |-> Head(keys), rest |-> Tail(keys), count |-> 0,
                 forward |-> FreeForward]
<1>1. CASE UNCHANGED <<frames, forwards>>
  BY <1>1 DEF FramesInv, FramesTypeOK, ForwardsBalanced, Depth
<1>2. CASE /\ ~Nameless({ns}) /\ GetActiveKeys(ns) /\ keys # <<>>
           /\ frames' = Append(frames, f)
           /\ forwards' = forwards \cup {FreeForward}
  <2>1. ns \in NS BY <1>2 DEF Nameless, Names
  <2>2. PICK q \in Orders(LiveKeys(ns)) : ret' = Ret(TRUE, Len(q), q)
    BY <1>2 DEF GetActiveKeys
  <2>3. keys \in Seq(Key)
    <3>1. LiveKeys(ns) \in SUBSET Key BY <2>1, LiveKeysFinite
    <3>2. q \in Seq(Key) BY <3>1, OrdersVisitOnce
    <3> QED BY <2>2, <3>2 DEF Ret
  <2> HIDE DEF keys
  <2>4. Head(keys) \in Key /\ Tail(keys) \in Seq(Key)
    BY <1>2, <2>3, HeadTailProperties
  <2>5. FreeForward \in Nat /\ 0 \in Cell
    BY ForwardFree, IterationAssumption, EngineAssumption
  <2>6. f \in Frame /\ f.forward = FreeForward BY <2>1, <2>4, <2>5 DEF Frame
  <2> HIDE DEF f
  <2> QED BY <1>2, <2>6, StartKeeps
<1>3. \/ UNCHANGED <<frames, forwards>>
      \/ /\ ~Nameless({ns}) /\ GetActiveKeys(ns) /\ keys # <<>>
         /\ frames' = Append(frames, f)
         /\ forwards' = forwards \cup {FreeForward}
  BY Zenon DEF mem_iterate_keys, OnKeys, iterVars
<1> HIDE DEF keys, f
<1> QED BY <1>1, <1>2, <1>3

\* A step of the plugin, in a callback or outside of all of them.
LEMMA LoopsNextKeeps ==
    ASSUME FramesInv, [LoopsNext]_loopSpecVars
    PROVE  FramesInv'
<1>1. CASE UNCHANGED <<frames, forwards>>
  BY <1>1 DEF FramesInv, FramesTypeOK, ForwardsBalanced, Depth
<1>2. CASE IterationCall
  <2>1. ASSUME Depth < MaxDepth, NEW ns \in Names, NEW named \in BOOLEAN,
               NEW found \in BOOLEAN, mem_iterate_keys(ns, named, found)
        PROVE  FramesInv'
    BY <2>1, IterateKeeps
  <2>2. ASSUME NEW handled \in BOOLEAN, CallbackReturns(handled)
        PROVE  FramesInv'
    BY <2>2, ReturnKeeps
  <2> QED BY <1>2, <2>1, <2>2 DEF IterationCall
<1>3. UNCHANGED <<frames, forwards>> \/ IterationCall
  BY DEF LoopsNext, Watched, iterVars, loopSpecVars, iterSpecVars
<1> QED BY <1>1, <1>2, <1>3

\* Nothing runs at the start.
LEMMA LoopsInitHolds == LoopsInit => FramesInv
<1> SUFFICES ASSUME LoopsInit PROVE FramesInv
  OBVIOUS
<1>1. frames = <<>> /\ forwards = {} BY DEF LoopsInit, IterationInit
<1>2. frames \in Seq(Frame) /\ Len(frames) = 0 BY <1>1
<1> QED BY <1>1, <1>2, IterationAssumption
        DEF FramesInv, FramesTypeOK, ForwardsBalanced, Depth

\* However a plugin nests, stops and interleaves its iterations with the calls
\* that change the store: mem_iterate_keys unregisters exactly the forwards it
\* registered, and each iteration has one of its own.
THEOREM ForwardsAreBalanced == LoopsSpec => []ForwardsBalanced
<1>1. FramesInv => ForwardsBalanced BY DEF FramesInv
<1> QED BY LoopsInitHolds, LoopsNextKeeps, <1>1, PTL DEF LoopsSpec

-----------------------------------------------------------------------------
(* What each iteration has gone through.                                   *)

\* A number within the range of a cell is what the cell holds.
LEMMA WrapWithin ==
    ASSUME NEW x \in Cell
    PROVE  WrapCell(x) = x
<1>1. CellMin \in Int /\ CellMax \in Int /\ x \in Int /\ CellMin <= x /\ x <= CellMax
  BY EngineAssumption DEF Cell
<1> DEFINE a == x - CellMin
           b == CellMax - CellMin + 1
<1>2. a \in Int /\ b \in Int /\ 0 <= a /\ a < b BY <1>1
<1>3. a % b = a
  <2> HIDE DEF a, b
  <2> QED BY <1>2
<1> QED BY <1>1, <1>3 DEF WrapCell

\* The keys called back.
Seen(w) == {k \in Key : w.seen[k] = 1}

\* An iteration on its way: no key comes twice, those to come were never called
\* back and the others at most once, no key that stayed live is left out, and
\* count is that of the callbacks that have returned, and a cell holds the count
\* to the end.
OnItsWay(f, w) ==
    /\ \A i, j \in DOMAIN f.rest : f.rest[i] = f.rest[j] => i = j
    /\ \A i \in DOMAIN f.rest : w.seen[f.rest[i]] = 0
    /\ \A k \in Key : w.seen[k] <= 1
    /\ \A k \in w.steady : w.seen[k] = 1 \/ \E i \in DOMAIN f.rest : f.rest[i] = k
    /\ f.count \in Nat /\ f.count + 1 = Cardinality(Seen(w))
    /\ f.count + 1 + Len(f.rest) <= CellMax

\* No namespace has more live keys than a cell counts.
KeysFit == \A ns \in NS : Cardinality(LiveKeys(ns)) <= CellMax

\* Each frame on its way.
WatchInv ==
    /\ watch \in Seq(Watch) /\ Len(watch) = Len(frames)
    /\ \A d \in 1..Len(frames) : OnItsWay(frames[d], watch[d])

\* One more key called back.
LEMMA OnceMore ==
    ASSUME NEW seen \in [Key -> 0..2], NEW h \in Key, seen[h] = 0
    PROVE  /\ Once(seen, h) \in [Key -> 0..2]
           /\ Once(seen, h)[h] = 1
           /\ \A k \in Key \ {h} : Once(seen, h)[k] = seen[k]
BY DEF Once, Lesser

\* They are finite in number.
LEMMA SeenFinite ==
    ASSUME NEW w
    PROVE  IsFiniteSet(Seen(w)) /\ Cardinality(Seen(w)) \in Nat
<1>1. Seen(w) \in SUBSET Key BY DEF Seen
<1> QED BY <1>1, EngineAssumption, FS_Subset, FS_CardinalityType

\* An order of a set is as long as the set is large.
LEMMA OrderLength ==
    ASSUME NEW S \in SUBSET Key, NEW q \in Orders(S)
    PROVE  Len(q) = Cardinality(S)
<1>1. Cardinality(S) \in Nat
  BY EngineAssumption, FS_Subset, FS_CardinalityType
<1>2. q \in [1..Cardinality(S) -> S]
  BY DEF Orders, Bijection, Injection
<1> QED BY <1>1, <1>2

\* The first callback.
LEMMA Starts ==
    ASSUME NEW q \in Seq(Key), q # <<>>, Len(q) <= CellMax, NEW S \in SUBSET Key,
           \A i, j \in DOMAIN q : q[i] = q[j] => i = j,
           \A k \in S : \E i \in DOMAIN q : q[i] = k,
           NEW f, f.rest = Tail(q), f.count = 0,
           NEW w, w = [steady |-> S, seen |-> Once([k \in Key |-> 0], Head(q))]
    PROVE  w \in Watch /\ OnItsWay(f, w)
<1> DEFINE zero == [k \in Key |-> 0]
           r == Tail(q)
           h == Head(q)
<1>1. /\ h \in Key /\ r \in Seq(Key) /\ Len(r) = Len(q) - 1 /\ Len(q) \in Nat
      /\ \A i \in 1..Len(r) : r[i] = q[i + 1]
  BY HeadTailProperties
<1>2. h = q[1] /\ 1 \in DOMAIN q /\ DOMAIN q = 1..Len(q) /\ DOMAIN r = 1..Len(r)
  BY <1>1
<1>3. zero \in [Key -> 0..2] /\ \A k \in Key : zero[k] = 0 OBVIOUS
<1> HIDE DEF zero, r, h
<1>4. /\ w.seen \in [Key -> 0..2] /\ w.seen[h] = 1
      /\ \A k \in Key \ {h} : w.seen[k] = 0
  <2>1. w.seen = Once(zero, h) BY DEF zero, h
  <2>2. zero[h] = 0 BY <1>1, <1>3
  <2> QED BY <1>1, <1>3, <2>1, <2>2, OnceMore
<1>5. w.steady = S OBVIOUS
<1>6. w \in Watch BY <1>4 DEF Watch
<1>7. \A i \in DOMAIN r : i + 1 \in DOMAIN q /\ r[i] = q[i + 1] /\ r[i] \in Key /\ r[i] # h
  <2> SUFFICES ASSUME NEW i \in DOMAIN r
               PROVE  i + 1 \in DOMAIN q /\ r[i] = q[i + 1] /\ r[i] \in Key /\ r[i] # h
    OBVIOUS
  <2>1. i \in 1..Len(r) /\ i + 1 \in DOMAIN q /\ r[i] = q[i + 1] /\ r[i] \in Key
    BY <1>1, <1>2
  <2>2. i + 1 # 1 BY <2>1, <1>1
  <2> QED BY <1>2, <2>1, <2>2
<1>8. \A i, j \in DOMAIN r : r[i] = r[j] => i = j
  <2> SUFFICES ASSUME NEW i \in DOMAIN r, NEW j \in DOMAIN r, r[i] = r[j] PROVE i = j
    OBVIOUS
  <2>1. i + 1 = j + 1 BY <1>7
  <2> QED BY <1>1, <1>2, <2>1
<1>9. \A k \in S : w.seen[k] = 1 \/ \E i \in DOMAIN r : r[i] = k
  <2> SUFFICES ASSUME NEW k \in S, k # h PROVE \E i \in DOMAIN r : r[i] = k
    BY <1>4
  <2>1. PICK i \in DOMAIN q : q[i] = k OBVIOUS
  <2>2. i - 1 \in 1..Len(r) BY <1>1, <1>2, <2>1
  <2> QED BY <1>1, <1>2, <2>1, <2>2
<1>10. Cardinality(Seen(w)) = 1
  <2>1. Seen(w) = {h} BY <1>1, <1>4 DEF Seen
  <2> QED BY <2>1, FS_Singleton
<1>11. \A k \in Key : w.seen[k] <= 1 BY <1>4
<1>12. 0 + 1 + Len(r) <= CellMax BY <1>1, EngineAssumption
<1> QED BY <1>4, <1>5, <1>6, <1>7, <1>8, <1>9, <1>10, <1>11, <1>12 DEF OnItsWay, r

\* The next callback.
LEMMA GoesOn ==
    ASSUME NEW f \in Frame, NEW w \in Watch, OnItsWay(f, w), f.rest # <<>>,
           NEW g, g = Moved(f, Head(f.rest), Tail(f.rest), WrapCell(f.count + 1)),
           NEW v, v = [w EXCEPT !.seen = Once(@, Head(f.rest))]
    PROVE  v \in Watch /\ OnItsWay(g, v)
<1> DEFINE q == f.rest
           r == Tail(q)
           h == Head(q)
<1>1. q \in Seq(Key) BY DEF Frame
<1>2. /\ h \in Key /\ r \in Seq(Key) /\ Len(r) = Len(q) - 1 /\ Len(q) \in Nat
      /\ \A i \in 1..Len(r) : r[i] = q[i + 1]
  BY <1>1, HeadTailProperties
<1>3. h = q[1] /\ 1 \in DOMAIN q /\ DOMAIN q = 1..Len(q) /\ DOMAIN r = 1..Len(r)
  BY <1>1, <1>2
<1>4. /\ \A i, j \in DOMAIN q : q[i] = q[j] => i = j
      /\ \A i \in DOMAIN q : w.seen[q[i]] = 0
      /\ \A k \in Key : w.seen[k] <= 1
      /\ \A k \in w.steady : w.seen[k] = 1 \/ \E i \in DOMAIN q : q[i] = k
      /\ f.count \in Nat /\ f.count + 1 = Cardinality(Seen(w))
  BY DEF OnItsWay
<1>5. w.seen \in [Key -> 0..2] /\ w.steady \in SUBSET Key BY DEF Watch
<1>6. g.rest = r /\ g.count = WrapCell(f.count + 1) BY DEF Frame, Moved
<1>7. v \in Watch /\ v.steady = w.steady /\ v.seen = Once(w.seen, h)
  <2>1. Once(w.seen, h) \in [Key -> 0..2] BY <1>2, <1>3, <1>4, <1>5, OnceMore
  <2> HIDE DEF h
  <2>2. v = [w EXCEPT !.seen = Once(w.seen, h)] BY DEF h, Watch
  <2> QED BY <2>1, <2>2 DEF Watch
<1> HIDE DEF q, r, h
<1>8. w.seen[h] = 0 BY <1>3, <1>4
<1>9. v.seen[h] = 1 /\ \A k \in Key \ {h} : v.seen[k] = w.seen[k]
  BY <1>2, <1>5, <1>7, <1>8, OnceMore
<1>10. \A i \in DOMAIN r : i + 1 \in DOMAIN q /\ r[i] = q[i + 1] /\ r[i] \in Key /\ r[i] # h
  <2> SUFFICES ASSUME NEW i \in DOMAIN r
               PROVE  i + 1 \in DOMAIN q /\ r[i] = q[i + 1] /\ r[i] \in Key /\ r[i] # h
    OBVIOUS
  <2>1. i \in 1..Len(r) /\ i + 1 \in DOMAIN q /\ r[i] = q[i + 1] /\ r[i] \in Key
    BY <1>2, <1>3
  <2>2. i + 1 # 1 BY <2>1, <1>2
  <2> QED BY <1>3, <1>4, <2>1, <2>2
<1>11. \A i, j \in DOMAIN r : r[i] = r[j] => i = j
  <2> SUFFICES ASSUME NEW i \in DOMAIN r, NEW j \in DOMAIN r, r[i] = r[j] PROVE i = j
    OBVIOUS
  <2>1. i + 1 = j + 1 BY <1>4, <1>10
  <2> QED BY <1>2, <1>3, <2>1
<1>12. \A i \in DOMAIN r : v.seen[r[i]] = 0 BY <1>4, <1>9, <1>10
<1>13. \A k \in Key : v.seen[k] <= 1
  <2> SUFFICES ASSUME NEW k \in Key PROVE v.seen[k] <= 1
    OBVIOUS
  <2>1. CASE k = h BY <1>9, <2>1
  <2>2. CASE k # h BY <1>4, <1>9, <2>2
  <2> QED BY <2>1, <2>2
<1>14. \A k \in v.steady : v.seen[k] = 1 \/ \E i \in DOMAIN r : r[i] = k
  <2> SUFFICES ASSUME NEW k \in w.steady, k # h, w.seen[k] # 1
               PROVE  \E i \in DOMAIN r : r[i] = k
    BY <1>5, <1>7, <1>9
  <2>1. PICK i \in DOMAIN q : q[i] = k BY <1>4
  <2>2. i - 1 \in 1..Len(r) BY <1>2, <1>3, <2>1
  <2> QED BY <1>2, <1>3, <2>1, <2>2
<1>15. Cardinality(Seen(v)) = Cardinality(Seen(w)) + 1
  <2>1. Seen(v) = Seen(w) \cup {h} BY <1>2, <1>9 DEF Seen
  <2>2. h \notin Seen(w) BY <1>8 DEF Seen
  <2> QED BY <2>1, <2>2, SeenFinite, FS_AddElement
<1>16. f.count + 1 + Len(q) <= CellMax BY DEF OnItsWay, q
<1>17. g.count = f.count + 1
  <2>1. f.count + 1 \in Nat /\ f.count + 1 <= CellMax
    BY <1>2, <1>3, <1>4, <1>16, EngineAssumption
  <2>2. f.count + 1 \in Cell BY <2>1, EngineAssumption DEF Cell
  <2> QED BY <1>6, <2>2, WrapWithin
<1>18. g.count \in Nat /\ g.count + 1 = Cardinality(Seen(v)) BY <1>4, <1>15, <1>17
<1>19. g.count + 1 + Len(r) <= CellMax BY <1>2, <1>4, <1>16, <1>17, EngineAssumption
<1> QED BY <1>6, <1>7, <1>11, <1>12, <1>13, <1>14, <1>18, <1>19 DEF OnItsWay

\* Fewer keys that stayed live.
LEMMA Narrows ==
    ASSUME NEW f, NEW w \in Watch, OnItsWay(f, w), NEW T \in SUBSET w.steady,
           NEW v, v = [w EXCEPT !.steady = T]
    PROVE  v \in Watch /\ OnItsWay(f, v)
<1>1. v \in Watch /\ v.seen = w.seen /\ v.steady = T BY DEF Watch
<1>2. Seen(v) = Seen(w) BY <1>1 DEF Seen
<1> QED BY <1>1, <1>2 DEF OnItsWay

\* A call of the plugin in a callback or outside of all of them.
LEMMA WatchedKeeps ==
    ASSUME WatchInv, FramesInv, Watched
    PROVE  WatchInv'
<1>1. /\ watch \in Seq(Watch) /\ Len(watch) = Len(frames) /\ Len(frames) \in Nat
      /\ \A d \in 1..Len(frames) : OnItsWay(frames[d], watch[d])
  BY DEF WatchInv, FramesInv, FramesTypeOK
<1> DEFINE left(d) == {k \in watch[d].steady : Live(frames[d].ns, k)'}
           v(d) == [watch[d] EXCEPT !.steady = left(d)]
<1>2. DOMAIN watch = 1..Len(frames) BY <1>1
<1>3. frames' = frames /\ watch' = [d \in 1..Len(frames) |-> v(d)]
  BY <1>2 DEF Watched
<1>4. \A d \in 1..Len(frames) : v(d) \in Watch /\ OnItsWay(frames[d], v(d))
  <2> SUFFICES ASSUME NEW d \in 1..Len(frames)
               PROVE  v(d) \in Watch /\ OnItsWay(frames[d], v(d))
    OBVIOUS
  <2>1. watch[d] \in Watch /\ OnItsWay(frames[d], watch[d]) BY <1>1
  <2>2. left(d) \in SUBSET watch[d].steady OBVIOUS
  <2> HIDE DEF left
  <2> QED BY <2>1, <2>2, Narrows
<1> HIDE DEF left, v
<1>5. /\ watch' \in Seq(Watch) /\ Len(watch') = Len(frames)
      /\ \A d \in 1..Len(frames) : watch'[d] = v(d)
  BY <1>1, <1>3, <1>4
<1>6. \A d \in 1..Len(frames') : OnItsWay(frames'[d], watch'[d])
  BY <1>3, <1>4, <1>5
<1> QED BY <1>3, <1>5, <1>6 DEF WatchInv

\* mem_iterate_keys takes its snapshot.
LEMMA IterateWatched ==
    ASSUME WatchInv, FramesInv, KeysFit, NEW ns \in Names, NEW named \in BOOLEAN,
           NEW found \in BOOLEAN, mem_iterate_keys(ns, named, found)
    PROVE  WatchInv'
<1>1. /\ watch \in Seq(Watch) /\ Len(watch) = Len(frames) /\ Len(frames) \in Nat
      /\ \A d \in 1..Len(frames) : OnItsWay(frames[d], watch[d])
      /\ frames \in Seq(Frame)
  BY DEF WatchInv, FramesInv, FramesTypeOK
<1> DEFINE keys == ret'.keys
           f == [ns |-> ns, key |-> Head(keys), rest |-> Tail(keys), count |-> 0,
                 forward |-> FreeForward]
           w == [steady |-> LiveKeys(ns), seen |-> Once([k \in Key |-> 0], Head(keys))]
<1>2. CASE UNCHANGED <<frames, watch>>
  BY <1>1, <1>2 DEF WatchInv
<1>3. CASE /\ ~Nameless({ns}) /\ GetActiveKeys(ns) /\ keys # <<>>
           /\ frames' = Append(frames, f)
           /\ watch' = Append(watch, w)
  <2>1. ns \in NS BY <1>3 DEF Nameless, Names
  <2>2. PICK q \in Orders(LiveKeys(ns)) : ret' = Ret(TRUE, Len(q), q)
    BY <1>3 DEF GetActiveKeys
  <2>3. LiveKeys(ns) \in SUBSET Key BY DEF LiveKeys
  <2>4. keys = q BY <2>2 DEF Ret
  <2>5. /\ q \in Seq(Key)
        /\ \A k \in LiveKeys(ns) : \E i \in DOMAIN q : q[i] = k
        /\ \A i, j \in DOMAIN q : q[i] = q[j] => i = j
        /\ Len(q) <= CellMax
    <3>1. Len(q) = Cardinality(LiveKeys(ns)) BY <2>3, OrderLength
    <3> QED BY <2>1, <2>3, <3>1, OrdersVisitOnce DEF KeysFit
  <2>6. f.rest = Tail(q) /\ f.count = 0 BY <2>4
  <2>7. w = [steady |-> LiveKeys(ns), seen |-> Once([k \in Key |-> 0], Head(q))]
    BY <2>4
  <2>8. q # <<>> BY <1>3, <2>4
  <2> HIDE DEF keys, f, w
  <2>9. w \in Watch /\ OnItsWay(f, w)
    BY <2>3, <2>5, <2>6, <2>7, <2>8, Starts
  <2>10. /\ watch' \in Seq(Watch) /\ Len(watch') = Len(frames) + 1
         /\ \A d \in 1..Len(frames) : watch'[d] = watch[d]
         /\ watch'[Len(frames) + 1] = w
    BY <1>1, <1>3, <2>9, AppendProperties
  <2>11. /\ Len(frames') = Len(frames) + 1
         /\ \A d \in 1..Len(frames) : frames'[d] = frames[d]
         /\ frames'[Len(frames) + 1] = f
    BY <1>1, <1>3
  <2>12. 1..Len(frames') = (1..Len(frames)) \cup {Len(frames) + 1} BY <1>1, <2>11
  <2>13. \A d \in 1..Len(frames') : OnItsWay(frames'[d], watch'[d])
    BY <1>1, <2>9, <2>10, <2>11, <2>12
  <2> QED BY <2>10, <2>11, <2>13 DEF WatchInv
<1>4. \/ UNCHANGED <<frames, watch>>
      \/ /\ ~Nameless({ns}) /\ GetActiveKeys(ns) /\ keys # <<>>
         /\ frames' = Append(frames, f)
         /\ watch' = Append(watch, w)
  BY Zenon DEF mem_iterate_keys, OnKeys, iterVars
<1> HIDE DEF keys, f, w
<1> QED BY <1>2, <1>3, <1>4

\* The two ways a callback can return: on to the next key, or out of the loop.
LEMMA Returns ==
    ASSUME NEW handled \in BOOLEAN, CallbackReturns(handled)
    PROVE  /\ frames # <<>>
           /\ \/ /\ ~handled /\ Top.rest # <<>>
                 /\ frames' = [frames EXCEPT ![Depth] =
                       Moved(Top, Head(Top.rest), Tail(Top.rest), WrapCell(Top.count + 1))]
                 /\ watch' = [watch EXCEPT ![Depth].seen = Once(@, Head(Top.rest))]
              \/ /\ handled \/ Top.rest = <<>>
                 /\ frames' = SubSeq(frames, 1, Depth - 1)
                 /\ watch' = SubSeq(watch, 1, Depth - 1)
                 /\ answer'.result = WrapCell(Top.count + 1)
<1>1. [frames[Depth] EXCEPT !.key = Head(Top.rest), !.rest = Tail(Top.rest),
                            !.count = WrapCell(Top.count + 1)]
        = Moved(Top, Head(Top.rest), Tail(Top.rest), WrapCell(Top.count + 1))
  BY DEF Moved, Top
<1>2. \A n : Return(n, <<>>) => answer'.result = n BY DEF Return
<1> QED BY <1>1, <1>2, Zenon DEF CallbackReturns, Ahead

\* The callback of the iteration on top returns.
LEMMA ReturnWatched ==
    ASSUME WatchInv, FramesInv,
           NEW handled \in BOOLEAN, CallbackReturns(handled)
    PROVE  WatchInv'
<1>1. /\ watch \in Seq(Watch) /\ Len(watch) = Len(frames) /\ Len(frames) \in Nat
      /\ \A d \in 1..Len(frames) : OnItsWay(frames[d], watch[d])
      /\ frames \in Seq(Frame) /\ Depth = Len(frames) /\ Top = frames[Depth]
  BY DEF WatchInv, FramesInv, FramesTypeOK, Depth, Top
<1>2. Depth \in 1..Len(frames) BY <1>1, Returns
<1> DEFINE h == Head(Top.rest)
           g == Moved(Top, h, Tail(Top.rest), WrapCell(Top.count + 1))
           v == [watch[Depth] EXCEPT !.seen = Once(@, h)]
<1>3. CASE /\ Top.rest # <<>>
           /\ frames' = [frames EXCEPT ![Depth] = g]
           /\ watch' = [watch EXCEPT ![Depth] = v]
  <2>1. v \in Watch /\ OnItsWay(g, v)
    <3>1. Top \in Frame /\ watch[Depth] \in Watch /\ OnItsWay(Top, watch[Depth])
      BY <1>1, <1>2
    <3> QED BY <1>3, <3>1, GoesOn
  <2> HIDE DEF g, v
  <2>2. /\ watch' \in Seq(Watch) /\ Len(watch') = Len(frames)
        /\ \A d \in 1..Len(frames) : watch'[d] = IF d = Depth THEN v ELSE watch[d]
    BY <1>1, <1>2, <1>3, <2>1
  <2>3. /\ Len(frames') = Len(frames)
        /\ \A d \in 1..Len(frames) : frames'[d] = IF d = Depth THEN g ELSE frames[d]
    BY <1>1, <1>2, <1>3
  <2>4. \A d \in 1..Len(frames') : OnItsWay(frames'[d], watch'[d])
    BY <1>1, <2>1, <2>2, <2>3
  <2> QED BY <2>2, <2>3, <2>4 DEF WatchInv
<1>4. CASE /\ frames' = SubSeq(frames, 1, Depth - 1)
           /\ watch' = SubSeq(watch, 1, Depth - 1)
  <2>1. Depth - 1 \in 0..Len(frames) BY <1>1, <1>2
  <2>2. /\ watch' \in Seq(Watch) /\ Len(watch') = Depth - 1
        /\ \A d \in 1..(Depth - 1) : watch'[d] = watch[d]
    <3>1. \A d \in 1..(Depth - 1) : watch[d] \in Watch BY <1>1, <1>2
    <3>2. /\ SubSeq(watch, 1, Depth - 1) \in Seq(Watch)
          /\ Len(SubSeq(watch, 1, Depth - 1)) = IF 1 <= Depth - 1 THEN Depth - 1 - 1 + 1 ELSE 0
          /\ \A i \in 1..(Depth - 1 - 1 + 1) : SubSeq(watch, 1, Depth - 1)[i] = watch[1 + i - 1]
      BY <2>1, <3>1, SubSeqProperties
    <3> QED BY <1>4, <2>1, <3>2
  <2>3. Len(frames') = Depth - 1 /\ \A d \in 1..(Depth - 1) : frames'[d] = frames[d]
    <3>1. \A d \in 1..(Depth - 1) : frames[d] \in Frame BY <1>1, <1>2
    <3>2. /\ SubSeq(frames, 1, Depth - 1) \in Seq(Frame)
          /\ Len(SubSeq(frames, 1, Depth - 1)) = IF 1 <= Depth - 1 THEN Depth - 1 - 1 + 1 ELSE 0
          /\ \A i \in 1..(Depth - 1 - 1 + 1) : SubSeq(frames, 1, Depth - 1)[i] = frames[1 + i - 1]
      BY <2>1, <3>1, SubSeqProperties
    <3> QED BY <1>4, <2>1, <3>2
  <2>4. \A d \in 1..(Depth - 1) : d \in 1..Len(frames) BY <1>1, <1>2
  <2>5. \A d \in 1..(Depth - 1) : OnItsWay(frames'[d], watch'[d])
    BY <1>1, <2>2, <2>3, <2>4
  <2> QED BY <2>2, <2>3, <2>5 DEF WatchInv
<1>5. [watch EXCEPT ![Depth].seen = Once(@, h)] = [watch EXCEPT ![Depth] = v]
  BY <1>1, <1>2
<1> HIDE DEF v
<1> QED BY <1>3, <1>4, <1>5, Returns

\* A step of the plugin, in a callback or outside of all of them.
LEMMA LoopsNextWatched ==
    ASSUME WatchInv, FramesInv, KeysFit, [LoopsNext]_loopSpecVars
    PROVE  WatchInv'
<1>1. CASE UNCHANGED iterVars
  BY <1>1 DEF WatchInv, iterVars
<1>2. CASE Watched BY <1>2, WatchedKeeps
<1>3. CASE IterationCall
  <2>1. ASSUME NEW ns \in Names, NEW named \in BOOLEAN, NEW found \in BOOLEAN,
               mem_iterate_keys(ns, named, found)
        PROVE  WatchInv'
    BY <2>1, IterateWatched
  <2>2. ASSUME NEW handled \in BOOLEAN, CallbackReturns(handled)
        PROVE  WatchInv'
    BY <2>2, ReturnWatched
  <2> QED BY <1>3, <2>1, <2>2 DEF IterationCall
<1>4. UNCHANGED iterVars \/ Watched \/ IterationCall
  BY DEF LoopsNext, loopSpecVars, iterSpecVars
<1> QED BY <1>1, <1>2, <1>3, <1>4

\* Nothing runs at the start.
LEMMA LoopsInitWatched == LoopsInit => WatchInv
<1> SUFFICES ASSUME LoopsInit PROVE WatchInv
  OBVIOUS
<1>1. frames = <<>> /\ watch = <<>> BY DEF LoopsInit, IterationInit
<1>2. watch \in Seq(Watch) /\ Len(watch) = 0 /\ Len(frames) = 0 BY <1>1
<1> QED BY <1>2 DEF WatchInv

\* An iteration that is over.
LEMMA ReturnCompletes ==
    ASSUME WatchInv, FramesInv,
           NEW handled \in BOOLEAN, CallbackReturns(handled), Len(frames') < Depth
    PROVE  LET w == watch[Depth]
           IN  /\ ~handled => \A k \in w.steady : w.seen[k] = 1
               /\ \A k \in Key : w.seen[k] <= 1
               /\ answer'.result = Cardinality({k \in Key : w.seen[k] = 1})
<1>1. /\ watch \in Seq(Watch) /\ Len(watch) = Len(frames) /\ Len(frames) \in Nat
      /\ \A d \in 1..Len(frames) : OnItsWay(frames[d], watch[d])
      /\ frames \in Seq(Frame) /\ Depth = Len(frames) /\ Top = frames[Depth]
  BY DEF WatchInv, FramesInv, FramesTypeOK, Depth, Top
<1>2. Depth \in 1..Len(frames) BY <1>1, Returns
<1>3. /\ handled \/ Top.rest = <<>>
      /\ answer'.result = WrapCell(Top.count + 1)
  <2> DEFINE g == Moved(Top, Head(Top.rest), Tail(Top.rest), WrapCell(Top.count + 1))
  <2>1. Len([frames EXCEPT ![Depth] = g]) = Depth
    <3> HIDE DEF g
    <3> QED BY <1>1, <1>2
  <2>2. frames' # [frames EXCEPT ![Depth] = g] BY <1>1, <2>1
  <2> QED BY <2>2, Returns
<1>4. /\ \A k \in Key : watch[Depth].seen[k] <= 1
      /\ \A k \in watch[Depth].steady :
             watch[Depth].seen[k] = 1 \/ \E i \in DOMAIN Top.rest : Top.rest[i] = k
      /\ Top.count \in Nat /\ Top.count + 1 = Cardinality(Seen(watch[Depth]))
      /\ Top.count + 1 + Len(Top.rest) <= CellMax
  BY <1>1, <1>2 DEF OnItsWay
<1>5. ~handled => \A k \in watch[Depth].steady : watch[Depth].seen[k] = 1
  <2> SUFFICES ASSUME ~handled, NEW k \in watch[Depth].steady
               PROVE  watch[Depth].seen[k] = 1
    OBVIOUS
  <2>1. Top.rest = <<>> BY <1>3
  <2>2. DOMAIN Top.rest = {} BY <2>1
  <2> QED BY <1>4, <2>2
<1>6. answer'.result = Cardinality({k \in Key : watch[Depth].seen[k] = 1})
  <2>1. Len(Top.rest) \in Nat BY <1>1, <1>2 DEF Frame
  <2>2. Top.count + 1 \in Cell BY <1>4, <2>1, EngineAssumption DEF Cell
  <2> QED BY <1>3, <1>4, <2>2, WrapWithin DEF Seen
<1> QED BY <1>4, <1>5, <1>6

\* For any number of keys, however deep iterations nest and whatever their
\* callbacks do to the store: each key that stays live is called back exactly
\* once unless a callback stops the loop, none twice, and mem_iterate_keys
\* returns how many callbacks there were, as long as a cell can count the keys.
THEOREM IterationsComplete == LoopsSpec /\ []KeysFit => IterationComplete
<1>1. LoopsInit => FramesInv /\ WatchInv BY LoopsInitHolds, LoopsInitWatched
<1>2. FramesInv /\ WatchInv /\ KeysFit /\ [LoopsNext]_loopSpecVars
          => (FramesInv /\ WatchInv)'
  BY LoopsNextKeeps, LoopsNextWatched
<1>3. FramesInv /\ WatchInv =>
          \A handled \in BOOLEAN :
              CallbackReturns(handled) /\ Len(frames') < Depth =>
                  LET w == watch[Depth]
                  IN  /\ ~handled => \A k \in w.steady : w.seen[k] = 1
                      /\ \A k \in Key : w.seen[k] <= 1
                      /\ answer'.result = Cardinality({k \in Key : w.seen[k] = 1})
  BY ReturnCompletes
<1> QED BY <1>1, <1>2, <1>3, PTL DEF LoopsSpec, IterationComplete
=============================================================================
