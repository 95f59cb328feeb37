---------------------------- MODULE KeyIteration ----------------------------
(***************************************************************************)
(* mem_iterate_keys and the callbacks it makes.  The native registers a    *)
(* forward for the plugin's function, takes a snapshot of the live keys,   *)
(* executes the forward for each and unregisters it.  While a callback     *)
(* runs the plugin has control again: it may call every native, this one   *)
(* too, and the clock moves, so an iteration is a frame on a stack and not *)
(* one step.                                                               *)
(***************************************************************************)
EXTENDS Natives

CONSTANT MaxDepth      \* bound of iterations inside callbacks of iterations

ASSUME IterationAssumption == MaxDepth \in Nat

VARIABLES
    frames,      \* the iterations that run, the innermost last
    forwards,    \* the forwards registered with the host
    watch        \* history, for the properties: what each frame went through

iterVars == <<frames, forwards, watch>>
iterSpecVars == <<nativeVars, iterVars>>

\* key is the one its callback runs for, rest those to come, count as in the
\* code.
Frame == [ns : NS, key : Key, rest : Seq(Key), count : Cell, forward : Nat]

\* The keys live ever since the snapshot; how often each key was called back,
\* 2 standing for more than once.
Watch == [steady : SUBSET Key, seen : [Key -> 0..2]]

IterationInit ==
    /\ NativesInit
    /\ frames = <<>>
    /\ forwards = {}
    /\ watch = <<>>

Depth == Len(frames)
Top == frames[Depth]

Once(seen, k) == [seen EXCEPT ![k] = Lesser(@ + 1, 2)]

-----------------------------------------------------------------------------

\* The host hands out a number that is free.
FreeForward == CHOOSE id \in 1..(MaxDepth + 1) : id \notin forwards

\* named: a callback was named; found: the plugin has that function.
mem_iterate_keys(ns, named, found) ==
    \/ /\ Nameless({ns}) \/ ~named \/ ~found
       /\ Refuse(0, TRUE)
       /\ UNCHANGED iterVars
    \/ /\ ~Nameless({ns}) /\ named /\ found
       /\ OnKeys(GetActiveKeys(ns))
       /\ \/ /\ ret'.keys = <<>>
             /\ Return(0, <<>>)
             /\ UNCHANGED iterVars
          \/ /\ ret'.keys # <<>>
             /\ LET keys == ret'.keys
                IN  /\ frames' = Append(frames,
                            [ns |-> ns, key |-> Head(keys), rest |-> Tail(keys),
                             count |-> 0, forward |-> FreeForward])
                    /\ watch' = Append(watch,
                            [steady |-> LiveKeys(ns),
                             seen |-> Once([k \in Key |-> 0], Head(keys))])
             /\ forwards' = forwards \cup {FreeForward}
             /\ UNCHANGED answer

\* Mutant: walks an index over the keys the namespace holds by now.
StepByIndex(f) ==
    IF Present(f.ns, f.key) THEN f.rest ELSE SubSeq(f.rest, 2, Len(f.rest))

\* Mutant: goes on with a key until its callback deletes it.
StepWhenGone(f) == IF Present(f.ns, f.key) THEN <<f.key>> \o f.rest ELSE f.rest

\* The keys the loop has before it when a callback has returned.
Ahead(f) == f.rest

\* Mutant: an early stop returns past the unregistering.
KeptWhenStopped(f, stopped) == IF stopped THEN forwards ELSE forwards \ {f.forward}

\* The forwards left when the loop is over.
Unregistered(f, stopped) == forwards \ {f.forward}

\* A callback returns; PLUGIN_HANDLED stops the loop.
CallbackReturns(handled) ==
    /\ frames # <<>>
    /\ LET count == WrapCell(Top.count + 1)
           ahead == Ahead(Top)
       IN  \/ /\ ~handled /\ ahead # <<>>
              /\ frames' = [frames EXCEPT ![Depth] =
                    [@ EXCEPT !.key = Head(ahead), !.rest = Tail(ahead), !.count = count]]
              /\ watch' = [watch EXCEPT ![Depth].seen = Once(@, Head(ahead))]
              /\ UNCHANGED <<forwards, answer>>
           \/ /\ handled \/ ahead = <<>>
              /\ frames' = SubSeq(frames, 1, Depth - 1)
              /\ watch' = SubSeq(watch, 1, Depth - 1)
              /\ forwards' = Unregistered(Top, handled)
              /\ Return(count, <<>>)
    /\ UNCHANGED memSpecVars

-----------------------------------------------------------------------------

\* What the plugin does between two steps of its iterations.
Watched ==
    /\ UNCHANGED <<frames, forwards>>
    /\ watch' = [d \in DOMAIN watch |->
           [watch[d] EXCEPT !.steady = {k \in @ : Live(frames[d].ns, k)'}]]

IterationCall ==
    \/ /\ Depth < MaxDepth
       /\ \E ns \in Names, named, found \in BOOLEAN : mem_iterate_keys(ns, named, found)
    \/ \E handled \in BOOLEAN : CallbackReturns(handled)

\* Each callback is a function of a plugin and returns.
CallbacksReturn ==
    \A d \in 1..MaxDepth :
        SF_iterSpecVars(Depth = d /\ \E handled \in BOOLEAN : CallbackReturns(handled))

-----------------------------------------------------------------------------

\* The iterations that run have one registered forward each, and no other is
\* left in the host's table: not after an early stop, an iteration inside a
\* callback, or a callback that empties the store.
ForwardsBalanced ==
    /\ forwards = {frames[d].forward : d \in 1..Depth}
    /\ \A c, d \in 1..Depth : frames[c].forward = frames[d].forward => c = d

\* An iteration its callbacks do not stop calls back exactly once for each key
\* that stays live from its start to its end, whatever the callbacks delete,
\* add or let expire; no key is ever called back twice, and the native returns
\* how many callbacks there were.
IterationComplete ==
    [][\A handled \in BOOLEAN :
          CallbackReturns(handled) /\ Len(frames') < Depth =>
              LET w == watch[Depth]
              IN  /\ ~handled => \A k \in w.steady : w.seen[k] = 1
                  /\ \A k \in Key : w.seen[k] <= 1
                  /\ answer'.result = Cardinality({k \in Key : w.seen[k] = 1})]_iterSpecVars

\* Every iteration comes to its end, also when its callbacks add keys to the
\* namespace or start iterations of their own.
IterationEnds == \A d \in 1..MaxDepth : Depth >= d ~> Depth < d
=============================================================================
