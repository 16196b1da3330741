--------------------------- MODULE OlLookupProofs ---------------------------
(***************************************************************************)
(* Theorems about lookup, for every transducer, every request and every    *)
(* recursion depth: whatever way a lookup ends, the object is afterwards   *)
(* as it was before; what is recorded as visited is recorded by a call     *)
(* that is still active; no lookup returns more than it was asked for; it  *)
(* returns only analyses of the input with their weights; and it misses    *)
(* none, unless the clock or its limit ends it or it backs out of a flag.  *)
(***************************************************************************)
EXTENDS OlLookup, OlGraphProofs

-----------------------------------------------------------------------------
(* The invariant.  A caller has saved the weight and the flag values at its *)
(* call; what its callee started with is that and its own arc.              *)

\* The arc a frame is at, in a transducer given.
ArcIn(gr, f) ==
    (IF f.step = "zero" THEN ZeroArcs(gr, f.s) ELSE ArcsFor(gr, f.s, Head(f.trying)))[f.i]

LEMMA ArcIsArcIn == \A f : Arc(f) = ArcIn(g, f)
BY DEF Arc, Arcs, ArcIn

IsFrame(f) ==
    /\ f = [s |-> f.s, pos |-> f.pos, out |-> f.out, step |-> f.step, i |-> f.i,
            trying |-> f.trying, weight |-> f.weight, values |-> f.values]
    /\ f.step \in {"enter", "zero", "symbol", "default"} /\ f.pos \in Int

ReadsFlag(gr, f) == f.step = "zero" /\ ArcIn(gr, f).in \in Flags

\* The flag values behind the arc of a caller.
Through(gr, f) ==
    IF ReadsFlag(gr, f) THEN Applied(FlagOp[ArcIn(gr, f).in], f.values) ELSE f.values

\* Only the innermost call may not have entered; each that has uses one level.
Levels ==
    /\ IsSequence(stack)
    /\ \A j \in 1 .. Len(stack) : IsFrame(stack[j])
    /\ \A j \in 1 .. Len(stack) - 1 : stack[j].step # "enter"
    /\ depth = MAX_RECURSION_DEPTH - Len(stack)
                 + (IF stack # << >> /\ stack[Len(stack)].step = "enter" THEN 1 ELSE 0)

\* The object's weight and flag values when call j began.
WeightAt(j) == IF j < Len(stack) THEN stack[j].weight ELSE weight
ValuesAt(j) == IF j < Len(stack) THEN stack[j].values ELSE values

WeightsChained ==
    /\ WeightAt(1) = 0
    /\ \A j \in 1 .. Len(stack) - 1 :
         WeightAt(j + 1) = stack[j].weight + ArcIn(g, stack[j]).w

ValuesChained ==
    /\ ValuesAt(1) = Neutral
    /\ \A j \in 1 .. Len(stack) - 1 : ValuesAt(j + 1) = Through(g, stack[j])

\* A callee begins where its caller is; no call has read more than one inside it.
PositionsAscend ==
    /\ \A j \in 1 .. Len(stack) - 1 : PositionOf(stack[j + 1]) = stack[j].pos
    /\ \A k \in 1 .. Len(stack) : \A j \in 1 .. k - 1 : stack[j].pos <= PositionOf(stack[k])

\* VisitedIsActive, in these terms.
VisitedHeld ==
    \A c \in visited : \E j \in 1 .. Len(stack) - 1 :
        /\ ReadsFlag(g, stack[j])
        /\ c = <<ArcIn(g, stack[j]).to, stack[j].values>>
        /\ stack[j].pos = PositionOf(stack[Len(stack)])

LookupInv ==
    Levels /\ WeightsChained /\ ValuesChained /\ PositionsAscend /\ VisitedHeld

-----------------------------------------------------------------------------
\* What a caller saves, and what that leaves of its frame.
LEMMA SavedFrame ==
    ASSUME NEW f, IsFrame(f), NEW w, NEW v
    PROVE  [f EXCEPT !.weight = w, !.values = v] =
             [s |-> f.s, pos |-> f.pos, out |-> f.out, step |-> f.step, i |-> f.i,
              trying |-> f.trying, weight |-> w, values |-> v]
<1> DEFINE h == [f EXCEPT !.weight = w]
<1>1. h = [s |-> f.s, pos |-> f.pos, out |-> f.out, step |-> f.step, i |-> f.i,
           trying |-> f.trying, weight |-> w, values |-> f.values]
  BY DEF IsFrame
<1> HIDE DEF h
<1>2. [h EXCEPT !.values = v] =
        [s |-> f.s, pos |-> f.pos, out |-> f.out, step |-> f.step, i |-> f.i,
         trying |-> f.trying, weight |-> w, values |-> v]
  BY <1>1
<1> QED
  BY <1>2 DEF h

\* A step of the innermost call that stays at its position: the rest is as it was.
LEMMA TopMoves ==
    ASSUME LookupInv, ~Idle, NEW h, IsFrame(h),
           stack' = [stack EXCEPT ![Len(stack)] = h],
           UNCHANGED <<g, weight, values, visited>>,
           PositionOf(h) = PositionOf(top), h.step # "enter",
           depth' = IF top.step = "enter" THEN depth - 1 ELSE depth
    PROVE  LookupInv'
<1> DEFINE n == Len(stack)
<1>1. IsSequence(stack)
  BY DEF LookupInv, Levels
<1>2. stack # << >> /\ n \in Nat \ {0} /\ top = stack[n]
  BY <1>1 DEF Idle, top, Last, IsSequence
<1>3. /\ IsSequence(stack') /\ Len(stack') = n
      /\ \A j \in 1 .. n - 1 : stack'[j] = stack[j]
      /\ stack'[n] = h
  <2>1. stack' = Retopped(stack, h)
    BY DEF Retopped
  <2>2. /\ IsSequence(Retopped(stack, h)) /\ Len(Retopped(stack, h)) = Len(stack)
        /\ \A j \in 1 .. Len(stack) - 1 : Retopped(stack, h)[j] = stack[j]
        /\ Retopped(stack, h)[Len(stack)] = h
    BY <1>1, <1>2, TopEffect
  <2> QED
    BY <2>1, <2>2
<1> HIDE DEF n
<1>4. Levels'
  <2>1. \A j \in 1 .. n : IsFrame(stack'[j])
    <3>1. \A j \in 1 .. n : j = n \/ j \in 1 .. n - 1
      BY <1>2
    <3> QED
      BY <1>3, <3>1 DEF LookupInv, Levels, n
  <2>2. \A j \in 1 .. n - 1 : stack'[j].step # "enter"
    BY <1>3 DEF LookupInv, Levels, n
  <2>3. depth' = MAX_RECURSION_DEPTH - n
    BY <1>2, LookupAssumption DEF LookupInv, Levels, n
  <2>4. stack' # << >> /\ stack'[n].step # "enter"
    BY <1>2, <1>3
  <2> QED
    BY <1>2, <1>3, <2>1, <2>2, <2>3, <2>4, LookupAssumption DEF Levels
<1>5. \A j \in 1 .. n : WeightAt(j)' = WeightAt(j) /\ ValuesAt(j)' = ValuesAt(j)
  <2>1. \A j \in 1 .. n : j < n => stack'[j] = stack[j]
    BY <1>2, <1>3
  <2>2. Len(stack) = n /\ Len(stack') = n /\ weight' = weight /\ values' = values
    BY <1>3 DEF n
  <2> QED
    BY <2>1, <2>2 DEF WeightAt, ValuesAt
<1>6. \A j \in 1 .. n - 1 : j \in 1 .. n /\ j + 1 \in 1 .. n
  BY <1>2
<1>7. WeightsChained' /\ ValuesChained'
  <2>1. 1 \in 1 .. n
    BY <1>2
  <2>2. WeightAt(1)' = 0 /\ ValuesAt(1)' = Neutral
    BY <1>5, <2>1 DEF LookupInv, WeightsChained, ValuesChained
  <2>3. \A j \in 1 .. n - 1 :
          /\ WeightAt(j + 1)' = stack'[j].weight + ArcIn(g', stack'[j]).w
          /\ ValuesAt(j + 1)' = Through(g', stack'[j])
    BY <1>3, <1>5, <1>6 DEF LookupInv, WeightsChained, ValuesChained, n
  <2> QED
    BY <1>3, <2>2, <2>3 DEF WeightsChained, ValuesChained
<1>8. \A j \in 1 .. n : /\ PositionOf(stack'[j]) = PositionOf(stack[j])
                        /\ j < n => stack'[j] = stack[j]
  BY <1>2, <1>3
<1>9. PositionsAscend'
  <2>1. \A j \in 1 .. n - 1 : PositionOf(stack'[j + 1]) = stack'[j].pos
    BY <1>3, <1>6, <1>8 DEF LookupInv, PositionsAscend, n
  <2>2. \A k \in 1 .. n : \A j \in 1 .. k - 1 : stack'[j].pos <= PositionOf(stack'[k])
    <3>1. \A k \in 1 .. n : \A j \in 1 .. k - 1 : j \in 1 .. n - 1
      BY <1>2
    <3> QED
      BY <1>3, <1>8, <3>1 DEF LookupInv, PositionsAscend, n
  <2> QED
    BY <1>3, <2>1, <2>2 DEF PositionsAscend
<1>10. VisitedHeld'
  <2>1. n \in 1 .. n
    BY <1>2
  <2> QED
    BY <1>3, <1>8, <2>1, ZenonT(40) DEF LookupInv, VisitedHeld, n
<1> QED
  BY <1>4, <1>7, <1>9, <1>10 DEF LookupInv


\* The innermost call follows an arc: its frame keeps what the object was, and what
\* it records as visited it is inside.
LEMMA CallPushes ==
    ASSUME LookupInv, ~Idle, NEW pair, Call(pair), top.step # "enter",
           UNCHANGED <<g, depth>>,
           values' = IF ReadsFlag(g, top)
                     THEN Applied(FlagOp[ArcIn(g, top).in], values) ELSE values,
           \/ visited' = {}
           \/ /\ top.step = "zero"
              /\ visited' \subseteq visited \cup
                   IF ReadsFlag(g, top) THEN {<<ArcIn(g, top).to, values>>} ELSE {}
    PROVE  LookupInv'
<1> DEFINE caller == [top EXCEPT !.weight = weight, !.values = values]
           callee == Frame(Arc(top).to, top.pos, top.out + 1)
<1>1. IsSequence(stack)
  BY DEF LookupInv, Levels
<1>2. PICK n \in Nat \ {0} : n = Len(stack) /\ stack # << >> /\ top = stack[n]
  BY <1>1 DEF Idle, top, Last, IsSequence
<1>3. /\ IsSequence(stack') /\ Len(stack') = n + 1
      /\ \A j \in 1 .. n - 1 : stack'[j] = stack[j]
      /\ stack'[n] = caller /\ stack'[n + 1] = callee
  <2>1. stack' = Pushed(stack, caller, callee)
    BY DEF Call, Pushed
  <2> HIDE DEF caller, callee
  <2>2. /\ IsSequence(Pushed(stack, caller, callee))
        /\ Len(Pushed(stack, caller, callee)) = Len(stack) + 1
        /\ \A j \in 1 .. Len(stack) - 1 : Pushed(stack, caller, callee)[j] = stack[j]
        /\ Pushed(stack, caller, callee)[Len(stack)] = caller
        /\ Pushed(stack, caller, callee)[Len(stack) + 1] = callee
    BY <1>1, <1>2, PushEffect
  <2> QED
    BY <1>2, <2>1, <2>2
<1>4. IsFrame(top) /\ top.pos \in Int
  BY <1>2 DEF LookupInv, Levels, IsFrame
<1>5. /\ caller = [s |-> top.s, pos |-> top.pos, out |-> top.out, step |-> top.step,
                   i |-> top.i, trying |-> top.trying, weight |-> weight, values |-> values]
      /\ IsFrame(caller)
  <2>1. caller = [s |-> top.s, pos |-> top.pos, out |-> top.out, step |-> top.step,
                  i |-> top.i, trying |-> top.trying, weight |-> weight, values |-> values]
    BY <1>4, SavedFrame
  <2> HIDE DEF caller
  <2> QED
    BY <1>4, <2>1 DEF IsFrame
<1>6. IsFrame(callee) /\ callee.step = "enter" /\ callee.pos = top.pos
  BY <1>4 DEF IsFrame, Frame
<1>7. ArcIn(g, caller) = ArcIn(g, top) /\ PositionOf(caller) = PositionOf(top)
      /\ (ReadsFlag(g, caller) <=> ReadsFlag(g, top)) /\ caller.step = top.step
      /\ caller.pos = top.pos /\ caller.weight = weight /\ caller.values = values
  BY <1>5 DEF ArcIn, PositionOf, ReadsFlag
<1>8. weight' = weight + ArcIn(g, top).w
  BY ArcIsArcIn DEF Call
<1>9. PositionOf(callee) = top.pos /\ PositionOf(top) <= top.pos /\ PositionOf(top) \in Int
  BY <1>4, <1>6 DEF PositionOf
<1> HIDE DEF caller, callee
<1>a. Len(stack') - 1 = n /\ n \in 1 .. n
  BY <1>2, <1>3
<1>10. \A j \in 1 .. n + 1 : j \in 1 .. n - 1 \/ j = n \/ j = n + 1
  BY <1>2
<1>11. \A j \in 1 .. n - 1 : j \in 1 .. n /\ j # n /\ j < n
  BY <1>2
<1>12. Levels'
  <2>1. \A j \in 1 .. n + 1 : IsFrame(stack'[j])
    BY <1>2, <1>3, <1>5, <1>6, <1>10, <1>11 DEF LookupInv, Levels
  <2>2. \A j \in 1 .. n : stack'[j].step # "enter"
    <3>1. \A j \in 1 .. n : j \in 1 .. n - 1 \/ j = n
      BY <1>2
    <3> QED
      BY <1>2, <1>3, <1>7, <3>1 DEF LookupInv, Levels
  <2>3. depth' = MAX_RECURSION_DEPTH - (n + 1) + 1
    BY <1>2, LookupAssumption DEF LookupInv, Levels
  <2>4. stack' # << >> /\ stack'[Len(stack')].step = "enter"
    BY <1>2, <1>3, <1>6
  <2>5. depth' = MAX_RECURSION_DEPTH - Len(stack') + 1
    BY <1>3, <2>3
  <2> QED
    BY <1>3, <1>a, <2>1, <2>2, <2>4, <2>5 DEF Levels
<1>13. /\ \A j \in 1 .. n : /\ WeightAt(j)' = WeightAt(j)
                            /\ ValuesAt(j)' = ValuesAt(j)
       /\ WeightAt(n + 1)' = weight' /\ ValuesAt(n + 1)' = values'
       /\ WeightAt(n) = weight /\ ValuesAt(n) = values
  <2>1. \A j \in 1 .. n : j < n + 1 /\ (j < n \/ j = n) /\ (j < n => j \in 1 .. n - 1)
    BY <1>2
  <2>2. ~(n + 1 < n + 1) /\ ~(n < n)
    BY <1>2
  <2>3. Len(stack) = n /\ Len(stack') = n + 1
    BY <1>2, <1>3
  <2>4. /\ WeightAt(n + 1)' = weight' /\ ValuesAt(n + 1)' = values'
        /\ WeightAt(n) = weight /\ ValuesAt(n) = values
    BY <2>2, <2>3 DEF WeightAt, ValuesAt
  <2>5. ASSUME NEW j \in 1 .. n
        PROVE  WeightAt(j)' = WeightAt(j) /\ ValuesAt(j)' = ValuesAt(j)
    <3>1. WeightAt(j)' = stack'[j].weight /\ ValuesAt(j)' = stack'[j].values
      BY <2>1, <2>3 DEF WeightAt, ValuesAt
    <3>2. CASE j = n
      BY <1>3, <1>7, <2>4, <3>1, <3>2
    <3>3. CASE j < n
      <4>1. WeightAt(j) = stack[j].weight /\ ValuesAt(j) = stack[j].values
        BY <2>3, <3>3 DEF WeightAt, ValuesAt
      <4> QED
        BY <1>3, <2>1, <3>1, <3>3, <4>1
    <3> QED
      BY <2>1, <3>2, <3>3
  <2> QED
    BY <2>4, <2>5
<1>14. WeightsChained' /\ ValuesChained'
  <2>1. 1 \in 1 .. n
    BY <1>2
  <2>2. WeightAt(1)' = 0 /\ ValuesAt(1)' = Neutral
    BY <1>13, <2>1 DEF LookupInv, WeightsChained, ValuesChained
  <2>3. ASSUME NEW j \in 1 .. n
        PROVE  /\ WeightAt(j + 1)' = stack'[j].weight + ArcIn(g', stack'[j]).w
               /\ ValuesAt(j + 1)' = Through(g', stack'[j])
    <3>1. CASE j = n
      <4>1. stack'[j] = caller /\ g' = g
        BY <1>3, <3>1
      <4>2. WeightAt(j + 1)' = weight' /\ ValuesAt(j + 1)' = values'
        BY <1>13, <3>1
      <4>3. Through(g, caller) = values'
        BY <1>7 DEF Through
      <4> QED
        BY <1>7, <1>8, <4>1, <4>2, <4>3
    <3>2. CASE j # n
      <4>1. j \in 1 .. n - 1 /\ j + 1 \in 1 .. n
        BY <1>2, <3>2
      <4> QED
        <5>1. stack'[j] = stack[j] /\ g' = g
          BY <1>3, <4>1
        <5>2. /\ WeightAt(j + 1)' = WeightAt(j + 1)
              /\ ValuesAt(j + 1)' = ValuesAt(j + 1)
          BY <1>13, <4>1
        <5>3. /\ WeightAt(j + 1) = stack[j].weight + ArcIn(g, stack[j]).w
              /\ ValuesAt(j + 1) = Through(g, stack[j])
          BY <1>2, <4>1 DEF LookupInv, WeightsChained, ValuesChained
        <5> QED
          BY <5>1, <5>2, <5>3
    <3> QED
      BY <3>1, <3>2
  <2> QED
    BY <1>a, <2>2, <2>3 DEF WeightsChained, ValuesChained
<1>15. \A j \in 1 .. n : PositionOf(stack'[j]) = PositionOf(stack[j])
                         /\ stack'[j].pos = stack[j].pos
  <2>1. \A j \in 1 .. n : j \in 1 .. n - 1 \/ j = n
    BY <1>2
  <2> QED
    BY <1>2, <1>3, <1>7, <2>1
<1>16. PositionsAscend'
  <2>1. ASSUME NEW j \in 1 .. n PROVE PositionOf(stack'[j + 1]) = stack'[j].pos
    <3>1. CASE j = n
      BY <1>2, <1>3, <1>9, <1>15, <3>1
    <3>2. CASE j # n
      <4>1. j \in 1 .. n - 1 /\ j + 1 \in 1 .. n
        BY <1>2, <3>2
      <4> QED
        BY <1>2, <1>15, <4>1 DEF LookupInv, PositionsAscend
    <3> QED
      BY <3>1, <3>2
  <2>2. ASSUME NEW k \in 1 .. n + 1, NEW j \in 1 .. k - 1
        PROVE  stack'[j].pos <= PositionOf(stack'[k])
    <3>1. CASE k = n + 1
      <4>1. j \in 1 .. n
        BY <1>2, <3>1
      <4>2. PositionOf(stack'[k]) = stack[n].pos /\ stack'[j].pos = stack[j].pos
        BY <1>2, <1>3, <1>9, <1>15, <3>1, <4>1
      <4>3. stack[j].pos \in Int /\ stack[n].pos \in Int
        BY <1>2, <1>4, <4>1 DEF LookupInv, Levels, IsFrame
      <4>4. CASE j = n
        BY <4>2, <4>3, <4>4
      <4>5. CASE j # n
        <5>1. n \in 1 .. n /\ j \in 1 .. n - 1
          BY <1>2, <4>1, <4>5
        <5>2. stack[j].pos <= PositionOf(stack[n])
          BY <1>2, <5>1 DEF LookupInv, PositionsAscend
        <5> QED
          BY <1>2, <1>9, <4>2, <4>3, <5>2
      <4> QED
        BY <4>4, <4>5
    <3>2. CASE k # n + 1
      <4>1. k \in 1 .. n /\ j \in 1 .. n
        BY <1>2, <3>2
      <4> QED
        BY <1>2, <1>15, <4>1 DEF LookupInv, PositionsAscend
    <3> QED
      BY <3>1, <3>2
  <2> QED
    BY <1>3, <1>a, <2>1, <2>2 DEF PositionsAscend
<1>17. VisitedHeld'
  <2>1. CASE visited' = {}
    BY <2>1 DEF VisitedHeld
  <2>2. CASE /\ top.step = "zero"
             /\ visited' \subseteq visited \cup
                  IF ReadsFlag(g, top) THEN {<<ArcIn(g, top).to, values>>} ELSE {}
    <3> SUFFICES ASSUME NEW c \in visited'
                 PROVE  \E j \in 1 .. n :
                          /\ ReadsFlag(g, stack'[j])
                          /\ c = <<ArcIn(g, stack'[j]).to, stack'[j].values>>
                          /\ stack'[j].pos = top.pos
      <4>1. PositionOf(stack'[Len(stack')]) = top.pos /\ g' = g
        BY <1>3, <1>9
      <4> QED
        BY <1>a, <4>1 DEF VisitedHeld
    <3>1. CASE c \in visited
      <4>1. PICK j \in 1 .. n - 1 :
              /\ ReadsFlag(g, stack[j])
              /\ c = <<ArcIn(g, stack[j]).to, stack[j].values>>
              /\ stack[j].pos = PositionOf(stack[n])
        BY <1>2, <3>1 DEF LookupInv, VisitedHeld
      <4>2. PositionOf(stack[n]) = top.pos
        BY <1>2, <2>2 DEF PositionOf
      <4> QED
        BY <1>3, <1>11, <4>1, <4>2
    <3>2. CASE c \notin visited
      <4>1. ReadsFlag(g, top) /\ c = <<ArcIn(g, top).to, values>>
        BY <2>2, <3>2
      <4>2. n \in 1 .. n
        BY <1>2
      <4> QED
        BY <1>3, <1>7, <4>1, <4>2
    <3> QED
      BY <3>1, <3>2
  <2> QED
    BY <2>1, <2>2
<1> QED
  BY <1>12, <1>14, <1>16, <1>17 DEF LookupInv

\* The last call returns: nothing of it is left in the object.
LEMMA LastReturns ==
    ASSUME LookupInv, ~Idle, Len(stack) = 1, stack' = << >>,
           UNCHANGED <<g, weight, values, visited>>,
           depth' = IF top.step = "enter" THEN depth ELSE depth + 1
    PROVE  LookupInv'
<1>1. Len(stack') = 0 /\ IsSequence(stack') /\ top = stack[1] /\ stack # << >>
  BY DEF Idle, top, Last, IsSequence
<1>2. Levels'
  <2>1. depth = MAX_RECURSION_DEPTH - 1 + (IF top.step = "enter" THEN 1 ELSE 0)
    BY <1>1 DEF LookupInv, Levels
  <2>2. depth' = MAX_RECURSION_DEPTH
    BY <2>1, LookupAssumption
  <2> QED
    BY <1>1, <2>2, LookupAssumption DEF Levels
<1>3. WeightsChained' /\ ValuesChained'
  <2>1. WeightAt(1) = weight /\ ValuesAt(1) = values
    BY DEF WeightAt, ValuesAt
  <2>2. WeightAt(1)' = weight' /\ ValuesAt(1)' = values'
    BY <1>1 DEF WeightAt, ValuesAt
  <2> QED
    BY <1>1, <2>1, <2>2 DEF LookupInv, WeightsChained, ValuesChained
<1>4. PositionsAscend'
  BY <1>1 DEF PositionsAscend
<1>5. VisitedHeld'
  BY DEF LookupInv, VisitedHeld
<1> QED
  BY <1>2, <1>3, <1>4, <1>5 DEF LookupInv

\* A call returns to its caller, which undoes its arc: what it recorded as visited
\* goes, and nothing is left of it behind a symbol.
LEMMA CallReturns ==
    ASSUME LookupInv, ~Idle, Len(stack) # 1, Return, UNCHANGED g,
           depth' = IF top.step = "enter" THEN depth ELSE depth + 1
    PROVE  LookupInv'
<1>1. IsSequence(stack)
  BY DEF LookupInv, Levels
<1>2. PICK n \in Nat \ {0} : /\ Len(stack) = n + 1 /\ Len(stack) > 1
                             /\ stack # << >> /\ top = stack[n + 1]
  <2>1. Len(stack) \in Nat /\ Len(stack) # 0 /\ Len(stack) # 1
        /\ stack # << >> /\ top = stack[Len(stack)]
    BY <1>1 DEF Idle, top, Last, IsSequence
  <2>a. \A m \in Nat : m # 0 /\ m # 1 => m - 1 \in Nat \ {0} /\ m = (m - 1) + 1 /\ m > 1
    OBVIOUS
  <2>2. Len(stack) - 1 \in Nat \ {0} /\ Len(stack) = (Len(stack) - 1) + 1 /\ Len(stack) > 1
    BY <2>1, <2>a
  <2> QED
    BY <2>1, <2>2
<1>a. Len(stack) - 1 = n /\ Len(stack) - 2 = n - 1 /\ n \in 1 .. n /\ n \in 1 .. n + 1
  BY <1>2
<1>3. /\ IsSequence(stack') /\ Len(stack') = n
      /\ \A j \in 1 .. n - 1 : stack'[j] = stack[j]
      /\ stack'[n] = Advanced(stack[n])
  <2>1. stack' = [Front(stack) EXCEPT ![n] = Advanced(@)]
    BY <1>a DEF Return
  <2>2. Front(stack)[n] = stack[n]
    <3>1. PICK S : stack \in Seq(S)
      BY <1>1 DEF IsSequence
    <3> QED
      BY <1>2, <3>1 DEF Front
  <2> DEFINE caller == Advanced(stack[n])
  <2>3. stack' = PoppedTo(stack, caller)
    BY <1>a, <2>1, <2>2 DEF PoppedTo
  <2> HIDE DEF caller
  <2>4. /\ IsSequence(PoppedTo(stack, caller)) /\ Len(PoppedTo(stack, caller)) = Len(stack) - 1
        /\ \A j \in 1 .. Len(stack) - 2 : PoppedTo(stack, caller)[j] = stack[j]
        /\ PoppedTo(stack, caller)[Len(stack) - 1] = caller
    BY <1>1, <1>2, PopEffect
  <2>5. caller = Advanced(stack[n])
    BY DEF caller
  <2> QED
    BY <1>a, <2>3, <2>4, <2>5
<1>b. Len(stack') - 1 = n - 1
  BY <1>3
<1> DEFINE f == stack[n]
<1>4. IsFrame(f) /\ f.step # "enter"
  BY <1>2, <1>a DEF LookupInv, Levels
<1>5. /\ Advanced(f) = [s |-> f.s, pos |-> f.pos, out |-> f.out, step |-> f.step,
                        i |-> f.i + 1, trying |-> f.trying, weight |-> f.weight,
                        values |-> f.values]
      /\ IsFrame(Advanced(f)) /\ Advanced(f).step # "enter"
      /\ PositionOf(Advanced(f)) = PositionOf(f)
  <2>1. Advanced(f) = [s |-> f.s, pos |-> f.pos, out |-> f.out, step |-> f.step,
                       i |-> f.i + 1, trying |-> f.trying, weight |-> f.weight,
                       values |-> f.values]
    BY <1>4 DEF IsFrame, Advanced
  <2> DEFINE h == Advanced(f)
  <2>2. h.s = f.s /\ h.pos = f.pos /\ h.out = f.out /\ h.step = f.step
        /\ h.i = f.i + 1 /\ h.trying = f.trying /\ h.weight = f.weight
        /\ h.values = f.values
    BY <2>1
  <2> HIDE DEF h
  <2>3. IsFrame(h) /\ h.step # "enter" /\ PositionOf(h) = PositionOf(f)
    BY <1>4, <2>1, <2>2 DEF IsFrame, PositionOf, h
  <2> QED
    BY <2>1, <2>3 DEF h
<1>6. /\ weight' = f.weight
      /\ IF ReadsFlag(g, f)
         THEN visited' = visited \ {<<ArcIn(g, f).to, f.values>>} /\ values' = f.values
         ELSE UNCHANGED <<visited, values>>
  BY <1>a, ArcIsArcIn DEF Return, Resume, ReadsFlag
<1>7. values' = f.values
  <2>1. values = Through(g, f)
    <3>1. ValuesAt(n + 1) = Through(g, stack[n])
      BY <1>a DEF LookupInv, ValuesChained
    <3>2. ~(n + 1 < n + 1)
      BY <1>2
    <3> QED
      BY <1>2, <3>1, <3>2 DEF ValuesAt
  <2> QED
    BY <1>6, <2>1 DEF Through
<1>8. \A j \in 1 .. n : (j \in 1 .. n - 1 \/ j = n) /\ j \in 1 .. n + 1
  BY <1>2
<1>9. \A j \in 1 .. n - 1 : j \in 1 .. n /\ j + 1 \in 1 .. n /\ j < n
  BY <1>2
<1>10. \A j \in 1 .. n : PositionOf(stack'[j]) = PositionOf(stack[j])
  BY <1>3, <1>5, <1>8
<1> HIDE DEF f
<1>11. Levels'
  <2>1. \A j \in 1 .. n : IsFrame(stack'[j]) /\ stack'[j].step # "enter"
    <3>1. ASSUME NEW j \in 1 .. n - 1 PROVE IsFrame(stack'[j]) /\ stack'[j].step # "enter"
      <4>1. j \in 1 .. n + 1 /\ j \in 1 .. Len(stack) - 1
        BY <1>2, <1>a
      <4> QED
        BY <1>2, <1>3, <4>1 DEF LookupInv, Levels
    <3>2. IsFrame(stack'[n]) /\ stack'[n].step # "enter"
      BY <1>3, <1>5 DEF f
    <3> QED
      BY <1>8, <3>1, <3>2
  <2>2. depth' = MAX_RECURSION_DEPTH - n
    BY <1>2, LookupAssumption DEF LookupInv, Levels
  <2>3. ~(stack' # << >> /\ stack'[n].step = "enter")
    BY <1>a, <2>1
  <2> QED
    BY <1>2, <1>3, <1>9, <1>b, <2>1, <2>2, <2>3, LookupAssumption DEF Levels
<1>12. \A j \in 1 .. n : WeightAt(j)' = WeightAt(j) /\ ValuesAt(j)' = ValuesAt(j)
  <2>1. ASSUME NEW j \in 1 .. n - 1
        PROVE  WeightAt(j)' = WeightAt(j) /\ ValuesAt(j)' = ValuesAt(j)
    <3>1. j < n /\ j < n + 1
      BY <1>2
    <3> QED
      BY <1>2, <1>3, <3>1 DEF WeightAt, ValuesAt
  <2>2. WeightAt(n)' = WeightAt(n) /\ ValuesAt(n)' = ValuesAt(n)
    <3>1. ~(n < n) /\ n < n + 1
      BY <1>2
    <3> QED
      BY <1>2, <1>3, <1>6, <1>7, <3>1 DEF WeightAt, ValuesAt, f
  <2> QED
    BY <1>8, <2>1, <2>2
<1>13. WeightsChained' /\ ValuesChained'
  <2>1. WeightAt(1)' = 0 /\ ValuesAt(1)' = Neutral
    <3>1. 1 \in 1 .. n
      BY <1>2
    <3> QED
      BY <1>12, <3>1 DEF LookupInv, WeightsChained, ValuesChained
  <2>2. ASSUME NEW j \in 1 .. n - 1
        PROVE  /\ WeightAt(j + 1)' = stack'[j].weight + ArcIn(g', stack'[j]).w
               /\ ValuesAt(j + 1)' = Through(g', stack'[j])
    <3>1. j \in 1 .. Len(stack) - 1
      BY <1>2, <1>a
    <3>2. /\ WeightAt(j + 1) = stack[j].weight + ArcIn(g, stack[j]).w
          /\ ValuesAt(j + 1) = Through(g, stack[j])
      BY <3>1 DEF LookupInv, WeightsChained, ValuesChained
    <3>3. stack'[j] = stack[j] /\ g' = g
      BY <1>3
    <3>4. WeightAt(j + 1)' = WeightAt(j + 1) /\ ValuesAt(j + 1)' = ValuesAt(j + 1)
      BY <1>9, <1>12
    <3> QED
      BY <3>2, <3>3, <3>4
  <2> QED
    BY <1>b, <2>1, <2>2 DEF WeightsChained, ValuesChained
<1>14. PositionsAscend'
  <2>1. ASSUME NEW j \in 1 .. n - 1 PROVE PositionOf(stack'[j + 1]) = stack'[j].pos
    <3>1. j \in 1 .. Len(stack) - 1
      BY <1>2, <1>a
    <3> QED
      BY <1>3, <1>9, <1>10, <3>1 DEF LookupInv, PositionsAscend
  <2>2. ASSUME NEW k \in 1 .. n, NEW j \in 1 .. k - 1
        PROVE  stack'[j].pos <= PositionOf(stack'[k])
    <3>1. j \in 1 .. n - 1 /\ k \in 1 .. Len(stack)
      BY <1>2
    <3> QED
      BY <1>3, <1>10, <3>1 DEF LookupInv, PositionsAscend
  <2> QED
    BY <1>3, <1>b, <2>1, <2>2 DEF PositionsAscend
<1>15. VisitedHeld'
  <2> SUFFICES ASSUME NEW c \in visited'
               PROVE  \E j \in 1 .. n - 1 :
                        /\ ReadsFlag(g, stack'[j])
                        /\ c = <<ArcIn(g, stack'[j]).to, stack'[j].values>>
                        /\ stack'[j].pos = PositionOf(stack'[n])
    <3>1. g' = g
      OBVIOUS
    <3> QED
      BY <1>3, <1>b, <3>1 DEF VisitedHeld
  <2>1. c \in visited
    BY <1>6
  <2>2. PICK j \in 1 .. n :
          /\ ReadsFlag(g, stack[j])
          /\ c = <<ArcIn(g, stack[j]).to, stack[j].values>>
          /\ stack[j].pos = PositionOf(stack[n + 1])
    BY <1>2, <1>a, <2>1 DEF LookupInv, VisitedHeld
  <2>3. j # n
    BY <1>6, <2>2 DEF f
  <2>4. j \in 1 .. n - 1
    BY <1>8, <2>3
  <2>5. PositionOf(stack[n + 1]) = f.pos
    BY <1>a DEF LookupInv, PositionsAscend, f
  <2>6. stack[j].pos <= PositionOf(f)
    <3>1. n \in 1 .. Len(stack)
      BY <1>2
    <3> QED
      BY <2>4, <3>1 DEF LookupInv, PositionsAscend, f
  <2>7. PositionOf(f) = f.pos
    BY <1>4, <2>2, <2>5, <2>6 DEF IsFrame, PositionOf
  <2>8. stack'[j] = stack[j] /\ PositionOf(stack'[n]) = f.pos
    BY <1>3, <1>a, <1>10, <2>4, <2>7 DEF f
  <2> QED
    BY <2>2, <2>4, <2>5, <2>8
<1> QED
  BY <1>11, <1>13, <1>14, <1>15 DEF LookupInv

-----------------------------------------------------------------------------
(* The actions *)

\* A frame with other control fields is a frame.
LEMMA MovedFrame ==
    ASSUME NEW f, IsFrame(f), NEW step \in {"enter", "zero", "symbol", "default"},
           NEW pos \in Int, NEW i, NEW trying, NEW h,
           h = [s |-> f.s, pos |-> pos, out |-> f.out, step |-> step, i |-> i,
                trying |-> trying, weight |-> f.weight, values |-> f.values]
    PROVE  IsFrame(h) /\ h.step = step /\ h.pos = pos
BY DEF IsFrame

\* What reading a symbol and going on to the next one leave of a frame.
LEMMA ControlMoved ==
    ASSUME NEW f, IsFrame(f), NEW trying
    PROVE  /\ [f EXCEPT !.step = "symbol", !.pos = @ + 1, !.i = 1, !.trying = trying] =
                [s |-> f.s, pos |-> f.pos + 1, out |-> f.out, step |-> "symbol", i |-> 1,
                 trying |-> trying, weight |-> f.weight, values |-> f.values]
           /\ [f EXCEPT !.trying = trying, !.i = 1] =
                [s |-> f.s, pos |-> f.pos, out |-> f.out, step |-> f.step, i |-> 1,
                 trying |-> trying, weight |-> f.weight, values |-> f.values]
           /\ [f EXCEPT !.step = "default", !.trying = trying, !.i = 1] =
                [s |-> f.s, pos |-> f.pos, out |-> f.out, step |-> "default", i |-> 1,
                 trying |-> trying, weight |-> f.weight, values |-> f.values]
<1> DEFINE read == [f EXCEPT !.step = "symbol"]
<1>1. read = [s |-> f.s, pos |-> f.pos, out |-> f.out, step |-> "symbol", i |-> f.i,
             trying |-> f.trying, weight |-> f.weight, values |-> f.values]
  BY DEF IsFrame
<1> HIDE DEF read
<1> DEFINE placed == [read EXCEPT !.pos = @ + 1]
<1>2. placed = [s |-> f.s, pos |-> f.pos + 1, out |-> f.out, step |-> "symbol", i |-> f.i,
               trying |-> f.trying, weight |-> f.weight, values |-> f.values]
  BY <1>1
<1> HIDE DEF placed
<1> DEFINE restarted == [placed EXCEPT !.i = 1]
<1>3. restarted = [s |-> f.s, pos |-> f.pos + 1, out |-> f.out, step |-> "symbol", i |-> 1,
                  trying |-> f.trying, weight |-> f.weight, values |-> f.values]
  BY <1>2
<1> HIDE DEF restarted
<1>4. [restarted EXCEPT !.trying = trying] =
        [s |-> f.s, pos |-> f.pos + 1, out |-> f.out, step |-> "symbol", i |-> 1,
         trying |-> trying, weight |-> f.weight, values |-> f.values]
  BY <1>3
<1> DEFINE next == [f EXCEPT !.trying = trying]
<1>5. next = [s |-> f.s, pos |-> f.pos, out |-> f.out, step |-> f.step, i |-> f.i,
             trying |-> trying, weight |-> f.weight, values |-> f.values]
  BY DEF IsFrame
<1> HIDE DEF next
<1>6. [next EXCEPT !.i = 1] =
        [s |-> f.s, pos |-> f.pos, out |-> f.out, step |-> f.step, i |-> 1,
         trying |-> trying, weight |-> f.weight, values |-> f.values]
  BY <1>5
<1> DEFINE defaulted == [f EXCEPT !.step = "default"]
<1>7. defaulted = [s |-> f.s, pos |-> f.pos, out |-> f.out, step |-> "default", i |-> f.i,
                  trying |-> f.trying, weight |-> f.weight, values |-> f.values]
  BY DEF IsFrame
<1> HIDE DEF defaulted
<1> DEFINE tried == [defaulted EXCEPT !.trying = trying]
<1>8. tried = [s |-> f.s, pos |-> f.pos, out |-> f.out, step |-> "default", i |-> f.i,
              trying |-> trying, weight |-> f.weight, values |-> f.values]
  BY <1>7
<1> HIDE DEF tried
<1>9. [tried EXCEPT !.i = 1] =
        [s |-> f.s, pos |-> f.pos, out |-> f.out, step |-> "default", i |-> 1,
         trying |-> trying, weight |-> f.weight, values |-> f.values]
  BY <1>8
<1> QED
  BY <1>4, <1>6, <1>9 DEF read, placed, restarted, next, defaulted, tried

LEMMA TopFrame ==
    ASSUME LookupInv, ~Idle
    PROVE  IsFrame(top) /\ top = stack[Len(stack)] /\ top.pos \in Int
<1>1. PICK S : stack \in Seq(S)
  BY DEF LookupInv, Levels, IsSequence
<1>2. Len(stack) \in 1 .. Len(stack) /\ top = stack[Len(stack)]
  BY <1>1 DEF Idle, top, Last
<1> QED
  BY <1>2 DEF LookupInv, Levels, IsFrame

LEMMA RefuseStep == LookupInv /\ Refuse => LookupInv'
<1> SUFFICES ASSUME LookupInv, Refuse PROVE LookupInv'
  OBVIOUS
<1>1. CASE Len(stack) = 1
  BY <1>1, LastReturns DEF Refuse, request
<1>2. CASE Len(stack) # 1
  BY <1>2, CallReturns DEF Refuse, request
<1> QED
  BY <1>1, <1>2

LEMMA LeaveStep == LookupInv /\ Leave => LookupInv'
<1> SUFFICES ASSUME LookupInv, Leave PROVE LookupInv'
  OBVIOUS
<1>1. CASE Len(stack) = 1
  BY <1>1, LastReturns DEF Leave, Return, request
<1>2. CASE Len(stack) # 1
  BY <1>2, CallReturns DEF Leave, request
<1> QED
  BY <1>1, <1>2

LEMMA EnterStep == LookupInv /\ Enter => LookupInv'
<1> SUFFICES ASSUME LookupInv, Enter PROVE LookupInv'
  OBVIOUS
<1>1. IsFrame(top) /\ top = stack[Len(stack)] /\ top.step = "enter" /\ top.pos \in Int
  BY TopFrame DEF Enter
<1> DEFINE h == [top EXCEPT !.step = "zero"]
<1>2. h = [s |-> top.s, pos |-> top.pos, out |-> top.out, step |-> "zero", i |-> top.i,
           trying |-> top.trying, weight |-> top.weight, values |-> top.values]
  BY <1>1 DEF IsFrame
<1>3. stack' = [stack EXCEPT ![Len(stack)] = h]
  BY <1>1 DEF Enter
<1> HIDE DEF h
<1>4. IsFrame(h) /\ h.step = "zero" /\ h.pos = top.pos
  BY <1>1, <1>2, MovedFrame
<1>5. PositionOf(h) = PositionOf(top)
  BY <1>1, <1>4 DEF PositionOf
<1> QED
  BY <1>1, <1>3, <1>4, <1>5, TopMoves DEF Enter, request, Deeper

LEMMA SkipFlagStep == LookupInv /\ SkipFlag => LookupInv'
<1> SUFFICES ASSUME LookupInv, SkipFlag PROVE LookupInv'
  OBVIOUS
<1>1. IsFrame(top) /\ top = stack[Len(stack)] /\ top.step = "zero" /\ top.pos \in Int
  BY TopFrame DEF SkipFlag
<1> DEFINE h == Advanced(top)
<1>2. h = [s |-> top.s, pos |-> top.pos, out |-> top.out, step |-> "zero", i |-> top.i + 1,
           trying |-> top.trying, weight |-> top.weight, values |-> top.values]
  BY <1>1 DEF IsFrame, Advanced
<1>3. stack' = [stack EXCEPT ![Len(stack)] = h]
  BY <1>1 DEF SkipFlag
<1> HIDE DEF h
<1>4. IsFrame(h) /\ h.step = "zero" /\ h.pos = top.pos
  BY <1>1, <1>2, MovedFrame
<1>5. PositionOf(h) = PositionOf(top)
  BY <1>1, <1>4 DEF PositionOf
<1> QED
  BY <1>1, <1>3, <1>4, <1>5, TopMoves DEF SkipFlag, request, object

LEMMA TakeEpsilonStep == LookupInv /\ TakeEpsilon => LookupInv'
<1> SUFFICES ASSUME LookupInv, TakeEpsilon PROVE LookupInv'
  OBVIOUS
<1>1. Call(<<0, Arc(top).out>>) /\ top.step = "zero" /\ ~Idle
      /\ UNCHANGED <<g, depth, values, visited>>
  BY DEF TakeEpsilon, request
<1>2. ~ReadsFlag(g, top)
  BY ArcIsArcIn, SymbolsAssumption DEF TakeEpsilon, ReadsFlag
<1> QED
  BY <1>1, <1>2, CallPushes

LEMMA TakeFlagStep == LookupInv /\ TakeFlag => LookupInv'
<1> SUFFICES ASSUME LookupInv, TakeFlag PROVE LookupInv'
  OBVIOUS
<1>1. Call(<<Arc(top).in, Arc(top).out>>) /\ top.step = "zero" /\ ~Idle
      /\ UNCHANGED <<g, depth>>
  BY DEF TakeFlag, request
<1>2. /\ ReadsFlag(g, top)
      /\ values' = Applied(FlagOp[ArcIn(g, top).in], values)
      /\ visited' = visited \cup {<<ArcIn(g, top).to, values>>}
  BY ArcIsArcIn DEF TakeFlag, ReadsFlag, Recorded
<1> QED
  BY <1>1, <1>2, CallPushes

LEMMA TakeSymbolStep == LookupInv /\ TakeSymbol => LookupInv'
<1> SUFFICES ASSUME LookupInv, TakeSymbol PROVE LookupInv'
  OBVIOUS
<1>1. PICK pair : Call(pair)
  BY DEF TakeSymbol
<1>2. top.step # "zero" /\ top.step # "enter" /\ ~Idle /\ visited' = {}
      /\ UNCHANGED <<g, depth, values>>
  BY DEF TakeSymbol, request
<1>3. ~ReadsFlag(g, top)
  BY <1>2 DEF ReadsFlag
<1> QED
  BY <1>1, <1>2, <1>3, CallPushes

LEMMA ReadInputStep == LookupInv /\ ReadInput => LookupInv'
<1> SUFFICES ASSUME LookupInv, ReadInput PROVE LookupInv'
  OBVIOUS
<1>1. IsFrame(top) /\ top = stack[Len(stack)] /\ top.step = "zero" /\ top.pos \in Int
      /\ ~Idle /\ g' = g
  BY TopFrame DEF ReadInput, request
<1>2. CASE AtEnd(top)
  <2>1. depth' = depth + 1 /\ Return
    BY <1>2 DEF ReadInput
  <2>2. CASE Len(stack) = 1
    BY <1>1, <2>1, <2>2, LastReturns DEF Return
  <2>3. CASE Len(stack) # 1
    BY <1>1, <2>1, <2>3, CallReturns
  <2> QED
    BY <2>2, <2>3
<1>3. CASE ~AtEnd(top)
  <2> DEFINE trying == Matches(input[top.pos + 1])
  <2> DEFINE h == [top EXCEPT !.step = "symbol", !.pos = @ + 1, !.i = 1, !.trying = trying]
  <2>2. stack' = [stack EXCEPT ![Len(stack)] = h]
        /\ UNCHANGED <<weight, values, visited, depth>>
    BY <1>1, <1>3 DEF ReadInput
  <2> HIDE DEF trying
  <2>1. h = [s |-> top.s, pos |-> top.pos + 1, out |-> top.out, step |-> "symbol",
             i |-> 1, trying |-> trying, weight |-> top.weight, values |-> top.values]
    BY <1>1, ControlMoved
  <2> HIDE DEF h
  <2>3. IsFrame(h) /\ h.step = "symbol" /\ h.pos = top.pos + 1
    <3>1. top.pos + 1 \in Int
      BY <1>1
    <3> QED
      BY <1>1, <2>1, <3>1, MovedFrame
  <2>4. PositionOf(h) = PositionOf(top)
    BY <1>1, <2>3 DEF PositionOf
  <2> QED
    BY <1>1, <2>2, <2>3, <2>4, TopMoves
<1> QED
  BY <1>2, <1>3

LEMMA TryNextStep == LookupInv /\ TryNext => LookupInv'
<1> SUFFICES ASSUME LookupInv, TryNext PROVE LookupInv'
  OBVIOUS
<1>1. /\ IsFrame(top) /\ top = stack[Len(stack)] /\ top.step \in {"symbol", "default"}
      /\ top.pos \in Int /\ ~Idle /\ UNCHANGED <<g, weight, values, visited, depth>>
  BY TopFrame DEF TryNext, request, object
<1>2. PICK h : /\ stack' = [stack EXCEPT ![Len(stack)] = h]
               /\ IsFrame(h) /\ h.step \in {"symbol", "default"} /\ h.pos = top.pos
  <2>1. CASE stack' = [stack EXCEPT ![Len(stack)] =
                         [top EXCEPT !.trying = Tail(@), !.i = 1]]
    <3> DEFINE rest == Tail(top.trying)
    <3> DEFINE h == [top EXCEPT !.trying = rest, !.i = 1]
    <3>2. stack' = [stack EXCEPT ![Len(stack)] = h]
      BY <1>1, <2>1
    <3> HIDE DEF rest
    <3>1. h = [s |-> top.s, pos |-> top.pos, out |-> top.out, step |-> top.step, i |-> 1,
               trying |-> rest, weight |-> top.weight, values |-> top.values]
      BY <1>1, ControlMoved
    <3> HIDE DEF h
    <3>3. IsFrame(h) /\ h.step = top.step /\ h.pos = top.pos
      BY <1>1, <3>1, MovedFrame
    <3> QED
      BY <1>1, <3>2, <3>3
  <2>2. CASE stack' = [stack EXCEPT ![Len(stack)] =
                         [top EXCEPT !.step = "default", !.trying = <<DEFAULT>>, !.i = 1]]
    <3> DEFINE rest == <<DEFAULT>>
    <3> DEFINE h == [top EXCEPT !.step = "default", !.trying = rest, !.i = 1]
    <3>2. stack' = [stack EXCEPT ![Len(stack)] = h]
      BY <1>1, <2>2
    <3> HIDE DEF rest
    <3>1. h = [s |-> top.s, pos |-> top.pos, out |-> top.out, step |-> "default", i |-> 1,
               trying |-> rest, weight |-> top.weight, values |-> top.values]
      BY <1>1, ControlMoved
    <3> HIDE DEF h
    <3>3. IsFrame(h) /\ h.step = "default" /\ h.pos = top.pos
      BY <1>1, <3>1, MovedFrame
    <3> QED
      BY <3>2, <3>3
  <2> QED
    BY <2>1, <2>2 DEF TryNext
<1>3. PositionOf(h) = PositionOf(top)
  BY <1>1, <1>2 DEF PositionOf
<1> QED
  BY <1>1, <1>2, <1>3, TopMoves

LEMMA LookupStep == LookupInv /\ Lookup => LookupInv'
<1> SUFFICES ASSUME LookupInv, Lookup PROVE LookupInv'
  OBVIOUS
<1> DEFINE first == Frame(0, 0, 0)
<1>1. /\ stack = << >> /\ stack' = <<first>> /\ visited' = {}
      /\ UNCHANGED <<g, weight, values, depth>>
  BY DEF Lookup, Idle
<1>2. first.step = "enter" /\ IsFrame(first)
  BY DEF Frame, IsFrame
<1> HIDE DEF first
<1>3. stack' \in Seq({first}) /\ Len(stack') = 1 /\ stack'[1] = first /\ stack' # << >>
  BY <1>1
<1>4. Len(stack) = 0
  BY <1>1
<1>5. Levels'
  <2>1. depth = MAX_RECURSION_DEPTH
    BY <1>1, <1>4, LookupAssumption DEF LookupInv, Levels
  <2>2. \A j \in 1 .. Len(stack') : j = 1
    BY <1>3
  <2>3. \A j \in 1 .. Len(stack') - 1 : stack'[j].step # "enter"
    BY <1>3
  <2>4. depth' = MAX_RECURSION_DEPTH - Len(stack') + 1
    BY <1>1, <1>3, <2>1, LookupAssumption
  <2> QED
    BY <1>2, <1>3, <2>2, <2>3, <2>4 DEF Levels, IsSequence
<1>6. WeightsChained' /\ ValuesChained'
  <2>1. WeightAt(1) = weight /\ ValuesAt(1) = values
    BY <1>4 DEF WeightAt, ValuesAt
  <2>2. WeightAt(1)' = weight' /\ ValuesAt(1)' = values'
    BY <1>3 DEF WeightAt, ValuesAt
  <2> QED
    BY <1>1, <1>3, <2>1, <2>2 DEF LookupInv, WeightsChained, ValuesChained
<1>7. PositionsAscend'
  BY <1>3 DEF PositionsAscend
<1>8. VisitedHeld'
  BY <1>1 DEF VisitedHeld
<1> QED
  BY <1>5, <1>6, <1>7, <1>8 DEF LookupInv

LEMMA InitEstablishes == Init => LookupInv
<1> SUFFICES ASSUME Init PROVE LookupInv
  OBVIOUS
<1>1. /\ stack = << >> /\ Len(stack) = 0 /\ weight = 0 /\ values = Neutral
      /\ visited = {} /\ depth = MAX_RECURSION_DEPTH
  BY DEF Init
<1>2. Levels
  BY <1>1, LookupAssumption DEF Levels, IsSequence
<1>3. WeightsChained /\ ValuesChained
  BY <1>1 DEF WeightsChained, ValuesChained, WeightAt, ValuesAt
<1>4. PositionsAscend /\ VisitedHeld
  BY <1>1 DEF PositionsAscend, VisitedHeld
<1> QED
  BY <1>2, <1>3, <1>4 DEF LookupInv

\* The invariant mentions nothing else of the state.
LEMMA StutterStep == LookupInv /\ UNCHANGED vars => LookupInv'
BY DEF vars, request, object, LookupInv, Levels, WeightsChained, ValuesChained,
       PositionsAscend, VisitedHeld, WeightAt, ValuesAt

LEMMA NextPreserves == LookupInv /\ [Next]_vars => LookupInv'
BY LookupStep, RefuseStep, EnterStep, TakeEpsilonStep, TakeFlagStep, SkipFlagStep,
   ReadInputStep, TakeSymbolStep, TryNextStep, LeaveStep, StutterStep DEF Next, Step

\* In every reachable state the object's weight, flag values and depth are what the
\* active calls, each by its own arc, have made of what a new object has.
THEOREM LookupInvHolds == Spec => []LookupInv
<1>1. Init => LookupInv
  BY InitEstablishes
<1>2. LookupInv /\ [Next]_vars => LookupInv'
  BY NextPreserves
<1> QED
  BY <1>1, <1>2, PTL DEF Spec

-----------------------------------------------------------------------------
(* The theorems *)

\* No lookup leaves anything of itself in the object: when it returns, be it
\* finished, cut by its limit, by the clock or by the recursion depth, the weight,
\* the flag values and the depth are those of a new object.
Restored ==
    Idle => weight = 0 /\ values = Neutral /\ depth = MAX_RECURSION_DEPTH

\* get_analyses undoes what it did to current_weight, flag_state and
\* recursion_depth_left on each of its ways out, which no lookup would do for it.
THEOREM ObjectIsRestored == Spec => []Restored
<1>1. LookupInv => Restored
  <2> SUFFICES ASSUME LookupInv, stack = << >>
               PROVE  weight = 0 /\ values = Neutral /\ depth = MAX_RECURSION_DEPTH
    BY DEF Restored, Idle
  <2>1. Len(stack) = 0
    OBVIOUS
  <2>2. depth = MAX_RECURSION_DEPTH
    BY <2>1, LookupAssumption DEF LookupInv, Levels
  <2>3. weight = 0 /\ values = Neutral
    BY <2>1 DEF LookupInv, WeightsChained, ValuesChained, WeightAt, ValuesAt
  <2> QED
    BY <2>2, <2>3
<1> QED
  BY <1>1, LookupInvHolds, PTL

\* traversal_states never outlives the calls that made its entries: what it holds
\* was recorded by an active call still inside that arc, at this input position.
THEOREM VisitedHolds == Spec => []VisitedIsActive
<1>1. LookupInv => VisitedIsActive
  <2> SUFFICES ASSUME LookupInv, NEW c \in visited
               PROVE  \E j \in 1 .. Len(stack) - 1 :
                        /\ stack[j].step = "zero" /\ Arc(stack[j]).in \in Flags
                        /\ c = <<Arc(stack[j]).to, stack[j].values>>
                        /\ stack[j].pos = PositionOf(top)
    BY DEF VisitedIsActive
  <2>1. PICK j \in 1 .. Len(stack) - 1 :
          /\ ReadsFlag(g, stack[j])
          /\ c = <<ArcIn(g, stack[j]).to, stack[j].values>>
          /\ stack[j].pos = PositionOf(stack[Len(stack)])
    BY DEF LookupInv, VisitedHeld
  <2>2. top = stack[Len(stack)]
    BY DEF top, Last
  <2> QED
    BY <2>1, <2>2, ArcIsArcIn DEF ReadsFlag
<1> QED
  BY <1>1, LookupInvHolds, PTL

-----------------------------------------------------------------------------
(* The limit *)

\* LimitRespected with the types that make counting possible.
LimitInv ==
    /\ g \in Graphs /\ limit \in Int /\ IsFiniteSet(results)
    /\ LimitRespected

\* A call that enters adds at most one result, and enters only below the limit.
LEMMA EnterKeepsLimit == LimitInv /\ Enter => LimitInv'
<1> SUFFICES ASSUME LimitInv, Enter PROVE LimitInv'
  OBVIOUS
<1>1. g' = g /\ limit' = limit /\ ~Enough
  BY DEF Enter, request
<1>2. PICK a : results' = results \/ results' = results \cup {a}
  BY DEF Enter
<1>3. /\ IsFiniteSet(results') /\ Cardinality(results) \in Nat
      /\ Cardinality(results') \in Nat
      /\ Cardinality(results') <= Cardinality(results) + 1
  <2>1. IsFiniteSet(results)
    BY DEF LimitInv
  <2>2. Cardinality(results) \in Nat
    BY <2>1, FS_CardinalityType
  <2>3. CASE results' = results
    BY <2>1, <2>2, <2>3
  <2>4. CASE results' = results \cup {a}
    <3>1. /\ IsFiniteSet(results \cup {a})
          /\ \/ Cardinality(results \cup {a}) = Cardinality(results)
             \/ Cardinality(results \cup {a}) = Cardinality(results) + 1
      BY <2>1, FS_AddElement
    <3> QED
      BY <2>2, <2>4, <3>1
  <2> QED
    BY <1>2, <2>3, <2>4
<1>4. limit \in Int /\ g \in Graphs
  BY DEF LimitInv
<1>5. limit >= 0 => Cardinality(results) < limit
  BY <1>1, <1>3, <1>4 DEF Enough
<1>6. limit >= 0 => Cardinality(results') <= limit
  BY <1>3, <1>4, <1>5
<1> QED
  BY <1>1, <1>3, <1>4, <1>6 DEF LimitInv, LimitRespected

\* lookup_fd starts with no result.
LEMMA LookupKeepsLimit == LimitInv /\ Lookup => LimitInv'
<1> SUFFICES ASSUME LimitInv, Lookup PROVE LimitInv'
  OBVIOUS
<1>1. g' = g /\ results' = {} /\ limit' \in Int
  BY LookupAssumption DEF LimitInv, Lookup
<1>2. IsFiniteSet(results') /\ Cardinality(results') = 0
  BY <1>1, FS_EmptySet
<1> QED
  BY <1>1, <1>2 DEF LimitInv, LimitRespected

\* However the search branches, no lookup returns more results than it was asked
\* for: max_lookups is compared with the results in every call of get_analyses.
THEOREM LimitHolds == Spec => []LimitRespected
<1>1. Init => LimitInv
  BY FS_EmptySet DEF Init, LimitInv, LimitRespected
<1>2. LimitInv /\ [Next]_vars => LimitInv'
  <2> SUFFICES ASSUME LimitInv, [Next]_vars PROVE LimitInv'
    OBVIOUS
  <2>1. CASE UNCHANGED <<g, limit, results>>
    BY <2>1 DEF LimitInv, LimitRespected
  <2>2. CASE Enter
    BY <2>2, EnterKeepsLimit
  <2>3. CASE Lookup
    BY <2>3, LookupKeepsLimit
  <2>4. CASE Refuse \/ TakeEpsilon \/ TakeFlag \/ SkipFlag \/ ReadInput
             \/ TakeSymbol \/ TryNext \/ Leave
    <3>1. UNCHANGED <<g, limit, results>>
      BY <2>4 DEF Refuse, TakeEpsilon, TakeFlag, SkipFlag, ReadInput, TakeSymbol,
                  TryNext, Leave, request
    <3> QED
      BY <2>1, <3>1
  <2>5. CASE UNCHANGED vars
    BY <2>1, <2>5 DEF vars, request
  <2> QED
    BY <2>2, <2>3, <2>4, <2>5 DEF Next, Step
<1>3. LimitInv => LimitRespected
  BY DEF LimitInv
<1> QED
  BY <1>1, <1>2, <1>3, PTL DEF Spec

-----------------------------------------------------------------------------
(* What a lookup returns: only analyses of the input with their weights.   *)
(*                                                                         *)
(* A call of the search stands for a configuration, the path of arcs its   *)
(* callers are inside of.  SearchInv says that each is one arc further     *)
(* than its caller's in the reference's sense (CallsReached), and that the *)
(* tape holds its output (TapeWritten); weight and flag values follow from *)
(* LookupInv.                                                              *)

\* What a recursive definition computes from the left of a sequence.
LEMMA WeightAfterIs ==
    ASSUME NEW arcs, Len(arcs) \in Nat, NEW v, v = [n \in 0 .. Len(arcs) |-> v[n]], v[0] = 0,
           \A n \in 1 .. Len(arcs) : v[n] = v[n - 1] + arcs[n].w
    PROVE  WeightAfter(arcs) = v[Len(arcs)]
<1> DEFINE w == CHOOSE f : f = [n \in 0 .. Len(arcs) |-> IF n = 0 THEN 0 ELSE f[n - 1] + arcs[n].w]
<1>1. v = [n \in 0 .. Len(arcs) |-> IF n = 0 THEN 0 ELSE v[n - 1] + arcs[n].w]
  OBVIOUS
<1>2. w = [n \in 0 .. Len(arcs) |-> IF n = 0 THEN 0 ELSE w[n - 1] + arcs[n].w]
  BY <1>1
<1>3. WeightAfter(arcs) = w[Len(arcs)]
  BY DEF WeightAfter
<1> HIDE DEF w
<1> DEFINE bad == {n \in 0 .. Len(arcs) : w[n] # v[n]}
<1>4. bad = {}
  <2> SUFFICES ASSUME bad # {} PROVE FALSE
    OBVIOUS
  <2>1. bad \in SUBSET Nat
    OBVIOUS
  <2>2. PICK m \in bad : \A k \in bad : m <= k
    BY <2>1, LeastElement
  <2>3. m \in 0 .. Len(arcs) /\ w[m] # v[m] /\ (m # 0 => m - 1 \in 0 .. Len(arcs) /\ w[m - 1] = v[m - 1])
    BY <2>2
  <2>4. \A n \in 0 .. Len(arcs) : w[n] = IF n = 0 THEN 0 ELSE w[n - 1] + arcs[n].w
    BY <1>2
  <2>5. CASE m = 0
    BY <2>3, <2>4, <2>5
  <2>6. CASE m # 0
    <3>1. m \in 1 .. Len(arcs)
      BY <2>3, <2>6
    <3> QED
      BY <2>3, <2>4, <2>6, <3>1
  <2> QED
    BY <2>5, <2>6
<1> QED
  BY <1>3, <1>4

LEMMA ValuesAfterIs ==
    ASSUME NEW arcs, Len(arcs) \in Nat, NEW v, v = [n \in 0 .. Len(arcs) |-> v[n]],
           v[0] = Neutral,
           \A n \in 1 .. Len(arcs) : v[n] = PastArc(v[n - 1], arcs[n])
    PROVE  ValuesAfter(arcs) = v[Len(arcs)]
<1> DEFINE w == CHOOSE f :
             f = [n \in 0 .. Len(arcs) |->
                    IF n = 0 THEN Neutral ELSE PastArc(f[n - 1], arcs[n])]
<1>1. v = [n \in 0 .. Len(arcs) |-> IF n = 0 THEN Neutral ELSE PastArc(v[n - 1], arcs[n])]
  OBVIOUS
<1>2. w = [n \in 0 .. Len(arcs) |-> IF n = 0 THEN Neutral ELSE PastArc(w[n - 1], arcs[n])]
  BY <1>1
<1>3. ValuesAfter(arcs) = w[Len(arcs)]
  BY DEF ValuesAfter
<1> HIDE DEF w
<1> DEFINE bad == {n \in 0 .. Len(arcs) : w[n] # v[n]}
<1>4. bad = {}
  <2> SUFFICES ASSUME bad # {} PROVE FALSE
    OBVIOUS
  <2>1. bad \in SUBSET Nat
    OBVIOUS
  <2>2. PICK m \in bad : \A k \in bad : m <= k
    BY <2>1, LeastElement
  <2>3. m \in 0 .. Len(arcs) /\ w[m] # v[m]
        /\ (m # 0 => m - 1 \in 0 .. Len(arcs) /\ w[m - 1] = v[m - 1])
    BY <2>2
  <2>4. \A n \in 0 .. Len(arcs) :
          w[n] = IF n = 0 THEN Neutral ELSE PastArc(w[n - 1], arcs[n])
    BY <1>2
  <2>5. CASE m = 0
    BY <2>3, <2>4, <2>5
  <2>6. CASE m # 0
    <3>1. m \in 1 .. Len(arcs)
      BY <2>3, <2>6
    <3> QED
      BY <2>3, <2>4, <2>6, <3>1
  <2> QED
    BY <2>5, <2>6
<1> QED
  BY <1>3, <1>4

\* All the configurations one arc leads to from those of C.
Onward(gr, inp, C) == UNION {Successors(gr, inp, c) : c \in C}

Layers(gr, inp, m, r) ==
    r = [n \in 0 .. m |-> IF n = 0 THEN {Start} ELSE Onward(gr, inp, r[n - 1])]

\* The sets of configurations reached by more and more arcs exist.
LEMMA ReachedExists ==
    ASSUME NEW gr, NEW inp, NEW m \in Nat
    PROVE  \E r : Layers(gr, inp, m, r)
<1> DEFINE Good(k) == \E r : r = [n \in 0 .. k |->
                               IF n = 0 THEN {Start} ELSE Onward(gr, inp, r[n - 1])]
           bad == {k \in Nat : ~Good(k)}
<1>1. bad = {}
  <2> SUFFICES ASSUME bad # {} PROVE FALSE
    OBVIOUS
  <2>1. PICK k \in bad : \A i \in bad : k <= i
    <3>1. bad \in SUBSET Nat
      OBVIOUS
    <3> HIDE DEF bad
    <3> QED
      BY <3>1, LeastElement
  <2>2. k \in Nat /\ ~Good(k)
    BY <2>1
  <2>3. CASE k = 0
    <3> DEFINE r == [n \in 0 .. k |-> {Start}]
    <3>1. r = [n \in 0 .. k |-> IF n = 0 THEN {Start} ELSE Onward(gr, inp, r[n - 1])]
      BY <2>3
    <3> QED
      BY <2>2, <3>1
  <2>4. CASE k # 0
    <3>1. k - 1 \in Nat /\ k - 1 \notin bad
      <4>1. k - 1 \in Nat /\ ~(k <= k - 1)
        BY <2>2, <2>4
      <4> HIDE DEF bad
      <4> QED
        BY <2>1, <4>1
    <3>2. PICK q : q = [n \in 0 .. k - 1 |->
                          IF n = 0 THEN {Start} ELSE Onward(gr, inp, q[n - 1])]
      BY <3>1
    <3> DEFINE r == [n \in 0 .. k |-> IF n <= k - 1 THEN q[n] ELSE Onward(gr, inp, q[k - 1])]
    <3>3. \A n \in 0 .. k - 1 :
            q[n] = IF n = 0 THEN {Start} ELSE Onward(gr, inp, q[n - 1])
      BY <3>2
    <3>4. \A n \in 0 .. k :
            r[n] = IF n = 0 THEN {Start} ELSE Onward(gr, inp, r[n - 1])
      <4> SUFFICES ASSUME NEW n \in 0 .. k
                   PROVE  r[n] = IF n = 0 THEN {Start} ELSE Onward(gr, inp, r[n - 1])
        OBVIOUS
      <4>1. CASE n = k
        <5>1. r[n] = Onward(gr, inp, q[k - 1]) /\ r[n - 1] = q[k - 1] /\ n # 0
          BY <2>2, <2>4, <4>1
        <5> QED
          BY <4>1, <5>1
      <4>2. CASE n # k
        <5>1. n \in 0 .. k - 1 /\ r[n] = q[n] /\ (n # 0 => r[n - 1] = q[n - 1])
          BY <2>2, <2>4, <4>2
        <5> QED
          BY <3>3, <5>1
      <4> QED
        BY <4>1, <4>2
    <3>5. r = [n \in 0 .. k |-> r[n]]
      OBVIOUS
    <3> HIDE DEF r
    <3>6. r = [n \in 0 .. k |-> IF n = 0 THEN {Start} ELSE Onward(gr, inp, r[n - 1])]
      BY <3>4, <3>5
    <3> QED
      BY <2>2, <3>6
  <2> QED
    BY <2>3, <2>4
<1> QED
  BY <1>1 DEF Layers

\* What ReachedBy is.
LEMMA ReachedByIs ==
    ASSUME NEW gr, NEW inp
    PROVE  /\ DOMAIN ReachedBy(gr, inp) = 0 .. MAX_RECURSION_DEPTH - 1
           /\ ReachedBy(gr, inp)[0] = {Start}
           /\ \A n \in 1 .. MAX_RECURSION_DEPTH - 1 :
                ReachedBy(gr, inp)[n] = Onward(gr, inp, ReachedBy(gr, inp)[n - 1])
<1> DEFINE d == MAX_RECURSION_DEPTH - 1
           w == CHOOSE f : f = [n \in 0 .. d |->
                  IF n = 0 THEN {Start} ELSE UNION {Successors(gr, inp, c) : c \in f[n - 1]}]
           u == CHOOSE f : f = [n \in 0 .. d |->
                  IF n = 0 THEN {Start} ELSE Onward(gr, inp, f[n - 1])]
<1>1. d \in Nat
  BY LookupAssumption
<1>2. ReachedBy(gr, inp) = w
  BY DEF ReachedBy
<1>3. w = u
  BY DEF Onward
<1>4. u = [n \in 0 .. d |-> IF n = 0 THEN {Start} ELSE Onward(gr, inp, u[n - 1])]
  <2> HIDE DEF d
  <2>1. \E r : Layers(gr, inp, d, r)
    BY <1>1, ReachedExists
  <2> QED
    BY <2>1 DEF Layers
<1> HIDE DEF u, w
<1>5. 0 \in 0 .. d /\ \A n \in 1 .. d : n \in 0 .. d /\ n # 0
  BY <1>1
<1> QED
  BY <1>2, <1>3, <1>4, <1>5
-----------------------------------------------------------------------------
(* The invariant of the search *)

\* The arc inputs tried for an input symbol.
Tried(x) == IF x < ORIG_SYMBOL_COUNT THEN {x} ELSE {IDENTITY, UNKNOWN} \ {NO_SYMBOL}

\* No arc of s can start on x; an arc for what nothing else starts on has no
\* epsilon or flag arc beside it.
NothingStarts(gr, s, x) == \A a \in Range(gr.arcs[s]) : a.in \notin Tried(x)
DefaultsApart(gr, s) ==
    \/ \A a \in Range(gr.arcs[s]) : a.in # DEFAULT
    \/ \A a \in Range(gr.arcs[s]) : a.in \notin Zero

\* A call that has read a symbol is at an arc of an input it tries for it.
Reading(gr, inp, f) ==
    /\ f.pos > 0
    /\ IF f.trying = << >> THEN f.i = 1
       ELSE f.i \in 1 .. Len(ArcsFor(gr, f.s, Head(f.trying))) + 1
    /\ f.step = "symbol" => f.trying \in Seq(Tried(inp[f.pos]))
    /\ f.step = "default" =>
         /\ DEFAULT # NO_SYMBOL /\ f.trying = <<DEFAULT>>
         /\ NothingStarts(gr, f.s, inp[f.pos]) /\ DefaultsApart(gr, f.s)

\* The frame of call j is at a place of the transducer, the input and the tape.
Placed(gr, inp, f, j) ==
    /\ f.s \in 0 .. gr.n - 1 /\ f.pos \in 0 .. Len(inp) /\ f.out = j - 1
    /\ f.step = "enter" => f.i = 1
    /\ f.step = "zero" => f.i \in 1 .. Len(ZeroArcs(gr, f.s)) + 1
    /\ f.step \in {"symbol", "default"} => Reading(gr, inp, f)

\* The frame is inside an arc.
Inside(gr, f) ==
    IF f.step = "zero" THEN f.i <= Len(ZeroArcs(gr, f.s))
    ELSE f.trying # << >> /\ f.i <= Len(ArcsFor(gr, f.s, Head(f.trying)))

\* Where the search was when call j began, and that it is reached by j - 1 arcs.
Config(j) ==
    [s |-> stack[j].s, pos |-> PositionOf(stack[j]), values |-> ValuesAt(j),
     weight |-> WeightAt(j), path |-> [k \in 1 .. j - 1 |-> tape[k]]]
Begun(gr, inp, j, c) ==
    /\ c.weight \in Nat /\ c.values \in [Features -> Int]
    /\ j <= MAX_RECURSION_DEPTH => c \in ReachedBy(gr, inp)[j - 1]

Requested ==
    /\ g \in Graphs /\ input \in Seq(Nat \ Zero) /\ limit \in Int
    /\ {timed, late, found} \subseteq BOOLEAN

Recording ==
    /\ depth \in 0 .. MAX_RECURSION_DEPTH
    /\ visited \subseteq (0 .. g.n - 1) \X [Features -> Int]

CallsPlaced ==
    /\ \A j \in 1 .. Len(stack) : Placed(g, input, stack[j], j)
    /\ \A j \in 1 .. Len(stack) - 1 : Inside(g, stack[j])

TapeWritten ==
    /\ IsSequence(tape) /\ Len(tape) >= Len(stack) - 1
    /\ \A j \in 1 .. Len(stack) - 1 : tape[j][1] = ArcIn(g, stack[j]).in

CallsReached == \A j \in 1 .. Len(stack) : Begun(g, input, j, Config(j))

\* While nothing is found, no arc of the inputs already tried exists.
UnfoundTries ==
    ~Idle /\ top.step = "symbol" /\ ~found =>
      /\ top.i = 1 /\ DefaultsApart(g, top.s)
      /\ \A a \in Range(g.arcs[top.s]) :
           a.in \in Tried(input[top.pos]) => a.in \in Range(top.trying)

SearchInv ==
    /\ Requested /\ Recording /\ CallsPlaced /\ TapeWritten /\ CallsReached
    /\ UnfoundTries /\ results \subseteq AllAnalyses

\* Calls that stay are where they began, and a new one begins where the arc of its
\* caller leads to.
ConfigsFollow ==
    /\ \A j \in 1 .. Len(stack) : j <= Len(stack') => Config(j)' = Config(j)
    /\ \A j \in 2 .. Len(stack') : j = Len(stack) + 1 =>
         Config(j)' \in Past(g, input, Config(j - 1), ArcIn(g, stack[j - 1]))
    /\ Len(stack') <= Len(stack) + 1
    /\ \A j \in 1 .. Len(stack') - 1 : ArcIn(g, stack'[j]) = ArcIn(g, stack[j])

-----------------------------------------------------------------------------
(* What the actions do to the stack and the tape *)

LEMMA InnermostCall ==
    ASSUME LookupInv, ~Idle
    PROVE  /\ IsSequence(stack) /\ stack # << >> /\ Len(stack) \in Nat \ {0}
           /\ top = stack[Len(stack)] /\ IsFrame(top) /\ top.pos \in Int
           /\ \A j \in 1 .. Len(stack) : IsFrame(stack[j]) /\ stack[j].pos \in Int
<1>1. IsSequence(stack)
  BY DEF LookupInv, Levels
<1>2. stack # << >> /\ Len(stack) \in Nat \ {0} /\ top = stack[Len(stack)]
  BY <1>1 DEF Idle, top, Last, IsSequence
<1>3. \A j \in 1 .. Len(stack) : IsFrame(stack[j]) /\ stack[j].pos \in Int
  BY DEF LookupInv, Levels, IsFrame
<1> QED
  BY <1>1, <1>2, <1>3

\* Writing inside the tape or at its end leaves the rest of it.
LEMMA WriteEffect ==
    ASSUME IsSequence(tape), NEW pos \in 0 .. Len(tape), NEW pair
    PROVE  /\ IsSequence(Write(pos, pair)) /\ Len(Write(pos, pair)) >= Len(tape)
           /\ Len(Write(pos, pair)) >= pos + 1 /\ Write(pos, pair)[pos + 1] = pair
           /\ Len(Write(pos, pair)) \in Nat
           /\ \A k \in 1 .. Len(tape) : k # pos + 1 => Write(pos, pair)[k] = tape[k]
<1> PICK S : tape \in Seq(S)
  BY DEF IsSequence
<1> DEFINE n == Len(tape)
           m == Max({n, pos + 1})
<1>1. n \in Nat /\ pos \in Nat /\ pos <= n
  OBVIOUS
<1>2. m \in Nat /\ m >= n /\ m >= pos + 1 /\ (m = n \/ m = pos + 1)
  <2> HIDE DEF n
  <2>1. \E x \in {n, pos + 1} : \A y \in {n, pos + 1} : x >= y
    BY <1>1
  <2>2. m \in {n, pos + 1} /\ \A y \in {n, pos + 1} : m >= y
    BY <2>1 DEF Max
  <2> QED
    BY <1>1, <2>2
<1> HIDE DEF m
<1>3. Write(pos, pair) = [q \in 1 .. m |-> IF q = pos + 1 THEN pair ELSE tape[q]]
  BY DEF Write, m
<1>4. \A q \in 1 .. m : q = pos + 1 \/ q \in 1 .. n
  BY <1>1, <1>2
<1>5. \A q \in 1 .. m : (IF q = pos + 1 THEN pair ELSE tape[q]) \in S \cup {pair}
  BY <1>4
<1>6. Write(pos, pair) \in Seq(S \cup {pair}) /\ Len(Write(pos, pair)) = m
  BY <1>2, <1>3, <1>5
<1>7. \A q \in 1 .. m : Write(pos, pair)[q] = IF q = pos + 1 THEN pair ELSE tape[q]
  BY <1>3
<1> QED
  BY <1>1, <1>2, <1>6, <1>7 DEF IsSequence

\* What has been written behind the innermost calls is not where a call began.
LEMMA ConfigKept ==
    ASSUME NEW j \in Nat, stack'[j].s = stack[j].s,
           PositionOf(stack'[j]) = PositionOf(stack[j]),
           ValuesAt(j)' = ValuesAt(j), WeightAt(j)' = WeightAt(j),
           \A k \in 1 .. j - 1 : tape'[k] = tape[k]
    PROVE  Config(j)' = Config(j)
<1>1. [k \in 1 .. j - 1 |-> tape'[k]] = [k \in 1 .. j - 1 |-> tape[k]]
  OBVIOUS
<1> QED
  BY <1>1 DEF Config

\* The innermost call is elsewhere in its state's arcs.
LEMMA SearchTopMoves ==
    ASSUME LookupInv, SearchInv, ~Idle, NEW h,
           stack' = [stack EXCEPT ![Len(stack)] = h],
           UNCHANGED <<g, input, weight, values>>,
           h.s = top.s, PositionOf(h) = PositionOf(top), Placed(g, input, h, Len(stack)),
           IsSequence(tape'), Len(tape') >= Len(stack) - 1,
           \A k \in 1 .. Len(stack) - 1 : tape'[k] = tape[k]
    PROVE  CallsPlaced' /\ TapeWritten' /\ CallsReached' /\ ConfigsFollow
<1> PICK n \in Nat \ {0} : n = Len(stack)
  BY InnermostCall
<1>1. top = stack[n] /\ IsSequence(stack) /\ stack # << >>
  BY InnermostCall
<1>2. /\ Len(stack') = n /\ stack'[n] = h
      /\ \A j \in 1 .. n - 1 : stack'[j] = stack[j]
  <2>1. stack' = Retopped(stack, h)
    BY DEF Retopped
  <2> QED
    BY <1>1, <2>1, TopEffect
<1>3. \A j \in 1 .. n : j = n \/ j \in 1 .. n - 1
  OBVIOUS
<1>4. \A j \in 1 .. n : /\ stack'[j].s = stack[j].s
                        /\ PositionOf(stack'[j]) = PositionOf(stack[j])
  BY <1>1, <1>2, <1>3
<1>5. \A j \in 1 .. n : WeightAt(j)' = WeightAt(j) /\ ValuesAt(j)' = ValuesAt(j)
  <2>1. \A j \in 1 .. n : j < n => stack'[j] = stack[j]
    BY <1>2
  <2>2. Len(stack) = n /\ Len(stack') = n /\ weight' = weight /\ values' = values
    BY <1>2
  <2> QED
    BY <2>1, <2>2 DEF WeightAt, ValuesAt
<1>6. \A j \in 1 .. n : Config(j)' = Config(j)
  <2> SUFFICES ASSUME NEW j \in 1 .. n PROVE Config(j)' = Config(j)
    OBVIOUS
  <2>1. j \in Nat /\ \A k \in 1 .. j - 1 : k \in 1 .. n - 1
    OBVIOUS
  <2>2. \A k \in 1 .. j - 1 : tape'[k] = tape[k]
    BY <2>1
  <2> QED
    BY <1>4, <1>5, <2>1, <2>2, ConfigKept
<1>7. CallsPlaced'
  <2>1. \A j \in 1 .. n : Placed(g, input, stack'[j], j)
    BY <1>2, <1>3 DEF SearchInv, CallsPlaced
  <2>2. \A j \in 1 .. n - 1 : Inside(g, stack'[j])
    BY <1>2 DEF SearchInv, CallsPlaced
  <2> QED
    BY <1>2, <2>1, <2>2 DEF CallsPlaced
<1>8. TapeWritten'
  <2>1. \A j \in 1 .. n - 1 : tape'[j][1] = ArcIn(g, stack'[j]).in
    BY <1>2 DEF SearchInv, TapeWritten
  <2> QED
    BY <1>2, <2>1 DEF TapeWritten
<1>9. CallsReached'
  BY <1>2, <1>6 DEF SearchInv, CallsReached
<1>10. ConfigsFollow
  <2>1. \A j \in 2 .. n : j # n + 1
    OBVIOUS
  <2>2. \A j \in 1 .. n - 1 : ArcIn(g, stack'[j]) = ArcIn(g, stack[j])
    BY <1>2
  <2> QED
    BY <1>2, <1>6, <2>1, <2>2 DEF ConfigsFollow
<1> QED
  BY <1>7, <1>8, <1>9, <1>10

\* What one arc leads to from a configuration reached is reached by one arc more.
LEMMA OneArcFurther ==
    ASSUME NEW gr, NEW inp, NEW n \in Nat \ {0}, NEW c, NEW d,
           n <= MAX_RECURSION_DEPTH => c \in ReachedBy(gr, inp)[n - 1],
           n + 1 <= MAX_RECURSION_DEPTH => d \in Successors(gr, inp, c)
    PROVE  n + 1 <= MAX_RECURSION_DEPTH => d \in ReachedBy(gr, inp)[n]
<1> SUFFICES ASSUME n + 1 <= MAX_RECURSION_DEPTH PROVE d \in ReachedBy(gr, inp)[n]
  OBVIOUS
<1>1. n \in 1 .. MAX_RECURSION_DEPTH - 1 /\ n <= MAX_RECURSION_DEPTH
  BY LookupAssumption
<1>2. ReachedBy(gr, inp)[n] = Onward(gr, inp, ReachedBy(gr, inp)[n - 1])
  BY <1>1, ReachedByIs
<1> QED
  BY <1>1, <1>2 DEF Onward

\* The innermost call follows an arc, which is one the search may follow from where
\* it is: what it calls begins where that arc leads to.
LEMMA SearchCalls ==
    ASSUME LookupInv, SearchInv, ~Idle, NEW out,
           Call(<<ArcIn(g, top).in, out>>), UNCHANGED <<g, input>>,
           top.step # "enter", Inside(g, top),
           ArcIn(g, top) \in Range(g.arcs[top.s]),
           values' \in [Features -> Int],
           Moved(Config(Len(stack)), ArcIn(g, top), top.pos, values', out)
             \in Past(g, input, Config(Len(stack)), ArcIn(g, top))
    PROVE  CallsPlaced' /\ TapeWritten' /\ CallsReached' /\ ConfigsFollow
<1> DEFINE caller == [top EXCEPT !.weight = weight, !.values = values]
           callee == Frame(Arc(top).to, top.pos, top.out + 1)
           a == ArcIn(g, top)
           pair == <<a.in, out>>
<1> PICK n \in Nat \ {0} : n = Len(stack)
  BY InnermostCall
<1>1. top = stack[n] /\ IsSequence(stack) /\ stack # << >> /\ IsFrame(top) /\ top.pos \in Int
  BY InnermostCall
<1>2. /\ Len(stack') = n + 1 /\ stack'[n] = caller /\ stack'[n + 1] = callee
      /\ \A j \in 1 .. n - 1 : stack'[j] = stack[j]
  <2>1. stack' = Pushed(stack, caller, callee)
    BY DEF Call, Pushed
  <2> HIDE DEF caller, callee
  <2> QED
    BY <1>1, <2>1, PushEffect
<1>3. caller = [s |-> top.s, pos |-> top.pos, out |-> top.out, step |-> top.step,
                i |-> top.i, trying |-> top.trying, weight |-> weight, values |-> values]
  BY <1>1, SavedFrame, ZenonT(40)
<1>4. callee = [s |-> a.to, pos |-> top.pos, out |-> top.out + 1, step |-> "enter", i |-> 1,
                trying |-> << >>, weight |-> 0, values |-> Neutral]
  BY ArcIsArcIn DEF Frame
<1>5. weight' = weight + a.w /\ tape' = Write(top.out, pair)
  BY ArcIsArcIn DEF Call
<1> HIDE DEF caller, callee
<1>6. n \in 1 .. n /\ Placed(g, input, top, n)
  BY <1>1 DEF SearchInv, CallsPlaced
<1>7. AnArc(g, a)
  <2>1. IsGraph(g) /\ top.s \in 0 .. g.n - 1
    BY <1>6, GraphsAssumption DEF SearchInv, Requested, Placed
  <2> QED
    BY <2>1, ArcsAreArcs
<1>8. /\ IsSequence(tape') /\ Len(tape') >= n /\ tape'[n] = pair
      /\ \A k \in 1 .. n - 1 : tape'[k] = tape[k]
  <2>1. top.out = n - 1 /\ Len(tape) >= n - 1 /\ IsSequence(tape)
    BY <1>6 DEF SearchInv, Placed, TapeWritten
  <2>2. Len(tape) \in Nat
    BY <2>1 DEF IsSequence
  <2>3. top.out \in 0 .. Len(tape) /\ top.out + 1 = n
    BY <2>1, <2>2
  <2>4. \A k \in 1 .. n - 1 : k \in 1 .. Len(tape) /\ k # n
    BY <2>1, <2>2
  <2>5. Len(Write(top.out, pair)) \in Nat /\ Len(Write(top.out, pair)) >= n
    BY <2>1, <2>3, WriteEffect
  <2> HIDE DEF pair
  <2> QED
    BY <1>5, <2>1, <2>3, <2>4, <2>5, WriteEffect, SMTT(30)
<1>9. \A j \in 1 .. n + 1 : j \in 1 .. n - 1 \/ j = n \/ j = n + 1
  OBVIOUS
<1>10. /\ \A j \in 1 .. n : WeightAt(j)' = WeightAt(j) /\ ValuesAt(j)' = ValuesAt(j)
       /\ WeightAt(n + 1)' = weight' /\ ValuesAt(n + 1)' = values'
       /\ WeightAt(n) = weight
  <2>1. \A j \in 1 .. n : j < n + 1 /\ (j < n \/ j = n) /\ (j < n => j \in 1 .. n - 1)
    OBVIOUS
  <2>2. ~(n + 1 < n + 1) /\ ~(n < n)
    OBVIOUS
  <2>3. Len(stack) = n /\ Len(stack') = n + 1
    BY <1>2
  <2>4. /\ WeightAt(n + 1)' = weight' /\ ValuesAt(n + 1)' = values'
        /\ WeightAt(n) = weight /\ ValuesAt(n) = values
    BY <2>2, <2>3 DEF WeightAt, ValuesAt
  <2>5. ASSUME NEW j \in 1 .. n
        PROVE  WeightAt(j)' = WeightAt(j) /\ ValuesAt(j)' = ValuesAt(j)
    <3>1. WeightAt(j)' = stack'[j].weight /\ ValuesAt(j)' = stack'[j].values
      BY <2>1, <2>3 DEF WeightAt, ValuesAt
    <3>2. CASE j = n
      BY <1>2, <1>3, <2>4, <3>1, <3>2
    <3>3. CASE j < n
      <4>1. WeightAt(j) = stack[j].weight /\ ValuesAt(j) = stack[j].values
        BY <2>3, <3>3 DEF WeightAt, ValuesAt
      <4> QED
        BY <1>2, <2>1, <3>1, <3>3, <4>1
    <3> QED
      BY <2>1, <3>2, <3>3
  <2> QED
    BY <2>4, <2>5
<1>11. \A j \in 1 .. n : Config(j)' = Config(j)
  <2> SUFFICES ASSUME NEW j \in 1 .. n PROVE Config(j)' = Config(j)
    OBVIOUS
  <2>1. j \in Nat /\ (j \in 1 .. n - 1 \/ j = n) /\ \A k \in 1 .. j - 1 : k \in 1 .. n - 1
    OBVIOUS
  <2>2. \A k \in 1 .. j - 1 : tape'[k] = tape[k]
    BY <1>8, <2>1
  <2>3. stack'[j].s = stack[j].s /\ PositionOf(stack'[j]) = PositionOf(stack[j])
    BY <1>1, <1>2, <1>3, <2>1 DEF PositionOf
  <2> QED
    BY <1>10, <2>1, <2>2, <2>3, ConfigKept
<1>12. CallsPlaced'
  <2>1. Placed(g, input, caller, n) /\ Inside(g, caller)
    BY <1>3, <1>6 DEF Placed, Reading, Inside
  <2>2. Placed(g, input, callee, n + 1)
    <3>1. top.pos \in 0 .. Len(input) /\ top.out + 1 = n + 1 - 1 /\ a.to \in 0 .. g.n - 1
      BY <1>6, <1>7 DEF Placed, AnArc
    <3> HIDE DEF a
    <3> QED
      BY <1>4, <3>1 DEF Placed
  <2>3. \A j \in 1 .. n + 1 : Placed(g, input, stack'[j], j)
    <3>1. \A j \in 1 .. n - 1 : j \in 1 .. Len(stack)
      OBVIOUS
    <3> QED
      BY <1>2, <1>9, <2>1, <2>2, <3>1 DEF SearchInv, CallsPlaced
  <2>4. \A j \in 1 .. n : Inside(g, stack'[j])
    <3>1. \A j \in 1 .. n : j = n \/ j \in 1 .. n - 1
      OBVIOUS
    <3> QED
      BY <1>2, <2>1, <3>1 DEF SearchInv, CallsPlaced
  <2> QED
    BY <1>2, <2>3, <2>4 DEF CallsPlaced
<1>13. TapeWritten'
  <2>1. ArcIn(g, caller) = a
    BY <1>3 DEF ArcIn
  <2>2. pair[1] = a.in
    OBVIOUS
  <2>3. \A j \in 1 .. n : j = n \/ j \in 1 .. n - 1
    OBVIOUS
  <2> HIDE DEF pair, a
  <2>4. \A j \in 1 .. n : tape'[j][1] = ArcIn(g, stack'[j]).in
    BY <1>2, <1>8, <2>1, <2>2, <2>3 DEF SearchInv, TapeWritten
  <2> QED
    BY <1>2, <1>8, <2>4 DEF TapeWritten
<1>14. CallsReached' /\ ConfigsFollow
  <2> DEFINE c == Config(n)
             d == Moved(c, a, top.pos, values', out)
  <2>1. Begun(g, input, n, c)
    BY <1>6 DEF SearchInv, CallsReached
  <2>2. Config(n + 1)' = d
    <3>1. c.weight = weight /\ c.path = [k \in 1 .. n - 1 |-> tape[k]]
      BY <1>10 DEF Config
    <3>2. Append(c.path, pair) = [k \in 1 .. n + 1 - 1 |-> tape'[k]]
      <4> DEFINE p == [k \in 1 .. n - 1 |-> tape[k]]
                 S == {tape[k] : k \in 1 .. n - 1} \cup {pair}
      <4>1. p \in Seq(S) /\ Len(p) = n - 1 /\ \A k \in 1 .. n - 1 : p[k] = tape[k]
        <5>1. n - 1 \in Nat
          OBVIOUS
        <5> HIDE DEF pair
        <5> QED
          BY <5>1
      <4>2. pair \in S
        OBVIOUS
      <4> HIDE DEF p, S, pair
      <4>3. /\ Append(p, pair) \in Seq(S) /\ Len(Append(p, pair)) = n
            /\ Append(p, pair)[n] = pair
            /\ \A k \in 1 .. n - 1 : Append(p, pair)[k] = p[k]
        BY <4>1, <4>2
      <4>4. \A k \in 1 .. n : Append(p, pair)[k] = tape'[k]
        <5>1. \A k \in 1 .. n : k = n \/ k \in 1 .. n - 1
          OBVIOUS
        <5> QED
          BY <1>8, <4>1, <4>3, <5>1
      <4> DEFINE q == Append(p, pair)
      <4>5. q \in Seq(S) /\ Len(q) = n /\ \A k \in 1 .. n : q[k] = tape'[k]
        BY <4>3, <4>4
      <4> HIDE DEF q
      <4>6. q = [k \in 1 .. n |-> q[k]]
        BY <4>5
      <4>7. q = [k \in 1 .. n |-> tape'[k]]
        BY <4>5, <4>6
      <4>8. n + 1 - 1 = n /\ c.path = p
        BY <3>1 DEF p
      <4> HIDE DEF c
      <4> QED
        BY <4>7, <4>8 DEF q
    <3>3. PositionOf(stack'[n + 1]) = top.pos /\ stack'[n + 1].s = a.to
      BY <1>2, <1>4 DEF PositionOf
    <3>4. ValuesAt(n + 1)' = values' /\ WeightAt(n + 1)' = c.weight + a.w
      BY <1>5, <1>10, <3>1
    <3> HIDE DEF c
    <3>5. Config(n + 1)' =
            [s |-> stack'[n + 1].s, pos |-> PositionOf(stack'[n + 1]),
             values |-> ValuesAt(n + 1)', weight |-> WeightAt(n + 1)',
             path |-> [k \in 1 .. n + 1 - 1 |-> tape'[k]]]
      BY DEF Config
    <3>6. d = [s |-> a.to, pos |-> top.pos, values |-> values', weight |-> c.weight + a.w,
               path |-> Append(c.path, pair)]
      BY DEF Moved
    <3> HIDE DEF a, d
    <3> QED
      BY <3>2, <3>3, <3>4, <3>5, <3>6
  <2>3. d \in Successors(g, input, c)
    <3>1. c.s = top.s
      BY <1>1 DEF Config
    <3> HIDE DEF c
    <3> QED
      BY <3>1 DEF Successors, c
  <2>4. d.weight \in Nat /\ d.values \in [Features -> Int]
    <3>1. c.weight \in Nat /\ a.w \in Nat
      BY <1>7, <2>1 DEF Begun, AnArc
    <3> HIDE DEF c, a
    <3> QED
      BY <3>1 DEF Moved
  <2> HIDE DEF c, d
  <2>5. Begun(g, input, n + 1, d)
    <3>1. n + 1 <= MAX_RECURSION_DEPTH => d \in ReachedBy(g, input)[n]
      BY <2>1, <2>3, OneArcFurther DEF Begun
    <3> QED
      BY <2>4, <3>1 DEF Begun
  <2>6. \A j \in 1 .. n + 1 : j \in 1 .. n \/ j = n + 1
    OBVIOUS
  <2>7. \A j \in 1 .. n + 1 : Begun(g, input, j, Config(j)')
    BY <1>11, <2>2, <2>5, <2>6 DEF SearchInv, CallsReached
  <2>8. d \in Past(g, input, c, a)
    BY DEF c, d
  <2>9. \A j \in 2 .. n + 1 : j = n + 1 =>
          Config(j)' \in Past(g, input, Config(j - 1), ArcIn(g, stack[j - 1]))
    <3>1. n + 1 - 1 = n
      OBVIOUS
    <3> QED
      BY <1>1, <2>2, <2>8, <3>1 DEF c
  <2>10. \A j \in 1 .. n : ArcIn(g, stack'[j]) = ArcIn(g, stack[j])
    <3>1. ArcIn(g, caller) = ArcIn(g, top)
      BY <1>3 DEF ArcIn
    <3>2. \A j \in 1 .. n : j = n \/ j \in 1 .. n - 1
      OBVIOUS
    <3> QED
      BY <1>1, <1>2, <3>1, <3>2
  <2> QED
    BY <1>2, <1>11, <2>7, <2>9, <2>10 DEF CallsReached, ConfigsFollow
<1> QED
  BY <1>12, <1>13, <1>14
\* The innermost call returns to a caller, which goes on behind its arc.
LEMMA SearchReturns ==
    ASSUME LookupInv, SearchInv, ~Idle, Len(stack) # 1, Return, UNCHANGED <<g, input>>,
           IsSequence(tape'), Len(tape') >= Len(stack) - 1,
           \A k \in 1 .. Len(stack) - 1 : tape'[k] = tape[k]
    PROVE  /\ CallsPlaced' /\ TapeWritten' /\ CallsReached' /\ ConfigsFollow
           /\ found' = TRUE /\ values' \in [Features -> Int] /\ visited' \subseteq visited
<1> PICK n \in Nat \ {0} : n = Len(stack)
  BY InnermostCall
<1>1. n \in Nat /\ n > 1 /\ IsSequence(stack)
      /\ n - 1 \in 1 .. Len(stack) /\ n - 1 \in 1 .. Len(stack) - 1
  BY InnermostCall
<1> DEFINE f == stack[n - 1]
           h == Advanced(f)
<1>2. IsFrame(f) /\ f.step # "enter"
  BY <1>1 DEF LookupInv, Levels
<1>3. /\ Len(stack') = n - 1 /\ stack'[n - 1] = h
      /\ \A j \in 1 .. n - 2 : stack'[j] = stack[j]
  <2>a. Front(stack)[n - 1] = f /\ Len(stack) - 1 = n - 1
    <3>1. PICK S : stack \in Seq(S)
      BY <1>1 DEF IsSequence
    <3> QED
      BY <1>1, <3>1 DEF Front
  <2>1. stack' = PoppedTo(stack, h)
    BY <1>1, <2>a DEF Return, PoppedTo
  <2> HIDE DEF h
  <2> QED
    BY <1>1, <2>1, PopEffect
<1>4. h = [s |-> f.s, pos |-> f.pos, out |-> f.out, step |-> f.step, i |-> f.i + 1,
           trying |-> f.trying, weight |-> f.weight, values |-> f.values]
  BY <1>2 DEF IsFrame, Advanced
<1>5. Resume(f)
  BY DEF Return
<1> HIDE DEF h
<1>6. /\ WeightAt(n) = weight /\ ValuesAt(n) = values /\ ~(n < n)
      /\ WeightAt(n - 1) = f.weight /\ ValuesAt(n - 1) = f.values
  BY <1>1 DEF WeightAt, ValuesAt
<1>7. weight' = f.weight /\ values' = f.values /\ found' = TRUE /\ visited' \subseteq visited
  <2>1. values = Through(g, f)
    <3>1. ValuesAt(n - 1 + 1) = Through(g, f)
      BY <1>1 DEF LookupInv, ValuesChained
    <3>2. n - 1 + 1 = n
      OBVIOUS
    <3> QED
      BY <1>6, <3>1, <3>2
  <2>2. CASE ReadsFlag(g, f)
    BY <1>5, <2>2, ArcIsArcIn DEF Resume, ReadsFlag
  <2>3. CASE ~ReadsFlag(g, f)
    BY <1>5, <2>1, <2>3, ArcIsArcIn DEF Resume, ReadsFlag, Through
  <2> QED
    BY <2>2, <2>3
<1> HIDE DEF f
<1>8. \A j \in 1 .. n - 1 : j \in 1 .. n - 2 \/ j = n - 1
  OBVIOUS
<1>9. \A j \in 1 .. n - 1 : WeightAt(j)' = WeightAt(j) /\ ValuesAt(j)' = ValuesAt(j)
  <2> SUFFICES ASSUME NEW j \in 1 .. n - 1
               PROVE  WeightAt(j)' = WeightAt(j) /\ ValuesAt(j)' = ValuesAt(j)
    OBVIOUS
  <2>1. CASE j = n - 1
    <3>1. ~(n - 1 < n - 1) /\ Len(stack') = n - 1
      BY <1>3
    <3>2. WeightAt(n - 1)' = weight' /\ ValuesAt(n - 1)' = values'
      BY <3>1 DEF WeightAt, ValuesAt
    <3> QED
      BY <1>6, <1>7, <2>1, <3>2
  <2>2. CASE j # n - 1
    <3>1. j \in 1 .. n - 2 /\ j < n /\ j < n - 1
      BY <2>2
    <3> QED
      BY <1>3, <3>1 DEF WeightAt, ValuesAt
  <2> QED
    BY <2>1, <2>2
<1>10. \A j \in 1 .. n - 1 : Config(j)' = Config(j)
  <2> SUFFICES ASSUME NEW j \in 1 .. n - 1 PROVE Config(j)' = Config(j)
    OBVIOUS
  <2>1. j \in Nat /\ \A k \in 1 .. j - 1 : k \in 1 .. n - 1
    OBVIOUS
  <2>2. \A k \in 1 .. j - 1 : tape'[k] = tape[k]
    BY <2>1
  <2>3. stack'[j].s = stack[j].s /\ PositionOf(stack'[j]) = PositionOf(stack[j])
    BY <1>3, <1>4, <1>8, SMTT(30) DEF PositionOf, f
  <2> QED
    BY <1>9, <2>1, <2>2, <2>3, ConfigKept
<1>11. CallsPlaced'
  <2>1. Placed(g, input, f, n - 1) /\ Inside(g, f)
    BY <1>1 DEF SearchInv, CallsPlaced, f
  <2>2. Placed(g, input, h, n - 1)
    <3> DEFINE arcs == ArcsFor(g, f.s, Head(f.trying))
               zeros == ZeroArcs(g, f.s)
    <3>1. CASE f.step = "zero"
      <4>1. f.i \in 1 .. Len(zeros) + 1 /\ f.i <= Len(zeros) /\ Len(zeros) \in Nat
        <5>1. IsGraph(g) /\ f.s \in 0 .. g.n - 1
          BY <2>1, GraphsAssumption DEF SearchInv, Requested, Placed
        <5>2. Len(zeros) \in 0 .. Len(g.arcs[f.s]) /\ Len(g.arcs[f.s]) \in Nat
          BY <5>1, ArcsAreArcs, RunHolds DEF ZeroArcs
        <5> HIDE DEF zeros
        <5>3. Len(zeros) \in Nat
          BY <5>2
        <5> QED
          BY <2>1, <3>1, <5>3 DEF Placed, Inside, zeros
      <4> HIDE DEF zeros
      <4>2. f.i + 1 \in 1 .. Len(zeros) + 1
        BY <4>1
      <4> QED
        BY <1>4, <2>1, <3>1, <4>2 DEF Placed, zeros
    <3>2. CASE f.step \in {"symbol", "default"}
      <4>1. f.i \in 1 .. Len(arcs) + 1 /\ f.i <= Len(arcs) /\ f.trying # << >>
        BY <2>1, <3>2 DEF Placed, Reading, Inside
      <4>2. Len(arcs) \in Nat
        <5>1. IsGraph(g) /\ f.s \in 0 .. g.n - 1
          BY <2>1, GraphsAssumption DEF SearchInv, Requested, Placed
        <5> DEFINE X == {Head(f.trying)}
        <5>a. \E x : X = {x}
          OBVIOUS
        <5>b. arcs = Run(g, f.s, X)
          BY DEF ArcsFor
        <5> HIDE DEF X
        <5>2. Len(arcs) \in 0 .. Len(g.arcs[f.s]) /\ Len(g.arcs[f.s]) \in Nat
          BY <5>1, <5>a, <5>b, ArcsAreArcs, RunHolds
        <5> HIDE DEF arcs
        <5> QED
          BY <5>2
      <4> HIDE DEF arcs
      <4>3. f.i + 1 \in 1 .. Len(arcs) + 1
        BY <4>1, <4>2
      <4> QED
        BY <1>4, <2>1, <3>2, <4>1, <4>3 DEF Placed, Reading, arcs
    <3> QED
      BY <1>2, <3>1, <3>2 DEF IsFrame
  <2>3. \A j \in 1 .. n - 2 : j \in 1 .. Len(stack) /\ j \in 1 .. Len(stack) - 1
    OBVIOUS
  <2>4. \A j \in 1 .. n - 1 : Placed(g, input, stack'[j], j)
    BY <1>3, <1>8, <2>2, <2>3 DEF SearchInv, CallsPlaced
  <2>5. \A j \in 1 .. n - 2 : Inside(g, stack'[j])
    BY <1>3, <2>3 DEF SearchInv, CallsPlaced
  <2>6. Len(stack') - 1 = n - 2
    BY <1>3
  <2> QED
    BY <1>3, <2>4, <2>5, <2>6 DEF CallsPlaced
<1>12. TapeWritten'
  <2>1. \A j \in 1 .. n - 2 : j \in 1 .. Len(stack) - 1
    OBVIOUS
  <2>2. \A j \in 1 .. n - 2 : tape'[j][1] = ArcIn(g, stack'[j]).in
    BY <1>3, <2>1 DEF SearchInv, TapeWritten
  <2>3. Len(stack') - 1 = n - 2 /\ Len(tape') >= n - 2
    <3>1. Len(tape') \in Nat
      BY DEF IsSequence
    <3> QED
      BY <1>3, <3>1
  <2> QED
    BY <2>2, <2>3 DEF TapeWritten
<1>13. CallsReached'
  <2>1. \A j \in 1 .. n - 1 : j \in 1 .. Len(stack)
    OBVIOUS
  <2> QED
    BY <1>3, <1>10, <2>1 DEF SearchInv, CallsReached
<1>14. values' \in [Features -> Int]
  BY <1>1, <1>6, <1>7 DEF SearchInv, CallsReached, Begun, Config
<1>15. ConfigsFollow
  <2>1. \A j \in 1 .. n : j <= n - 1 => j \in 1 .. n - 1
    OBVIOUS
  <2>2. \A j \in 2 .. n - 1 : j # n + 1
    OBVIOUS
  <2>3. \A j \in 1 .. n - 1 - 1 : ArcIn(g, stack'[j]) = ArcIn(g, stack[j])
    <3>1. \A j \in 1 .. n - 1 - 1 : j \in 1 .. n - 2
      OBVIOUS
    <3> QED
      BY <1>3, <3>1
  <2>4. n - 1 <= n + 1
    OBVIOUS
  <2> QED
    BY <1>3, <1>10, <2>1, <2>2, <2>3, <2>4 DEF ConfigsFollow
<1> QED
  BY <1>7, <1>11, <1>12, <1>13, <1>14, <1>15

\* The lookup returns.
LEMMA SearchEnds ==
    ASSUME LookupInv, stack' = << >>, IsSequence(tape')
    PROVE  CallsPlaced' /\ TapeWritten' /\ CallsReached' /\ ConfigsFollow /\ UnfoundTries'
<1>1. Len(stack') = 0 /\ Len(tape') \in Nat
  BY DEF IsSequence
<1>2. ConfigsFollow
  <2>1. \A j \in 1 .. Len(stack) : ~(j <= 0)
    OBVIOUS
  <2>2. Len(stack) \in Nat
    BY DEF LookupInv, Levels, IsSequence
  <2> QED
    BY <1>1, <2>1, <2>2 DEF ConfigsFollow
<1> QED
  BY <1>1, <1>2 DEF CallsPlaced, TapeWritten, CallsReached, UnfoundTries, Idle

\* A lookup begins at the start state, without any arc.
LEMMA SearchBegins == LookupInv /\ SearchInv /\ Lookup => SearchInv' /\ ConfigsFollow
<1> SUFFICES ASSUME LookupInv, SearchInv, Lookup PROVE SearchInv' /\ ConfigsFollow
  OBVIOUS
<1>1. /\ stack = << >> /\ stack' = <<Frame(0, 0, 0)>> /\ results' = {} /\ visited' = {}
      /\ late' = FALSE /\ UNCHANGED <<g, tape, weight, values, found, depth>>
  BY DEF Lookup, Idle
<1>2. Requested'
  <2>1. PICK r \in Requests(g) : input' = r.input /\ limit' = r.limit /\ timed' = r.timed
    BY DEF Lookup
  <2>2. r \in [input : Seq(Nat \ Zero), limit : Int, timed : BOOLEAN]
    BY LookupAssumption DEF SearchInv, Requested
  <2> QED
    BY <1>1, <2>1, <2>2 DEF SearchInv, Requested
<1>3. Recording'
  BY <1>1 DEF SearchInv, Recording
<1>4. /\ Len(stack') = 1 /\ Len(stack) = 0 /\ IsGraph(g)
      /\ stack'[1] = [s |-> 0, pos |-> 0, out |-> 0, step |-> "enter", i |-> 1,
                      trying |-> << >>, weight |-> 0, values |-> Neutral]
  BY <1>1, GraphsAssumption DEF Frame, SearchInv, Requested
<1>5. \A j \in 1 .. Len(stack') : j = 1
  BY <1>4
<1>6. Len(input') \in Nat
  BY <1>2 DEF Requested
<1>7. CallsPlaced'
  <2>1. 0 \in 0 .. g.n - 1 /\ 0 \in 0 .. Len(input') /\ 0 = 1 - 1
    BY <1>4, <1>6 DEF IsGraph
  <2>2. Placed(g, input', stack'[1], 1)
    BY <1>4, <2>1 DEF Placed
  <2> QED
    BY <1>1, <1>4, <1>5, <2>2 DEF CallsPlaced
<1>8. TapeWritten'
  <2>1. IsSequence(tape) /\ Len(tape) \in Nat
    BY DEF SearchInv, TapeWritten, IsSequence
  <2> QED
    BY <1>1, <1>4, <2>1 DEF TapeWritten
<1>9. CallsReached'
  <2>1. weight = 0 /\ values = Neutral
    BY <1>4 DEF LookupInv, WeightsChained, ValuesChained, WeightAt, ValuesAt
  <2>2. WeightAt(1)' = 0 /\ ValuesAt(1)' = Neutral
    BY <1>1, <1>4, <2>1 DEF WeightAt, ValuesAt
  <2>3. Config(1)' = Start
    <3>1. [k \in 1 .. 1 - 1 |-> tape'[k]] = << >>
      OBVIOUS
    <3> QED
      BY <1>4, <2>2, <3>1 DEF Config, Start, PositionOf
  <2>4. Start.weight = 0 /\ Start.values = Neutral /\ Neutral \in [Features -> Int]
    BY DEF Start, Neutral
  <2>5. Start \in ReachedBy(g, input')[1 - 1]
    BY ReachedByIs
  <2>6. Begun(g, input', 1, Start)
    BY <2>4, <2>5 DEF Begun
  <2> QED
    BY <1>1, <1>5, <2>3, <2>6 DEF CallsReached
<1>10. UnfoundTries'
  BY <1>4 DEF UnfoundTries, top, Last
<1>11. ConfigsFollow
  BY <1>4 DEF ConfigsFollow
<1> QED
  BY <1>1, <1>2, <1>3, <1>7, <1>8, <1>9, <1>10, <1>11 DEF SearchInv
-----------------------------------------------------------------------------
(* What is tried for an input symbol *)

LEMMA MatchesAreTried ==
    ASSUME NEW x \in Nat \ Zero
    PROVE  /\ Matches(x) \in Seq(Tried(x)) /\ Tried(x) \subseteq Range(Matches(x))
           /\ Tried(x) \subseteq Nat \ Zero
<1>1. CASE x < ORIG_SYMBOL_COUNT
  <2>1. Matches(x) = <<x>> /\ Tried(x) = {x}
    BY <1>1 DEF Matches, Tried
  <2>2. <<x>> \in Seq({x}) /\ Range(<<x>>) = {x}
    BY DEF Range
  <2> QED
    BY <2>1, <2>2
<1>2. CASE ~(x < ORIG_SYMBOL_COUNT)
  <2> DEFINE p == Present(IDENTITY)
             q == Present(UNKNOWN)
             S == {IDENTITY, UNKNOWN} \ {NO_SYMBOL}
  <2>1. Matches(x) = p \o q /\ Tried(x) = S
    BY <1>2 DEF Matches, Tried
  <2>2. /\ p \in Seq(S) /\ \A m \in {IDENTITY} \ {NO_SYMBOL} : Len(p) = 1 /\ p[1] = m
        /\ q \in Seq(S) /\ \A m \in {UNKNOWN} \ {NO_SYMBOL} : Len(q) = 1 /\ q[1] = m
    <3>1. ASSUME NEW m, m = NO_SYMBOL \/ m \in S
          PROVE  /\ Present(m) \in Seq(S)
                 /\ m # NO_SYMBOL => Len(Present(m)) = 1 /\ Present(m)[1] = m
      <4>1. CASE m = NO_SYMBOL
        <5>1. Present(m) = << >>
          BY <4>1 DEF Present
        <5> QED
          BY <4>1, <5>1
      <4>2. CASE m # NO_SYMBOL
        <5>1. Present(m) = <<m>> /\ m \in S
          BY <3>1, <4>2 DEF Present
        <5> HIDE DEF S
        <5> QED
          BY <5>1
      <4> QED
        BY <4>1, <4>2
    <3>2. (IDENTITY = NO_SYMBOL \/ IDENTITY \in S) /\ (UNKNOWN = NO_SYMBOL \/ UNKNOWN \in S)
      OBVIOUS
    <3> HIDE DEF S
    <3> QED
      BY <3>1, <3>2
  <2>3. S \subseteq Nat \ Zero
    BY SymbolsAssumption DEF Zero
  <2> HIDE DEF p, q
  <2>4. /\ p \o q \in Seq(S) /\ Len(p \o q) = Len(p) + Len(q)
        /\ \A i \in 1 .. Len(p) : (p \o q)[i] = p[i]
        /\ \A i \in 1 .. Len(q) : (p \o q)[Len(p) + i] = q[i]
    BY <2>2
  <2> DEFINE r == p \o q
  <2>5. Range(r) = {r[i] : i \in 1 .. Len(r)}
    <3> HIDE DEF S
    <3>1. DOMAIN r = 1 .. Len(r)
      BY <2>4
    <3> HIDE DEF r
    <3> QED
      BY <3>1 DEF Range
  <2>6. Len(p) \in Nat /\ Len(q) \in Nat
    BY <2>2
  <2>7. \A m \in S : \E i \in 1 .. Len(r) : r[i] = m
    <3> SUFFICES ASSUME NEW m \in S PROVE \E i \in 1 .. Len(r) : r[i] = m
      OBVIOUS
    <3>1. CASE m = IDENTITY
      <4>1. Len(p) = 1 /\ p[1] = m
        BY <2>2, <3>1
      <4>2. 1 \in 1 .. Len(r) /\ 1 \in 1 .. Len(p)
        BY <2>4, <2>6, <4>1
      <4> QED
        BY <2>4, <4>1, <4>2
    <3>2. CASE m = UNKNOWN
      <4>1. Len(q) = 1 /\ q[1] = m
        BY <2>2, <3>2
      <4>2. Len(p) + 1 \in 1 .. Len(r) /\ 1 \in 1 .. Len(q)
        BY <2>4, <2>6, <4>1
      <4> QED
        BY <2>4, <4>1, <4>2
    <3> QED
      BY <3>1, <3>2
  <2>8. S \subseteq Range(r)
    <3> HIDE DEF r, S
    <3> QED
      BY <2>5, <2>7
  <2> QED
    BY <2>1, <2>3, <2>4, <2>8
<1> QED
  BY <1>1, <1>2

LEMMA StartsOnTried ==
    ASSUME NEW x, NEW a, a.in \in Nat
    PROVE  StartsOn(a, x) <=> a.in \in Tried(x)
BY SymbolsAssumption DEF StartsOn, Tried

\* What a frame inside an arc is at.
LEMMA ArcInHolds ==
    ASSUME NEW gr, NEW inp, NEW f, NEW j, IsGraph(gr), Placed(gr, inp, f, j), Inside(gr, f),
           f.step \in {"zero", "symbol", "default"}
    PROVE  /\ ArcIn(gr, f) \in Range(gr.arcs[f.s]) /\ AnArc(gr, ArcIn(gr, f))
           /\ f.step = "zero" => ArcIn(gr, f).in \in Zero
           /\ f.step # "zero" => ArcIn(gr, f).in = Head(f.trying)
<1>1. f.s \in 0 .. gr.n - 1
  BY DEF Placed
<1>2. \A a \in Range(gr.arcs[f.s]) : AnArc(gr, a)
  BY <1>1, ArcsAreArcs
<1>3. CASE f.step = "zero"
  <2> DEFINE run == Run(gr, f.s, Zero)
  <2>1. /\ Len(run) \in 0 .. Len(gr.arcs[f.s])
        /\ \A i \in 1 .. Len(run) : run[i] \in Range(gr.arcs[f.s]) /\ run[i].in \in Zero
    BY <1>1, RunHolds
  <2>2. f.i \in 1 .. Len(run) + 1 /\ f.i <= Len(run) /\ ArcIn(gr, f) = run[f.i]
    BY <1>3 DEF Placed, Inside, ZeroArcs, ArcIn
  <2>3. Len(run) \in Nat
    BY <1>1, <2>1, ArcsAreArcs
  <2> HIDE DEF run
  <2>4. f.i \in 1 .. Len(run)
    BY <2>2, <2>3
  <2> QED
    BY <1>2, <1>3, <2>1, <2>2, <2>4
<1>4. CASE f.step # "zero"
  <2> DEFINE X == {Head(f.trying)}
             run == Run(gr, f.s, X)
  <2>a. \E x : X = {x}
    OBVIOUS
  <2> HIDE DEF X
  <2>1. /\ Len(run) \in 0 .. Len(gr.arcs[f.s])
        /\ \A i \in 1 .. Len(run) : run[i] \in Range(gr.arcs[f.s]) /\ run[i].in \in X
    BY <1>1, <2>a, RunHolds
  <2>2. f.i \in 1 .. Len(run) + 1 /\ f.i <= Len(run) /\ ArcIn(gr, f) = run[f.i]
    BY <1>4 DEF Placed, Reading, Inside, ArcsFor, ArcIn, X
  <2>3. Len(run) \in Nat
    BY <1>1, <2>1, ArcsAreArcs
  <2> HIDE DEF run
  <2>4. f.i \in 1 .. Len(run)
    BY <2>2, <2>3
  <2>5. ArcIn(gr, f).in \in X
    BY <2>1, <2>2, <2>4
  <2> QED
    BY <1>2, <1>4, <2>1, <2>2, <2>4, <2>5 DEF X
<1> QED
  BY <1>3, <1>4

\* An index entry for epsilon is the only sign of epsilon and flag arcs: a state that
\* has none and is not indexed does not have default arcs beside them.
LEMMA UnindexedApart ==
    ASSUME NEW gr, IsGraph(gr), NEW s \in 0 .. gr.n - 1,
           ~(Indexed(gr, s) /\ ZeroArcs(gr, s) # << >>)
    PROVE  DefaultsApart(gr, s)
<1>1. CASE ZeroArcs(gr, s) = << >>
  BY <1>1, RunHolds DEF ZeroArcs, DefaultsApart
<1>2. CASE ~Indexed(gr, s)
  <2> SUFFICES ASSUME NEW a \in Range(gr.arcs[s]), a.in = DEFAULT,
                      NEW b \in Range(gr.arcs[s]), b.in \in Zero
               PROVE  FALSE
    BY DEF DefaultsApart
  <2> DEFINE ins == {gr.arcs[s][i].in : i \in DOMAIN gr.arcs[s]}
  <2>1. ins \subseteq Zero \/ ~(Cardinality(ins) > 1)
    BY <1>2 DEF Indexed
  <2>2. a.in \in ins /\ b.in \in ins
    BY DEF Range
  <2>3. ins \subseteq 0 .. ORIG_SYMBOL_COUNT - 1
    <3>1. \A c \in Range(gr.arcs[s]) : c.in \in 0 .. ORIG_SYMBOL_COUNT - 1
      BY ArcsAreArcs DEF AnArc
    <3>2. \A i \in DOMAIN gr.arcs[s] : gr.arcs[s][i] \in Range(gr.arcs[s])
      BY DEF Range
    <3> QED
      BY <3>1, <3>2
  <2> HIDE DEF ins
  <2>4. a.in \notin Zero
    <3>a. a.in \in 0 .. ORIG_SYMBOL_COUNT - 1
      BY <2>2, <2>3
    <3>1. DEFAULT \in Nat
      BY <3>a
    <3> QED
      BY <3>1, SymbolsAssumption DEF Zero
  <2>5. IsFiniteSet(ins)
    <3>1. IsFiniteSet(0 .. ORIG_SYMBOL_COUNT - 1)
      BY SymbolsAssumption, FS_Interval
    <3> QED
      BY <2>3, <3>1, FS_Subset
  <2>6. Cardinality({a.in, b.in}) = 2 /\ IsFiniteSet({a.in, b.in})
    <3>1. a.in # b.in
      BY <2>4
    <3> QED
      BY <3>1, TwoElements
  <2>7. Cardinality({a.in, b.in}) <= Cardinality(ins) /\ Cardinality(ins) \in Nat
    <3>1. {a.in, b.in} \subseteq ins
      BY <2>2
    <3> QED
      BY <2>5, <3>1, FS_Subset, FS_CardinalityType
  <2> QED
    BY <2>1, <2>2, <2>4, <2>6, <2>7
<1> QED
  BY <1>1, <1>2
-----------------------------------------------------------------------------
(* The actions *)

LEMMA RequestKept ==
    ASSUME SearchInv, UNCHANGED <<g, input, limit, timed>>, late' \in BOOLEAN,
           found' \in BOOLEAN
    PROVE  Requested' /\ AllAnalyses' = AllAnalyses
<1>1. AllAnalyses' = Analyses(g', input')
  BY DEF AllAnalyses
<1> QED
  BY <1>1 DEF SearchInv, Requested, AllAnalyses

\* Where the innermost call is, and where it began.
LEMMA InnermostPlaced ==
    ASSUME LookupInv, SearchInv, ~Idle
    PROVE  /\ IsGraph(g) /\ Placed(g, input, top, Len(stack)) /\ top.s \in 0 .. g.n - 1
           /\ Config(Len(stack)) =
                [s |-> top.s, pos |-> PositionOf(top), values |-> values,
                 weight |-> weight, path |-> [k \in 1 .. Len(stack) - 1 |-> tape[k]]]
           /\ Begun(g, input, Len(stack), Config(Len(stack)))
           /\ weight \in Nat /\ values \in [Features -> Int]
           /\ input \in Seq(Nat \ Zero) /\ Len(input) \in Nat
<1> PICK n \in Nat \ {0} : n = Len(stack)
  BY InnermostCall
<1>1. top = stack[n] /\ n \in 1 .. n /\ ~(n < n)
  BY InnermostCall
<1>2. WeightAt(n) = weight /\ ValuesAt(n) = values
  BY <1>1 DEF WeightAt, ValuesAt
<1>3. Config(n) = [s |-> top.s, pos |-> PositionOf(top), values |-> values,
                   weight |-> weight, path |-> [k \in 1 .. n - 1 |-> tape[k]]]
  BY <1>1, <1>2 DEF Config
<1>4. Begun(g, input, n, Config(n)) /\ Placed(g, input, top, n)
  BY <1>1 DEF SearchInv, CallsReached, CallsPlaced
<1>5. IsGraph(g) /\ input \in Seq(Nat \ Zero) /\ Len(input) \in Nat
  BY GraphsAssumption DEF SearchInv, Requested
<1>6. top.s \in 0 .. g.n - 1
  BY <1>4 DEF Placed
<1>7. weight \in Nat /\ values \in [Features -> Int]
  BY <1>3, <1>4 DEF Begun
<1> QED
  BY <1>3, <1>4, <1>5, <1>6, <1>7

\* No call gives back more depth than was taken.
LEMMA DepthStays == LookupInv' => depth' <= MAX_RECURSION_DEPTH
<1>1. LookupInv' => (IsSequence(stack) /\ depth = MAX_RECURSION_DEPTH - Len(stack)
         + (IF stack # << >> /\ stack[Len(stack)].step = "enter" THEN 1 ELSE 0))'
  BY DEF LookupInv, Levels
<1>2. IsSequence(stack') => Len(stack') \in Nat /\ (stack' # << >> => Len(stack') # 0)
  BY DEF IsSequence
<1> QED
  BY <1>1, <1>2, LookupAssumption

\* A call that has written its terminator has kept what is before it.
LEMMA Terminated ==
    ASSUME LookupInv, SearchInv, ~Idle, NEW pair, tape' = Write(top.out, pair)
    PROVE  /\ IsSequence(tape') /\ Len(tape') >= Len(stack) /\ tape'[Len(stack)] = pair
           /\ \A k \in 1 .. Len(stack) - 1 : tape'[k] = tape[k]
<1> PICK n \in Nat \ {0} : n = Len(stack)
  BY InnermostCall
<1>1. top.out = n - 1 /\ Len(tape) >= n - 1 /\ IsSequence(tape)
  BY InnermostPlaced DEF SearchInv, TapeWritten, Placed
<1>2. Len(tape) \in Nat
  BY <1>1 DEF IsSequence
<1>3. top.out \in 0 .. Len(tape) /\ top.out + 1 = n
  BY <1>1, <1>2
<1>4. \A k \in 1 .. n - 1 : k \in 1 .. Len(tape) /\ k # n
  BY <1>1, <1>2
<1> QED
  BY <1>1, <1>3, <1>4, WriteEffect

LEMMA SearchRefuses == LookupInv /\ SearchInv /\ LookupInv' /\ Refuse => SearchInv' /\ ConfigsFollow
<1> SUFFICES ASSUME LookupInv, SearchInv, LookupInv', Refuse PROVE SearchInv' /\ ConfigsFollow
  OBVIOUS
<1>1. ~Idle /\ UNCHANGED <<g, input, limit, timed, tape, depth, results>>
  BY DEF Refuse, request
<1>2. late' \in BOOLEAN
  BY DEF Refuse, ReadClock, SearchInv, Requested
<1>3. IsSequence(tape') /\ Len(tape') >= Len(stack) - 1
  BY <1>1 DEF SearchInv, TapeWritten
<1>4. CASE Len(stack) = 1
  <2>1. stack' = << >> /\ found' = FALSE /\ UNCHANGED visited
    BY <1>4 DEF Refuse
  <2> QED
    BY <1>1, <1>2, <1>3, <2>1, SearchEnds, RequestKept DEF SearchInv, Recording
<1>5. CASE Len(stack) # 1
  <2>1. Return
    BY <1>5 DEF Refuse
  <2>2. CallsPlaced' /\ TapeWritten' /\ CallsReached' /\ ConfigsFollow
        /\ found' = TRUE /\ visited' \subseteq visited
    BY <1>1, <1>3, <1>5, <2>1, SearchReturns
  <2>3. UnfoundTries'
    BY <2>2 DEF UnfoundTries
  <2>4. Requested' /\ AllAnalyses' = AllAnalyses
    BY <1>1, <1>2, <2>2, RequestKept
  <2>5. Recording'
    BY <1>1, <2>2 DEF SearchInv, Recording
  <2> QED
    BY <1>1, <2>2, <2>3, <2>4, <2>5 DEF SearchInv
<1> QED
  BY <1>4, <1>5

LEMMA SearchLeaves == LookupInv /\ SearchInv /\ LookupInv' /\ Leave => SearchInv' /\ ConfigsFollow
<1> SUFFICES ASSUME LookupInv, SearchInv, LookupInv', Leave PROVE SearchInv' /\ ConfigsFollow
  OBVIOUS
<1>1. /\ ~Idle /\ UNCHANGED <<g, input, limit, timed, late, results>> /\ depth' = depth + 1
      /\ tape' = Write(top.out, Terminator) /\ Return
  BY DEF Leave, request
<1>2. late' \in BOOLEAN /\ depth' \in 0 .. MAX_RECURSION_DEPTH
  <2>1. depth' <= MAX_RECURSION_DEPTH
    BY DepthStays
  <2> QED
    BY <1>1, <2>1, LookupAssumption DEF SearchInv, Requested, Recording
<1>3. /\ IsSequence(tape') /\ Len(tape') >= Len(stack) - 1
      /\ \A k \in 1 .. Len(stack) - 1 : tape'[k] = tape[k]
  <2>1. Len(tape') >= Len(stack) /\ IsSequence(tape') /\ Len(stack) \in Nat
    BY <1>1, Terminated, InnermostCall
  <2>2. Len(tape') \in Nat
    BY <2>1 DEF IsSequence
  <2> QED
    BY <1>1, <2>1, <2>2, Terminated
<1>4. CASE Len(stack) = 1
  <2>1. stack' = << >> /\ UNCHANGED <<found, visited>>
    BY <1>1, <1>4 DEF Return
  <2>2. found' \in BOOLEAN
    BY <2>1 DEF SearchInv, Requested
  <2> QED
    BY <1>1, <1>2, <1>3, <2>1, <2>2, SearchEnds, RequestKept DEF SearchInv, Recording
<1>5. CASE Len(stack) # 1
  <2>2. CallsPlaced' /\ TapeWritten' /\ CallsReached' /\ ConfigsFollow
        /\ found' = TRUE /\ visited' \subseteq visited
    BY <1>1, <1>3, <1>5, SearchReturns
  <2>3. UnfoundTries'
    BY <2>2 DEF UnfoundTries
  <2>4. Requested' /\ AllAnalyses' = AllAnalyses
    BY <1>1, <1>2, <2>2, RequestKept
  <2>5. Recording'
    BY <1>1, <1>2, <2>2 DEF SearchInv, Recording
  <2> QED
    BY <1>1, <2>2, <2>3, <2>4, <2>5 DEF SearchInv
<1> QED
  BY <1>4, <1>5
\* The analysis a call notes is that of the configuration it began with.
LEMMA AnalysisOfConfig ==
    ASSUME LookupInv, SearchInv, ~Idle, tape' = Write(top.out, Terminator)
    PROVE  Analysis(tape', weight + g.final[top.s]) =
             [weight |-> Config(Len(stack)).weight + g.final[Config(Len(stack)).s],
              path |-> Config(Len(stack)).path]
<1> PICK n \in Nat \ {0} : n = Len(stack)
  BY InnermostCall
<1> DEFINE c == Config(n)
           W == weight + g.final[top.s]
           ends == {k \in 1 .. Len(tape') : tape'[k] = Terminator}
<1>1. /\ IsGraph(g) /\ Begun(g, input, n, c) /\ Placed(g, input, top, n)
      /\ c.s = top.s /\ c.pos = PositionOf(top) /\ c.weight = weight
      /\ c.path = [k \in 1 .. n - 1 |-> tape[k]]
  <2>1. /\ IsGraph(g) /\ Begun(g, input, n, c) /\ Placed(g, input, top, n)
        /\ c = [s |-> top.s, pos |-> PositionOf(top), values |-> values,
                weight |-> weight, path |-> [k \in 1 .. n - 1 |-> tape[k]]]
    BY InnermostPlaced
  <2> HIDE DEF c
  <2> QED
    BY <2>1
<1>2. /\ IsSequence(tape') /\ Len(tape') >= n /\ tape'[n] = Terminator
      /\ \A k \in 1 .. n - 1 : tape'[k] = tape[k]
  BY Terminated
<1>3. Len(tape') \in Nat /\ n \in 1 .. Len(tape')
  BY <1>2 DEF IsSequence
<1>4. \A k \in 1 .. n - 1 : tape'[k] # Terminator
  <2> SUFFICES ASSUME NEW k \in 1 .. n - 1, tape[k] = Terminator PROVE FALSE
    BY <1>2
  <2>1. tape[k][1] = NO_SYMBOL
    BY DEF Terminator
  <2>2. tape[k][1] = ArcIn(g, stack[k]).in
    BY DEF SearchInv, TapeWritten
  <2>3. k \in 1 .. Len(stack) /\ k \in 1 .. Len(stack) - 1
    OBVIOUS
  <2>4. Placed(g, input, stack[k], k) /\ Inside(g, stack[k])
        /\ stack[k].step \in {"zero", "symbol", "default"}
    BY <2>3 DEF SearchInv, CallsPlaced, LookupInv, Levels, IsFrame
  <2>5. ArcIn(g, stack[k]).in \in 0 .. ORIG_SYMBOL_COUNT - 1
    BY <1>1, <2>4, ArcInHolds DEF AnArc
  <2> QED
    BY <2>1, <2>2, <2>5, SymbolsAssumption
<1>5. SelectInSeq(tape', LAMBDA pair : pair = Terminator) = n
  <2>1. ends \in SUBSET (1 .. Len(tape')) /\ n \in ends
    BY <1>2, <1>3
  <2>2. \A k \in ends : ~(k < n)
    BY <1>4
  <2>3. SelectInSeq(tape', LAMBDA pair : pair = Terminator) =
          IF ends # {} THEN Min(ends) ELSE 0
    BY DEF SelectInSeq
  <2> HIDE DEF ends
  <2>4. Min(ends) \in ends /\ Min(ends) <= n
    BY <1>3, <2>1, Extremes
  <2> DEFINE m == Min(ends)
  <2>5. m \in ends /\ m <= n /\ (IF ends # {} THEN Min(ends) ELSE 0) = m
    BY <2>1, <2>4
  <2> HIDE DEF m
  <2>6. m \in Nat /\ ~(m < n)
    BY <2>1, <2>2, <2>5
  <2>7. m = n
    BY <2>5, <2>6
  <2> QED
    BY <2>3, <2>5, <2>7
<1>6. SubSeq(tape', 1, n - 1) = c.path
  <2> PICK S : tape' \in Seq(S)
    BY <1>2 DEF IsSequence
  <2> DEFINE q == SubSeq(tape', 1, n - 1)
  <2>1. \A k \in 1 .. n - 1 : tape'[k] \in S /\ 1 + k - 1 = k
    BY <1>3
  <2>2. /\ q \in Seq(S)
        /\ Len(q) = IF 1 <= n - 1 THEN n - 1 - 1 + 1 ELSE 0
        /\ \A k \in 1 .. n - 1 - 1 + 1 : q[k] = tape'[1 + k - 1]
    BY <1>3, <2>1, SubSeqProperties
  <2>3. (IF 1 <= n - 1 THEN n - 1 - 1 + 1 ELSE 0) = n - 1 /\ n - 1 - 1 + 1 = n - 1
    OBVIOUS
  <2> HIDE DEF q
  <2>4. q \in Seq(S) /\ Len(q) = n - 1 /\ \A k \in 1 .. n - 1 : q[k] = tape'[k]
    BY <2>1, <2>2, <2>3
  <2>5. q = [k \in 1 .. n - 1 |-> q[k]]
    BY <2>4
  <2>6. q = [k \in 1 .. n - 1 |-> tape[k]]
    BY <1>2, <2>4, <2>5
  <2> HIDE DEF c
  <2> QED
    BY <1>1, <2>6 DEF q
<1>7. Analysis(tape', W) = [weight |-> W, path |-> c.path]
  <2>1. Analysis(tape', W) =
          [weight |-> W,
           path |-> SubSeq(tape', 1, SelectInSeq(tape', LAMBDA pair : pair = Terminator) - 1)]
    BY DEF Analysis
  <2> HIDE DEF c, W
  <2> QED
    BY <1>5, <1>6, <2>1
<1> HIDE DEF c
<1>8. W = c.weight + g.final[c.s]
  BY <1>1
<1> HIDE DEF W
<1> QED
  BY <1>7, <1>8 DEF W, c

LEMMA SearchNotes ==
    ASSUME LookupInv, SearchInv, ~Idle, depth # 0, top.step = "enter", AtEnd(top),
           top.s \in DOMAIN g.final, tape' = Write(top.out, Terminator)
    PROVE  Analysis(tape', weight + g.final[top.s]) \in AllAnalyses
<1> PICK n \in Nat \ {0} : n = Len(stack)
  BY InnermostCall
<1> DEFINE c == Config(n)
           W == weight + g.final[top.s]
<1>1. /\ IsGraph(g) /\ Begun(g, input, n, c) /\ Placed(g, input, top, n)
      /\ c.s = top.s /\ c.pos = PositionOf(top) /\ c.weight = weight
  <2>1. /\ IsGraph(g) /\ Begun(g, input, n, c) /\ Placed(g, input, top, n)
        /\ c = [s |-> top.s, pos |-> PositionOf(top), values |-> values,
                weight |-> weight, path |-> [k \in 1 .. n - 1 |-> tape[k]]]
    BY InnermostPlaced
  <2> HIDE DEF c
  <2> QED
    BY <2>1
<1>7. Analysis(tape', W) = [weight |-> c.weight + g.final[c.s], path |-> c.path]
  BY AnalysisOfConfig
<1>8. n - 1 \in 0 .. MAX_RECURSION_DEPTH - 1 /\ n <= MAX_RECURSION_DEPTH
  <2>1. stack # << >> /\ stack[n].step = "enter"
    BY InnermostCall
  <2>2. depth = MAX_RECURSION_DEPTH - n + 1
    BY <2>1, LookupAssumption DEF LookupInv, Levels
  <2>3. depth \in Nat /\ depth # 0
    BY LookupAssumption DEF SearchInv, Recording
  <2> QED
    BY <2>2, <2>3, LookupAssumption
<1>9. c.pos = Len(input) /\ W = c.weight + g.final[c.s] /\ c.s \in DOMAIN g.final
  BY <1>1 DEF AtEnd, PositionOf
<1> HIDE DEF c, W
<1> DEFINE R == ReachedBy(g, input)
<1>10. c \in R[n - 1] /\ DOMAIN R = 0 .. MAX_RECURSION_DEPTH - 1
  BY <1>1, <1>8, ReachedByIs DEF Begun
<1> HIDE DEF R
<1>11. c \in UNION {R[k] : k \in DOMAIN R}
  BY <1>8, <1>10
<1>12. AllAnalyses = {[weight |-> d.weight + g.final[d.s], path |-> d.path] :
                        d \in {e \in UNION {R[k] : k \in DOMAIN R} :
                                 e.pos = Len(input) /\ e.s \in DOMAIN g.final}}
  BY DEF AllAnalyses, Analyses, R
<1>13. [weight |-> c.weight + g.final[c.s], path |-> c.path] \in AllAnalyses
  BY <1>9, <1>11, <1>12
<1> QED
  BY <1>7, <1>9, <1>13 DEF W

LEMMA SearchEnters == LookupInv /\ SearchInv /\ Enter => SearchInv' /\ ConfigsFollow
<1> SUFFICES ASSUME LookupInv, SearchInv, Enter PROVE SearchInv' /\ ConfigsFollow
  OBVIOUS
<1>1. /\ ~Idle /\ top.step = "enter" /\ depth # 0 /\ depth' = depth - 1 /\ found' = FALSE
      /\ UNCHANGED <<g, input, limit, timed, weight, values, visited>>
      /\ tape' = IF AtEnd(top) THEN Write(top.out, Terminator) ELSE tape
  BY DEF Enter, request, Deeper
<1>2. late' \in BOOLEAN
  BY DEF Enter, ReadClock, SearchInv, Requested
<1>3. Requested' /\ AllAnalyses' = AllAnalyses
  BY <1>1, <1>2, RequestKept
<1>4. Recording'
  BY <1>1, LookupAssumption DEF SearchInv, Recording
<1>5. /\ IsSequence(tape') /\ Len(tape') >= Len(stack) - 1
      /\ \A k \in 1 .. Len(stack) - 1 : tape'[k] = tape[k]
  <2>1. CASE AtEnd(top)
    <3>1. Len(tape') >= Len(stack) /\ IsSequence(tape') /\ Len(stack) \in Nat
      BY <1>1, <2>1, Terminated, InnermostCall
    <3>2. Len(tape') \in Nat
      BY <3>1 DEF IsSequence
    <3> QED
      BY <1>1, <2>1, <3>1, <3>2, Terminated
  <2>2. CASE ~AtEnd(top)
    BY <1>1, <2>2 DEF SearchInv, TapeWritten
  <2> QED
    BY <2>1, <2>2
<1> DEFINE h == [top EXCEPT !.step = "zero"]
<1>6. IsFrame(top) /\ top = stack[Len(stack)] /\ IsSequence(stack) /\ stack # << >>
      /\ Placed(g, input, top, Len(stack)) /\ IsGraph(g) /\ top.s \in 0 .. g.n - 1
  BY <1>1, InnermostCall, InnermostPlaced
<1>7. h = [s |-> top.s, pos |-> top.pos, out |-> top.out, step |-> "zero", i |-> top.i,
           trying |-> top.trying, weight |-> top.weight, values |-> top.values]
  BY <1>6 DEF IsFrame
<1>8. stack' = [stack EXCEPT ![Len(stack)] = h]
  BY <1>6 DEF Enter
<1> HIDE DEF h
<1>9. Placed(g, input, h, Len(stack))
  <2>1. Len(ZeroArcs(g, top.s)) \in Nat
    <3>1. Len(Run(g, top.s, Zero)) \in 0 .. Len(g.arcs[top.s]) /\ Len(g.arcs[top.s]) \in Nat
      BY <1>6, RunHolds, ArcsAreArcs
    <3> QED
      BY <3>1 DEF ZeroArcs
  <2>2. 1 \in 1 .. Len(ZeroArcs(g, top.s)) + 1
    BY <2>1
  <2> QED
    BY <1>1, <1>6, <1>7, <2>2 DEF Placed
<1>10. h.s = top.s /\ PositionOf(h) = PositionOf(top) /\ h.step = "zero"
  BY <1>1, <1>7 DEF PositionOf
<1>11. CallsPlaced' /\ TapeWritten' /\ CallsReached' /\ ConfigsFollow
  BY <1>1, <1>5, <1>8, <1>9, <1>10, SearchTopMoves
<1>12. UnfoundTries'
  <2>1. stack' = Retopped(stack, h)
    BY <1>8 DEF Retopped
  <2>2. stack'[Len(stack')] = h
    BY <1>6, <2>1, TopEffect
  <2> QED
    BY <1>10, <2>2 DEF UnfoundTries, top, Last
<1>13. results' \subseteq AllAnalyses
  <2>1. CASE AtEnd(top) /\ top.s \in DOMAIN g.final
    <3>1. results' = results \cup {Analysis(tape', weight + g.final[top.s])}
      BY <2>1 DEF Enter
    <3>2. Analysis(tape', weight + g.final[top.s]) \in AllAnalyses
      BY <1>1, <2>1, SearchNotes
    <3> QED
      BY <3>1, <3>2 DEF SearchInv
  <2>2. CASE ~(AtEnd(top) /\ top.s \in DOMAIN g.final)
    BY <2>2 DEF Enter, SearchInv
  <2> QED
    BY <2>1, <2>2
<1> QED
  BY <1>3, <1>4, <1>11, <1>12, <1>13 DEF SearchInv

LEMMA SearchSkips == LookupInv /\ SearchInv /\ SkipFlag => SearchInv' /\ ConfigsFollow
<1> SUFFICES ASSUME LookupInv, SearchInv, SkipFlag PROVE SearchInv' /\ ConfigsFollow
  OBVIOUS
<1>1. /\ ~Idle /\ top.step = "zero" /\ top.i <= Len(Arcs(top))
      /\ UNCHANGED <<g, input, limit, timed, late, tape, weight, values, visited, found,
                     depth, results>>
  BY DEF SkipFlag, request, object
<1>2. late' \in BOOLEAN /\ found' \in BOOLEAN
  BY <1>1 DEF SearchInv, Requested
<1>3. Requested' /\ AllAnalyses' = AllAnalyses
  BY <1>1, <1>2, RequestKept
<1>4. Recording'
  BY <1>1 DEF SearchInv, Recording
<1> DEFINE h == Advanced(top)
<1>6. IsFrame(top) /\ top = stack[Len(stack)] /\ IsSequence(stack) /\ stack # << >>
      /\ Placed(g, input, top, Len(stack)) /\ IsGraph(g) /\ top.s \in 0 .. g.n - 1
  BY <1>1, InnermostCall, InnermostPlaced
<1>7. h = [s |-> top.s, pos |-> top.pos, out |-> top.out, step |-> top.step,
           i |-> top.i + 1, trying |-> top.trying, weight |-> top.weight,
           values |-> top.values]
  BY <1>6 DEF IsFrame, Advanced
<1>8. stack' = [stack EXCEPT ![Len(stack)] = h]
  BY <1>6 DEF SkipFlag
<1> HIDE DEF h
<1>9. Placed(g, input, h, Len(stack))
  <2> DEFINE zeros == ZeroArcs(g, top.s)
  <2>1. Len(zeros) \in Nat
    <3>1. Len(Run(g, top.s, Zero)) \in 0 .. Len(g.arcs[top.s]) /\ Len(g.arcs[top.s]) \in Nat
      BY <1>6, RunHolds, ArcsAreArcs
    <3> QED
      BY <3>1 DEF ZeroArcs
  <2>2. top.i \in 1 .. Len(zeros) + 1 /\ top.i <= Len(zeros)
    BY <1>1, <1>6 DEF Placed, Arcs
  <2> HIDE DEF zeros
  <2>3. top.i + 1 \in 1 .. Len(zeros) + 1
    BY <2>1, <2>2
  <2> QED
    BY <1>1, <1>6, <1>7, <2>3 DEF Placed, zeros
<1>10. h.s = top.s /\ PositionOf(h) = PositionOf(top) /\ h.step = "zero"
  BY <1>1, <1>7 DEF PositionOf
<1>11. CallsPlaced' /\ TapeWritten' /\ CallsReached' /\ ConfigsFollow
  <2>1. IsSequence(tape') /\ Len(tape') >= Len(stack) - 1
    BY <1>1 DEF SearchInv, TapeWritten
  <2> QED
    BY <1>1, <1>8, <1>9, <1>10, <2>1, SearchTopMoves
<1>12. UnfoundTries'
  <2>1. stack' = Retopped(stack, h)
    BY <1>8 DEF Retopped
  <2>2. stack'[Len(stack')] = h
    BY <1>6, <2>1, TopEffect
  <2> QED
    BY <1>10, <2>2 DEF UnfoundTries, top, Last
<1> QED
  BY <1>1, <1>3, <1>4, <1>11, <1>12 DEF SearchInv

\* A callee has not read anything yet.
LEMMA CalleeUnread ==
    ASSUME LookupInv, ~Idle, NEW pair, Call(pair)
    PROVE  UnfoundTries'
<1> DEFINE caller == [top EXCEPT !.weight = weight, !.values = values]
           callee == Frame(Arc(top).to, top.pos, top.out + 1)
<1>1. IsSequence(stack) /\ stack # << >>
  BY InnermostCall
<1>2. stack' = Pushed(stack, caller, callee)
  BY DEF Call, Pushed
<1>3. callee.step = "enter"
  BY DEF Frame
<1> HIDE DEF caller, callee
<1>4. stack'[Len(stack')] = callee
  BY <1>1, <1>2, PushEffect
<1> QED
  BY <1>3, <1>4 DEF UnfoundTries, top, Last

LEMMA SearchTakesEpsilon == LookupInv /\ SearchInv /\ TakeEpsilon => SearchInv' /\ ConfigsFollow
<1> SUFFICES ASSUME LookupInv, SearchInv, TakeEpsilon PROVE SearchInv' /\ ConfigsFollow
  OBVIOUS
<1>1. /\ ~Idle /\ top.step = "zero" /\ top.i <= Len(Arcs(top)) /\ Arc(top).in = 0
      /\ Call(<<0, Arc(top).out>>)
      /\ UNCHANGED <<g, input, limit, timed, late, values, visited, found, depth, results>>
  BY DEF TakeEpsilon, request
<1>2. late' \in BOOLEAN /\ found' \in BOOLEAN
  BY <1>1 DEF SearchInv, Requested
<1>3. Requested' /\ AllAnalyses' = AllAnalyses
  BY <1>1, <1>2, RequestKept
<1>4. Recording'
  BY <1>1 DEF SearchInv, Recording
<1> DEFINE a == ArcIn(g, top)
           c == Config(Len(stack))
<1>5. Placed(g, input, top, Len(stack)) /\ IsGraph(g) /\ Inside(g, top)
      /\ values \in [Features -> Int]
      /\ c = [s |-> top.s, pos |-> PositionOf(top), values |-> values,
              weight |-> weight, path |-> [k \in 1 .. Len(stack) - 1 |-> tape[k]]]
  BY <1>1, InnermostPlaced DEF Inside, Arcs
<1>6. a \in Range(g.arcs[top.s]) /\ a.in = 0 /\ Arc(top) = a
  BY <1>1, <1>5, ArcInHolds, ArcIsArcIn
<1> HIDE DEF a, c
<1>7. Moved(c, a, top.pos, values', a.out) \in Past(g, input, c, a)
  <2>1. c.pos = top.pos /\ c.values = values
    BY <1>1, <1>5 DEF PositionOf
  <2> QED
    BY <1>1, <1>6, <2>1 DEF Past
<1>8. Call(<<a.in, a.out>>) /\ top.step # "enter" /\ values' \in [Features -> Int]
  BY <1>1, <1>5, <1>6
<1>9. CallsPlaced' /\ TapeWritten' /\ CallsReached' /\ ConfigsFollow
  BY <1>1, <1>5, <1>6, <1>7, <1>8, SearchCalls DEF a, c
<1>10. UnfoundTries'
  BY <1>1, CalleeUnread
<1> QED
  BY <1>1, <1>3, <1>4, <1>9, <1>10 DEF SearchInv
LEMMA SearchTakesFlag == LookupInv /\ SearchInv /\ TakeFlag => SearchInv' /\ ConfigsFollow
<1> SUFFICES ASSUME LookupInv, SearchInv, TakeFlag PROVE SearchInv' /\ ConfigsFollow
  OBVIOUS
<1>1. /\ ~Idle /\ top.step = "zero" /\ top.i <= Len(Arcs(top)) /\ Arc(top).in \in Flags
      /\ Allows(FlagOp[Arc(top).in], values)
      /\ values' = Applied(FlagOp[Arc(top).in], values)
      /\ visited' = visited \cup {<<Arc(top).to, values>>}
      /\ Call(<<Arc(top).in, Arc(top).out>>)
      /\ UNCHANGED <<g, input, limit, timed, late, found, depth, results>>
  BY DEF TakeFlag, request, Recorded
<1>2. late' \in BOOLEAN /\ found' \in BOOLEAN
  BY <1>1 DEF SearchInv, Requested
<1>3. Requested' /\ AllAnalyses' = AllAnalyses
  BY <1>1, <1>2, RequestKept
<1> DEFINE a == ArcIn(g, top)
           c == Config(Len(stack))
<1>5. Placed(g, input, top, Len(stack)) /\ IsGraph(g) /\ Inside(g, top)
      /\ values \in [Features -> Int]
      /\ c = [s |-> top.s, pos |-> PositionOf(top), values |-> values,
              weight |-> weight, path |-> [k \in 1 .. Len(stack) - 1 |-> tape[k]]]
  BY <1>1, InnermostPlaced DEF Inside, Arcs
<1>6. a \in Range(g.arcs[top.s]) /\ AnArc(g, a) /\ a.in \in Flags /\ Arc(top) = a
  BY <1>1, <1>5, ArcInHolds, ArcIsArcIn
<1> HIDE DEF a, c
<1>a. a.in # 0 /\ FlagOp[a.in] \in Operations
  <2>1. FlagOp \in [Flags -> Operations] /\ 0 \notin Flags
    BY SymbolsAssumption
  <2> QED
    BY <1>6, <2>1
<1>4. Recording'
  <2>1. a.to \in 0 .. g.n - 1
    BY <1>6 DEF AnArc
  <2> QED
    BY <1>1, <1>5, <1>6, <2>1 DEF SearchInv, Recording
<1>7. Moved(c, a, top.pos, values', a.out) \in Past(g, input, c, a)
  <2>1. c.pos = top.pos /\ c.values = values
    BY <1>1, <1>5 DEF PositionOf
  <2> QED
    BY <1>1, <1>6, <1>a, <2>1 DEF Past
<1>8. Call(<<a.in, a.out>>) /\ top.step # "enter" /\ values' \in [Features -> Int]
  BY <1>1, <1>5, <1>6, <1>a, AppliedTyped
<1>9. CallsPlaced' /\ TapeWritten' /\ CallsReached' /\ ConfigsFollow
  BY <1>1, <1>5, <1>6, <1>7, <1>8, SearchCalls DEF a, c
<1>10. UnfoundTries'
  BY <1>1, CalleeUnread
<1> QED
  BY <1>1, <1>3, <1>4, <1>9, <1>10 DEF SearchInv

LEMMA SearchTakesSymbol == LookupInv /\ SearchInv /\ TakeSymbol => SearchInv' /\ ConfigsFollow
<1> SUFFICES ASSUME LookupInv, SearchInv, TakeSymbol PROVE SearchInv' /\ ConfigsFollow
  OBVIOUS
<1> DEFINE out == IF Arc(top).out \in Meta THEN input[top.pos] ELSE Arc(top).out
<1>1. /\ ~Idle /\ top.step \in {"symbol", "default"} /\ top.trying # << >>
      /\ top.i <= Len(Arcs(top)) /\ Call(<<Arc(top).in, out>>) /\ visited' = {}
      /\ UNCHANGED <<g, input, limit, timed, late, values, found, depth, results>>
  BY DEF TakeSymbol, request
<1>2. late' \in BOOLEAN /\ found' \in BOOLEAN
  BY <1>1 DEF SearchInv, Requested
<1>3. Requested' /\ AllAnalyses' = AllAnalyses
  BY <1>1, <1>2, RequestKept
<1>4. Recording'
  BY <1>1 DEF SearchInv, Recording
<1> DEFINE a == ArcIn(g, top)
           c == Config(Len(stack))
           x == input[top.pos]
<1>5. Placed(g, input, top, Len(stack)) /\ IsGraph(g) /\ Inside(g, top)
      /\ values \in [Features -> Int] /\ top.s \in 0 .. g.n - 1
      /\ input \in Seq(Nat \ Zero) /\ Len(input) \in Nat
      /\ c = [s |-> top.s, pos |-> PositionOf(top), values |-> values,
              weight |-> weight, path |-> [k \in 1 .. Len(stack) - 1 |-> tape[k]]]
  BY <1>1, InnermostPlaced DEF Inside, Arcs
<1>6. /\ a \in Range(g.arcs[top.s]) /\ AnArc(g, a) /\ a.in = Head(top.trying)
      /\ Arc(top) = a
  BY <1>1, <1>5, ArcInHolds, ArcIsArcIn
<1>7. Reading(g, input, top) /\ top.pos \in 1 .. Len(input) /\ x \in Nat \ Zero
  <2>1. Reading(g, input, top) /\ top.pos \in 0 .. Len(input)
    BY <1>1, <1>5 DEF Placed
  <2>2. top.pos \in 1 .. Len(input)
    BY <1>5, <2>1 DEF Reading
  <2> QED
    BY <1>5, <2>1, <2>2
<1> HIDE DEF a, c, x
<1>8. a.in \in Nat
  BY <1>6, SymbolsAssumption DEF AnArc
<1>9. a.in \notin Zero /\ Consumes(g, top.s, a, x)
  <2>1. CASE top.step = "symbol"
    <3>1. top.trying \in Seq(Tried(x))
      BY <1>7, <2>1 DEF Reading, x
    <3>2. a.in \in Tried(x)
      BY <1>1, <1>6, <3>1
    <3> QED
      BY <1>7, <1>8, <3>2, MatchesAreTried, StartsOnTried DEF Consumes
  <2>2. CASE top.step = "default"
    <3>1. /\ DEFAULT # NO_SYMBOL /\ a.in = DEFAULT
          /\ NothingStarts(g, top.s, x) /\ DefaultsApart(g, top.s)
      BY <1>6, <1>7, <2>2 DEF Reading, x
    <3>2. a.in \notin Zero
      BY <3>1, SymbolsAssumption DEF Zero
    <3>3. ASSUME NEW b \in Range(g.arcs[top.s]) PROVE b.in \notin Zero /\ ~StartsOn(b, x)
      <4>a. AnArc(g, b)
        BY <1>5, ArcsAreArcs
      <4>1. b.in \in Nat
        BY <4>a, SymbolsAssumption DEF AnArc
      <4>2. b.in \notin Tried(x) /\ b.in \notin Zero
        BY <1>6, <3>1 DEF NothingStarts, DefaultsApart
      <4> QED
        BY <4>1, <4>2, StartsOnTried
    <3> QED
      BY <3>1, <3>2, <3>3 DEF Consumes
  <2> QED
    BY <1>1, <2>1, <2>2
<1>10. Moved(c, a, top.pos, values', out) \in Past(g, input, c, a)
  <2>1. c.s = top.s /\ c.pos = top.pos - 1 /\ c.values = values
    BY <1>1, <1>5 DEF PositionOf
  <2>2. c.pos < Len(input) /\ c.pos + 1 = top.pos
    BY <1>5, <1>7, <2>1
  <2>3. a.in # 0 /\ a.in \notin Flags
    BY <1>9 DEF Zero
  <2>4. out = IF a.out \in Meta THEN input[c.pos + 1] ELSE a.out
    BY <1>6, <2>2
  <2>5. Past(g, input, c, a) = {Moved(c, a, c.pos + 1, c.values,
                                      IF a.out \in Meta THEN input[c.pos + 1] ELSE a.out)}
    BY <1>9, <2>1, <2>2, <2>3 DEF Past, x
  <2> QED
    BY <1>1, <2>1, <2>2, <2>4, <2>5
<1>11. Call(<<a.in, out>>) /\ top.step # "enter" /\ values' \in [Features -> Int]
  BY <1>1, <1>5, <1>6
<1> HIDE DEF out
<1>12. CallsPlaced' /\ TapeWritten' /\ CallsReached' /\ ConfigsFollow
  BY <1>1, <1>5, <1>6, <1>10, <1>11, SearchCalls DEF a, c
<1>13. UnfoundTries'
  BY <1>1, CalleeUnread
<1> QED
  BY <1>1, <1>3, <1>4, <1>12, <1>13 DEF SearchInv
LEMMA SearchReads == LookupInv /\ SearchInv /\ LookupInv' /\ ReadInput =>
          SearchInv' /\ ConfigsFollow
<1> SUFFICES ASSUME LookupInv, SearchInv, LookupInv', ReadInput PROVE SearchInv' /\ ConfigsFollow
  OBVIOUS
<1>1. /\ ~Idle /\ top.step = "zero" /\ top.i > Len(Arcs(top))
      /\ UNCHANGED <<g, input, limit, timed, late, tape, results>>
  BY DEF ReadInput, request
<1>2. late' \in BOOLEAN /\ IsSequence(tape') /\ Len(tape') >= Len(stack) - 1
  BY <1>1 DEF SearchInv, Requested, TapeWritten
<1>3. CASE AtEnd(top)
  <2>1. depth' = depth + 1 /\ Return
    BY <1>3 DEF ReadInput
  <2>2. depth' \in 0 .. MAX_RECURSION_DEPTH
    BY <2>1, DepthStays, LookupAssumption DEF SearchInv, Recording
  <2>3. CASE Len(stack) = 1
    <3>1. stack' = << >> /\ UNCHANGED <<found, visited>>
      BY <2>1, <2>3 DEF Return
    <3>2. found' \in BOOLEAN
      BY <3>1 DEF SearchInv, Requested
    <3> QED
      BY <1>1, <1>2, <2>2, <3>1, <3>2, SearchEnds, RequestKept DEF SearchInv, Recording
  <2>4. CASE Len(stack) # 1
    <3>2. CallsPlaced' /\ TapeWritten' /\ CallsReached' /\ ConfigsFollow
          /\ found' = TRUE /\ visited' \subseteq visited
      BY <1>1, <1>2, <2>1, <2>4, SearchReturns
    <3>3. UnfoundTries'
      BY <3>2 DEF UnfoundTries
    <3>4. Requested' /\ AllAnalyses' = AllAnalyses
      BY <1>1, <1>2, <3>2, RequestKept
    <3>5. Recording'
      BY <1>1, <2>2, <3>2 DEF SearchInv, Recording
    <3> QED
      BY <1>1, <3>2, <3>3, <3>4, <3>5 DEF SearchInv
  <2> QED
    BY <2>3, <2>4
<1>4. CASE ~AtEnd(top)
  <2> DEFINE x == input[top.pos + 1]
             trying == Matches(x)
             h == [top EXCEPT !.step = "symbol", !.pos = @ + 1, !.i = 1, !.trying = trying]
  <2>1. /\ IsFrame(top) /\ top = stack[Len(stack)] /\ IsSequence(stack) /\ stack # << >>
        /\ top.pos \in Int /\ Placed(g, input, top, Len(stack)) /\ IsGraph(g)
        /\ top.s \in 0 .. g.n - 1 /\ input \in Seq(Nat \ Zero) /\ Len(input) \in Nat
    BY <1>1, InnermostCall, InnermostPlaced
  <2>2. /\ stack' = [stack EXCEPT ![Len(stack)] = h]
        /\ UNCHANGED <<weight, values, visited, depth>>
        /\ found' = (found \/ (Indexed(g, top.s) /\ Arcs(top) # << >>))
    BY <1>4, <2>1 DEF ReadInput
  <2>3. top.pos + 1 \in 1 .. Len(input) /\ x \in Nat \ Zero
    <3>1. top.pos \in 0 .. Len(input) /\ top.pos # Len(input)
      BY <1>4, <2>1 DEF Placed, AtEnd
    <3>2. top.pos + 1 \in 1 .. Len(input)
      BY <2>1, <3>1
    <3> QED
      BY <2>1, <3>2
  <2> HIDE DEF x
  <2>4. /\ trying \in Seq(Tried(x)) /\ Tried(x) \subseteq Range(trying)
    BY <2>3, MatchesAreTried
  <2> HIDE DEF trying
  <2>5. h = [s |-> top.s, pos |-> top.pos + 1, out |-> top.out, step |-> "symbol",
             i |-> 1, trying |-> trying, weight |-> top.weight, values |-> top.values]
    BY <2>1, ControlMoved
  <2> HIDE DEF h
  <2>6. Placed(g, input, h, Len(stack))
    <3> DEFINE arcs == ArcsFor(g, top.s, Head(trying))
    <3>1. Len(arcs) \in Nat
      <4> DEFINE X == {Head(trying)}
      <4>a. \E y : X = {y}
        OBVIOUS
      <4>b. arcs = Run(g, top.s, X)
        BY DEF ArcsFor
      <4> HIDE DEF X, arcs
      <4>2. Len(arcs) \in 0 .. Len(g.arcs[top.s]) /\ Len(g.arcs[top.s]) \in Nat
        BY <2>1, <4>a, <4>b, ArcsAreArcs, RunHolds
      <4> QED
        BY <4>2
    <3> HIDE DEF arcs
    <3>2. 1 \in 1 .. Len(arcs) + 1
      BY <3>1
    <3>3. Reading(g, input, h)
      <4>1. h.pos > 0 /\ input[h.pos] = x
        BY <2>3, <2>5 DEF x
      <4>2. IF h.trying = << >> THEN h.i = 1
            ELSE h.i \in 1 .. Len(ArcsFor(g, h.s, Head(h.trying))) + 1
        BY <2>5, <3>2 DEF arcs
      <4> QED
        BY <2>4, <2>5, <4>1, <4>2 DEF Reading
    <3>4. h.pos \in 0 .. Len(input)
      BY <2>1, <2>3, <2>5
    <3> QED
      BY <2>1, <2>5, <3>3, <3>4 DEF Placed
  <2>7. h.s = top.s /\ PositionOf(h) = PositionOf(top)
    <3>1. h.step = "symbol" /\ h.pos = top.pos + 1 /\ h.s = top.s
      BY <2>5
    <3>2. PositionOf(h) = h.pos - 1 /\ PositionOf(top) = top.pos
      BY <1>1, <3>1 DEF PositionOf
    <3> QED
      BY <2>1, <3>1, <3>2
  <2>8. CallsPlaced' /\ TapeWritten' /\ CallsReached' /\ ConfigsFollow
    BY <1>1, <1>2, <2>2, <2>6, <2>7, SearchTopMoves
  <2>9. found' \in BOOLEAN
    BY <2>2 DEF SearchInv, Requested
  <2>10. Requested' /\ AllAnalyses' = AllAnalyses
    BY <1>1, <1>2, <2>9, RequestKept
  <2>11. Recording'
    BY <1>1, <2>2 DEF SearchInv, Recording
  <2>12. UnfoundTries'
    <3>1. stack'[Len(stack')] = h
      <4>1. stack' = Retopped(stack, h)
        BY <2>2 DEF Retopped
      <4> QED
        BY <2>1, <4>1, TopEffect
    <3>2. ASSUME ~found' PROVE DefaultsApart(g, top.s)
      <4>1. ~(Indexed(g, top.s) /\ ZeroArcs(g, top.s) # << >>)
        BY <1>1, <2>2, <3>2 DEF Arcs
      <4> QED
        BY <2>1, <4>1, UnindexedApart
    <3>3. input[h.pos] = x /\ h.i = 1 /\ h.s = top.s /\ h.trying = trying
      BY <2>5 DEF x
    <3> QED
      BY <1>1, <2>4, <3>1, <3>2, <3>3 DEF UnfoundTries, top, Last
  <2> QED
    BY <1>1, <2>8, <2>10, <2>11, <2>12 DEF SearchInv
<1> QED
  BY <1>3, <1>4
LEMMA SearchTriesNext == LookupInv /\ SearchInv /\ TryNext => SearchInv' /\ ConfigsFollow
<1> SUFFICES ASSUME LookupInv, SearchInv, TryNext PROVE SearchInv' /\ ConfigsFollow
  OBVIOUS
<1>1. /\ ~Idle /\ top.step \in {"symbol", "default"} /\ Exhausted(top)
      /\ UNCHANGED <<g, input, limit, timed, late, tape, weight, values, visited, found,
                     depth, results>>
  BY DEF TryNext, request, object
<1>2. late' \in BOOLEAN /\ found' \in BOOLEAN
      /\ IsSequence(tape') /\ Len(tape') >= Len(stack) - 1
  BY <1>1 DEF SearchInv, Requested, TapeWritten
<1>3. Requested' /\ AllAnalyses' = AllAnalyses
  BY <1>1, <1>2, RequestKept
<1>4. Recording'
  BY <1>1 DEF SearchInv, Recording
<1> DEFINE x == input[top.pos]
<1>5. /\ IsFrame(top) /\ top = stack[Len(stack)] /\ IsSequence(stack) /\ stack # << >>
      /\ top.pos \in Int /\ Placed(g, input, top, Len(stack)) /\ IsGraph(g)
      /\ top.s \in 0 .. g.n - 1 /\ input \in Seq(Nat \ Zero) /\ Len(input) \in Nat
  BY <1>1, InnermostCall, InnermostPlaced
<1>6. Reading(g, input, top) /\ top.pos \in 1 .. Len(input) /\ x \in Nat \ Zero
  <2>1. Reading(g, input, top) /\ top.pos \in 0 .. Len(input)
    BY <1>1, <1>5 DEF Placed
  <2>2. top.pos \in 1 .. Len(input)
    BY <1>5, <2>1 DEF Reading
  <2> QED
    BY <1>5, <2>1, <2>2
<1>8. ASSUME NEW y
      PROVE  /\ Len(ArcsFor(g, top.s, y)) \in Nat
             /\ Len(ArcsFor(g, top.s, y)) = 0 =>
                  \A a \in Range(g.arcs[top.s]) : a.in # y
  <2> DEFINE X == {y}
             run == Run(g, top.s, X)
  <2>1. \E z : X = {z}
    OBVIOUS
  <2> HIDE DEF X
  <2>2. /\ run \in Seq(Range(g.arcs[top.s]))
        /\ Len(run) \in 0 .. Len(g.arcs[top.s]) /\ Len(g.arcs[top.s]) \in Nat
        /\ run = << >> => \A a \in Range(g.arcs[top.s]) : a.in \notin X
    BY <1>5, <2>1, ArcsAreArcs, RunHolds
  <2>4. ArcsFor(g, top.s, y) = run
    BY DEF ArcsFor, X
  <2> HIDE DEF run
  <2>3. Len(run) = 0 => run = << >>
    BY <2>2
  <2> QED
    BY <2>2, <2>3, <2>4 DEF X
<1> HIDE DEF x
<1>9. PICK h : /\ stack' = [stack EXCEPT ![Len(stack)] = h]
               /\ h.s = top.s /\ h.pos = top.pos /\ h.step \in {"symbol", "default"}
               /\ Placed(g, input, h, Len(stack))
               /\ h.step = "symbol" /\ ~found =>
                    /\ h.i = 1 /\ DefaultsApart(g, top.s)
                    /\ \A a \in Range(g.arcs[top.s]) :
                         a.in \in Tried(x) => a.in \in Range(h.trying)
  <2>1. CASE /\ Len(top.trying) > 1
             /\ stack' = [stack EXCEPT ![Len(stack)] = [top EXCEPT !.trying = Tail(@), !.i = 1]]
    <3> DEFINE rest == Tail(top.trying)
               h == [top EXCEPT !.trying = rest, !.i = 1]
    <3>1. stack' = [stack EXCEPT ![Len(stack)] = h]
      BY <1>5, <2>1
    <3>2. top.step = "symbol" /\ top.trying \in Seq(Tried(x))
      <4>1. top.step = "default" => top.trying = <<DEFAULT>>
        BY <1>6 DEF Reading
      <4>2. ~(Len(<<DEFAULT>>) > 1)
        OBVIOUS
      <4>3. top.step = "symbol"
        BY <1>1, <2>1, <4>1, <4>2
      <4> QED
        BY <1>6, <4>3 DEF Reading, x
    <3>3. /\ rest \in Seq(Tried(x)) /\ rest # << >> /\ top.trying # << >>
          /\ \A m \in Range(top.trying) : m = Head(top.trying) \/ m \in Range(rest)
      <4> DEFINE t == top.trying
                 T == Tried(x)
      <4>1. t \in Seq(T) /\ Len(t) > 1
        BY <2>1, <3>2
      <4> HIDE DEF t, T
      <4>2. /\ Tail(t) \in Seq(T) /\ Len(Tail(t)) = Len(t) - 1 /\ t # << >>
            /\ Head(t) = t[1] /\ \A i \in 1 .. Len(t) - 1 : Tail(t)[i] = t[i + 1]
            /\ Len(t) \in Nat
        BY <4>1
      <4>a. Len(Tail(t)) # 0 /\ Len(<< >>) = 0
        BY <4>1, <4>2, SMTT(30)
      <4>3. Tail(t) # << >>
        BY <4>a
      <4>4. ASSUME NEW m \in Range(t) PROVE m = Head(t) \/ m \in Range(Tail(t))
        <5>1. DOMAIN t = 1 .. Len(t) /\ DOMAIN Tail(t) = 1 .. Len(t) - 1
          BY <4>1, <4>2
        <5>2. PICK i \in 1 .. Len(t) : m = t[i]
          BY <4>4, <5>1 DEF Range
        <5>3. CASE i = 1
          BY <4>2, <5>2, <5>3
        <5>4. CASE i # 1
          <6>1. i - 1 \in 1 .. Len(t) - 1 /\ i - 1 + 1 = i
            BY <4>2, <5>4
          <6>2. Tail(t)[i - 1] = m
            BY <4>2, <5>2, <6>1
          <6> QED
            BY <5>1, <6>1, <6>2 DEF Range
        <5> QED
          BY <5>3, <5>4
      <4> QED
        BY <4>2, <4>3, <4>4 DEF t, T
    <3> HIDE DEF rest
    <3>4. h = [s |-> top.s, pos |-> top.pos, out |-> top.out, step |-> top.step, i |-> 1,
               trying |-> rest, weight |-> top.weight, values |-> top.values]
      BY <1>5, ControlMoved
    <3> HIDE DEF h
    <3>5. Placed(g, input, h, Len(stack))
      <4>1. 1 \in 1 .. Len(ArcsFor(g, top.s, Head(rest))) + 1
        BY <1>8
      <4>2. Reading(g, input, h)
        BY <1>6, <3>2, <3>3, <3>4, <4>1 DEF Reading, x
      <4> QED
        BY <1>5, <3>2, <3>4, <4>2 DEF Placed
    <3>6. ~found => /\ DefaultsApart(g, top.s)
                    /\ \A a \in Range(g.arcs[top.s]) :
                         a.in \in Tried(x) => a.in \in Range(rest)
      <4> SUFFICES ASSUME ~found
                   PROVE  /\ DefaultsApart(g, top.s)
                          /\ \A a \in Range(g.arcs[top.s]) :
                               a.in \in Tried(x) => a.in \in Range(rest)
        OBVIOUS
      <4>1. /\ top.i = 1 /\ DefaultsApart(g, top.s)
            /\ \A a \in Range(g.arcs[top.s]) :
                 a.in \in Tried(x) => a.in \in Range(top.trying)
        BY <1>1, <3>2 DEF SearchInv, UnfoundTries, x
      <4>2. top.i > Len(ArcsFor(g, top.s, Head(top.trying)))
        BY <1>1, <3>2, <3>3 DEF Exhausted, Arcs
      <4>3. Len(ArcsFor(g, top.s, Head(top.trying))) = 0
        BY <1>8, <4>1, <4>2
      <4> QED
        BY <1>8, <3>3, <4>1, <4>3
    <3>7. h.s = top.s /\ h.pos = top.pos /\ h.step = "symbol" /\ h.i = 1 /\ h.trying = rest
      BY <3>2, <3>4
    <3> QED
      BY <3>1, <3>5, <3>6, <3>7
  <2>2. CASE /\ Len(top.trying) <= 1 /\ top.step = "symbol" /\ DEFAULT # NO_SYMBOL /\ ~found
             /\ stack' = [stack EXCEPT ![Len(stack)] =
                            [top EXCEPT !.step = "default", !.trying = <<DEFAULT>>, !.i = 1]]
    <3> DEFINE rest == <<DEFAULT>>
               h == [top EXCEPT !.step = "default", !.trying = rest, !.i = 1]
    <3>1. stack' = [stack EXCEPT ![Len(stack)] = h]
      BY <1>5, <2>2
    <3>2. Head(rest) = DEFAULT /\ rest # << >>
      OBVIOUS
    <3>3. NothingStarts(g, top.s, x) /\ DefaultsApart(g, top.s)
      <4>1. /\ top.i = 1 /\ DefaultsApart(g, top.s)
            /\ \A a \in Range(g.arcs[top.s]) :
                 a.in \in Tried(x) => a.in \in Range(top.trying)
        BY <1>1, <2>2 DEF SearchInv, UnfoundTries, x
      <4>2. top.trying \in Seq(Tried(x))
        BY <1>6, <2>2 DEF Reading, x
      <4>3. ASSUME NEW a \in Range(g.arcs[top.s]), a.in \in Range(top.trying) PROVE FALSE
        <5>1. PICK i \in 1 .. Len(top.trying) : a.in = top.trying[i]
          BY <4>2, <4>3 DEF Range
        <5>2. a.in = Head(top.trying) /\ top.trying # << >>
          BY <2>2, <4>2, <5>1
        <5>3. top.i > Len(ArcsFor(g, top.s, Head(top.trying)))
          BY <1>1, <2>2, <5>2 DEF Exhausted, Arcs
        <5>4. Len(ArcsFor(g, top.s, Head(top.trying))) = 0
          BY <1>8, <4>1, <5>3
        <5> QED
          BY <1>8, <5>2, <5>4
      <4> QED
        BY <4>1, <4>3 DEF NothingStarts
    <3> HIDE DEF rest
    <3>4. h = [s |-> top.s, pos |-> top.pos, out |-> top.out, step |-> "default", i |-> 1,
               trying |-> rest, weight |-> top.weight, values |-> top.values]
      BY <1>5, ControlMoved
    <3> HIDE DEF h
    <3>5. Placed(g, input, h, Len(stack))
      <4>1. 1 \in 1 .. Len(ArcsFor(g, top.s, Head(rest))) + 1
        BY <1>8
      <4>2. Reading(g, input, h)
        BY <1>6, <2>2, <3>2, <3>3, <3>4, <4>1 DEF Reading, x, rest
      <4> QED
        BY <1>5, <2>2, <3>4, <4>2 DEF Placed
    <3>6. h.s = top.s /\ h.pos = top.pos /\ h.step = "default"
      BY <3>4
    <3> QED
      BY <3>1, <3>5, <3>6
  <2> QED
    BY <2>1, <2>2 DEF TryNext
<1>10. PositionOf(h) = PositionOf(top)
  BY <1>1, <1>9 DEF PositionOf
<1>11. CallsPlaced' /\ TapeWritten' /\ CallsReached' /\ ConfigsFollow
  BY <1>1, <1>2, <1>9, <1>10, SearchTopMoves
<1>12. UnfoundTries'
  <2>1. stack'[Len(stack')] = h
    <3>1. stack' = Retopped(stack, h)
      BY <1>9 DEF Retopped
    <3> QED
      BY <1>5, <3>1, TopEffect
  <2>2. input'[h.pos] = x
    BY <1>1, <1>9 DEF x
  <2> QED
    BY <1>1, <1>9, <2>1, <2>2 DEF UnfoundTries, top, Last
<1> QED
  BY <1>1, <1>3, <1>4, <1>11, <1>12 DEF SearchInv

LEMMA SearchStutters == SearchInv /\ UNCHANGED vars => SearchInv'
BY DEF vars, request, object, SearchInv, Requested, Recording, CallsPlaced, TapeWritten,
       CallsReached, Config, WeightAt, ValuesAt, UnfoundTries, Idle, top, Last, AllAnalyses

LEMMA SearchStarts == Init => SearchInv
<1> SUFFICES ASSUME Init PROVE SearchInv
  OBVIOUS
<1>1. /\ stack = << >> /\ Len(stack) = 0 /\ tape = << >> /\ results = {} /\ visited = {}
      /\ depth = MAX_RECURSION_DEPTH /\ Idle
  BY DEF Init, Idle
<1>2. Requested
  <2>1. g \in Graphs /\ input = << >> /\ limit = -1
        /\ timed = FALSE /\ late = FALSE /\ found = FALSE
    BY DEF Init
  <2>2. << >> \in Seq(Nat \ Zero) /\ -1 \in Int
    OBVIOUS
  <2> QED
    BY <2>1, <2>2 DEF Requested
<1>3. TapeWritten
  <2>1. IsSequence(<< >>) /\ Len(<< >>) = 0
    BY DEF IsSequence
  <2> QED
    BY <1>1, <2>1 DEF TapeWritten
<1>4. Recording /\ CallsPlaced /\ CallsReached /\ UnfoundTries
  BY <1>1, LookupAssumption DEF Recording, CallsPlaced, CallsReached, UnfoundTries
<1> QED
  BY <1>1, <1>2, <1>3, <1>4 DEF SearchInv

\* Every active call is at a configuration the graph leads to by the arcs of its
\* callers, and a default arc is only followed where nothing else starts.
THEOREM SearchInvHolds == Spec => [](LookupInv /\ SearchInv)
<1>1. Init => LookupInv /\ SearchInv
  BY InitEstablishes, SearchStarts
<1>2. LookupInv /\ SearchInv /\ [Next]_vars => (LookupInv /\ SearchInv)'
  BY NextPreserves, SearchBegins, SearchRefuses, SearchEnters, SearchTakesEpsilon,
     SearchTakesFlag, SearchSkips, SearchReads, SearchTakesSymbol, SearchTriesNext,
     SearchLeaves, SearchStutters DEF Next, Step
<1> QED
  BY <1>1, <1>2, PTL DEF Spec
-----------------------------------------------------------------------------
(* The theorems *)

\* Whatever cut a search short, what get_analyses has noted are accepting paths of
\* the transducer for the input, with their weights: no flag value, weight or tape
\* cell that an earlier branch or lookup left can make it note anything else.
THEOREM SoundHolds == Spec => []Sound
<1>1. SearchInv => Sound
  BY DEF SearchInv, Sound
<1> QED
  BY <1>1, SearchInvHolds, PTL

\* The object and every active call stay inside the transducer's tables, the input
\* and the recursion depth.
THEOREM TypeCorrect == Spec => []TypeOK
<1>1. LookupInv /\ SearchInv => TypeOK
  <2> SUFFICES ASSUME LookupInv, SearchInv PROVE TypeOK
    OBVIOUS
  <2>1. IsGraph(g) /\ limit \in Int /\ {timed, late, found} \subseteq BOOLEAN
        /\ depth \in 0 .. MAX_RECURSION_DEPTH
        /\ visited \subseteq (0 .. g.n - 1) \X [Features -> Int]
    BY GraphsAssumption DEF SearchInv, Requested, Recording
  <2>2. weight \in Nat /\ values \in [Features -> Int]
    <3>1. CASE Idle
      <4>1. Len(stack) = 0
        BY <3>1 DEF Idle
      <4>2. weight = 0 /\ values = Neutral
        BY <4>1 DEF LookupInv, WeightsChained, ValuesChained, WeightAt, ValuesAt
      <4> QED
        BY <4>2 DEF Neutral
    <3>2. CASE ~Idle
      BY <3>2, InnermostPlaced
    <3> QED
      BY <3>1, <3>2
  <2>3. ASSUME NEW f \in Range(stack)
        PROVE  /\ f.s \in 0 .. g.n - 1 /\ f.pos \in 0 .. Len(input)
               /\ f.step \in {"enter", "zero", "symbol", "default"}
               /\ f.i \in 1 .. Len(g.arcs[f.s]) + 1
    <3>1. PICK S : stack \in Seq(S)
      BY DEF LookupInv, Levels, IsSequence
    <3>2. PICK j \in 1 .. Len(stack) : f = stack[j]
      BY <3>1 DEF Range
    <3>3. IsFrame(f) /\ Placed(g, input, f, j)
      BY <3>2 DEF LookupInv, Levels, SearchInv, CallsPlaced
    <3>4. /\ f.s \in 0 .. g.n - 1 /\ f.pos \in 0 .. Len(input)
          /\ f.step \in {"enter", "zero", "symbol", "default"}
      BY <3>3 DEF IsFrame, Placed
    <3> DEFINE m == Len(g.arcs[f.s])
    <3>5. m \in Nat
      BY <2>1, <3>4, ArcsAreArcs
    <3>6. ASSUME NEW X, X = Zero \/ \E x : X = {x}, f.i \in 1 .. Len(Run(g, f.s, X)) + 1
          PROVE  f.i \in 1 .. m + 1
      <4> DEFINE l == Len(Run(g, f.s, X))
      <4>1. l \in 0 .. m
        BY <2>1, <3>4, <3>6, RunHolds
      <4> HIDE DEF l, m
      <4>2. f.i \in 1 .. l + 1
        BY <3>6 DEF l
      <4> QED
        BY <3>5, <4>1, <4>2
    <3>7. f.i \in 1 .. m + 1
      <4>1. CASE f.step = "enter"
        <5>1. f.i = 1
          BY <3>3, <4>1 DEF Placed
        <5> HIDE DEF m
        <5> QED
          BY <3>5, <5>1
      <4>2. CASE f.step = "zero"
        BY <3>3, <3>6, <4>2 DEF Placed, ZeroArcs
      <4>3. CASE f.step \in {"symbol", "default"}
        <5>1. Reading(g, input, f)
          BY <3>3, <4>3 DEF Placed
        <5>2. CASE f.trying = << >>
          <6>1. f.i = 1
            BY <5>1, <5>2 DEF Reading
          <6> HIDE DEF m
          <6> QED
            BY <3>5, <6>1
        <5>3. CASE f.trying # << >>
          <6> DEFINE X == {Head(f.trying)}
          <6>1. (\E x : X = {x}) /\ f.i \in 1 .. Len(Run(g, f.s, X)) + 1
            BY <5>1, <5>3 DEF Reading, ArcsFor
          <6> HIDE DEF X
          <6> QED
            BY <3>6, <6>1
        <5> QED
          BY <5>2, <5>3
      <4> QED
        BY <3>4, <4>1, <4>2, <4>3
    <3> QED
      BY <3>4, <3>7
  <2> QED
    BY <2>1, <2>2, <2>3 DEF TypeOK
<1> QED
  BY <1>1, SearchInvHolds, PTL

\* What a caller's arc has made of the flag values is what the arc itself makes.
LEMMA ThroughIsPast ==
    ASSUME LookupInv, SearchInv, NEW j \in 1 .. Len(stack) - 1
    PROVE  Through(g, stack[j]) = PastArc(stack[j].values, ArcIn(g, stack[j]))
<1> DEFINE f == stack[j]
<1>1. IsSequence(stack) /\ Len(stack) \in Nat
  BY DEF LookupInv, Levels, IsSequence
<1>2. j \in 1 .. Len(stack)
  BY <1>1
<1>3. Placed(g, input, f, j) /\ Inside(g, f) /\ f.step \in {"zero", "symbol", "default"}
  BY <1>2 DEF SearchInv, CallsPlaced, LookupInv, Levels, IsFrame
<1> HIDE DEF f
<1>4. CASE f.step = "zero"
  BY <1>4 DEF Through, ReadsFlag, PastArc, f
<1>5. CASE f.step # "zero"
  <2>1. IsGraph(g) /\ input \in Seq(Nat \ Zero)
    BY GraphsAssumption DEF SearchInv, Requested
  <2>2. ArcIn(g, f).in = Head(f.trying) /\ AnArc(g, ArcIn(g, f))
    BY <1>3, <1>5, <2>1, ArcInHolds
  <2>3. Reading(g, input, f) /\ f.trying # << >> /\ f.pos \in 0 .. Len(input)
    BY <1>3, <1>5 DEF Placed, Inside
  <2>4. ArcIn(g, f).in \notin Flags
    <3>1. CASE f.step = "symbol"
      <4>1. f.trying \in Seq(Tried(input[f.pos]))
        BY <2>3, <3>1 DEF Reading
      <4>2. Head(f.trying) \in Tried(input[f.pos])
        BY <2>3, <4>1
      <4>3. Len(input) \in Nat /\ f.pos > 0
        BY <2>1, <2>3 DEF Reading
      <4>4. f.pos \in 1 .. Len(input)
        BY <2>3, <4>3
      <4>5. input[f.pos] \in Nat \ Zero
        BY <2>1, <4>4
      <4> QED
        BY <2>2, <4>2, <4>5, MatchesAreTried DEF Zero
    <3>2. CASE f.step = "default"
      <4>1. Head(f.trying) = DEFAULT /\ DEFAULT # NO_SYMBOL
        BY <2>3, <3>2 DEF Reading
      <4> QED
        BY <2>2, <4>1, SymbolsAssumption
    <3> QED
      BY <1>3, <1>5, <3>1, <3>2
  <2> QED
    BY <1>5, <2>4 DEF Through, ReadsFlag, PastArc, f
<1> QED
  BY <1>4, <1>5

\* At every step of every search, current_weight, flag_state, output_tape and
\* recursion_depth_left are those of the arcs the active calls of get_analyses are in:
\* each call has added its own arc to what its caller had, and undoes just that.
THEOREM ObjectHolds == Spec => []ObjectMatchesPath
<1>1. LookupInv /\ SearchInv => ObjectMatchesPath
  <2> SUFFICES ASSUME LookupInv, SearchInv PROVE ObjectMatchesPath
    OBVIOUS
  <2> DEFINE n == Len(stack)
             arcs == ActivePath
             entered == {j \in DOMAIN stack : stack[j].step # "enter"}
  <2>1. IsSequence(stack) /\ n \in Nat /\ DOMAIN stack = 1 .. n
    BY DEF LookupInv, Levels, IsSequence
  <2>2. CASE Idle
    <3>1. n = 0 /\ arcs = << >> /\ stack = << >>
      BY <2>2 DEF Idle, ActivePath
    <3>2. weight = 0 /\ values = Neutral /\ depth = MAX_RECURSION_DEPTH
      BY <3>1, LookupAssumption
         DEF LookupInv, Levels, WeightsChained, ValuesChained, WeightAt, ValuesAt
    <3>3. WeightAfter(arcs) = 0 /\ ValuesAfter(arcs) = Neutral
      <4> DEFINE w == [k \in 0 .. 0 |-> 0]
                 v == [k \in 0 .. 0 |-> Neutral]
      <4>1. Len(<< >>) = 0 /\ w = [k \in 0 .. 0 |-> w[k]] /\ v = [k \in 0 .. 0 |-> v[k]]
            /\ w[0] = 0 /\ v[0] = Neutral
        OBVIOUS
      <4> HIDE DEF w, v
      <4>2. WeightAfter(<< >>) = w[0]
        BY <4>1, WeightAfterIs
      <4>3. ValuesAfter(<< >>) = v[0]
        BY <4>1, ValuesAfterIs
      <4> QED
        BY <3>1, <4>1, <4>2, <4>3
    <3>4. Cardinality(entered) = 0
      <4>1. entered = {}
        BY <3>1
      <4> QED
        BY <4>1, FS_EmptySet
    <3> QED
      BY <3>1, <3>2, <3>3, <3>4, LookupAssumption DEF ObjectMatchesPath
  <2>3. CASE ~Idle
    <3>1. n \in Nat \ {0} /\ stack # << >>
      BY <2>3, InnermostCall
    <3>2. arcs = [j \in 1 .. n - 1 |-> ArcIn(g, stack[j])]
      BY <2>3, ArcIsArcIn DEF ActivePath
    <3>3. Len(arcs) = n - 1 /\ \A j \in 1 .. n - 1 : arcs[j] = ArcIn(g, stack[j])
      BY <3>1, <3>2
    <3> HIDE DEF n, arcs, entered
    <3>4. weight = WeightAfter(arcs)
      <4> DEFINE w == [k \in 0 .. n - 1 |-> WeightAt(k + 1)]
      <4>1. w[0] = 0
        BY <3>1 DEF LookupInv, WeightsChained
      <4>2. \A k \in 1 .. n - 1 : w[k] = w[k - 1] + arcs[k].w
        <5> SUFFICES ASSUME NEW k \in 1 .. n - 1 PROVE w[k] = w[k - 1] + arcs[k].w
          OBVIOUS
        <5>1. k \in 0 .. n - 1 /\ k - 1 \in 0 .. n - 1 /\ k - 1 + 1 = k /\ k < n
          BY <3>1
        <5>2. w[k] = WeightAt(k + 1) /\ w[k - 1] = WeightAt(k)
          BY <5>1
        <5>3. WeightAt(k) = stack[k].weight
          BY <5>1 DEF WeightAt, n
        <5>4. WeightAt(k + 1) = stack[k].weight + ArcIn(g, stack[k]).w
          BY DEF LookupInv, WeightsChained, n
        <5> HIDE DEF w
        <5> QED
          BY <3>3, <5>2, <5>3, <5>4
      <4>3. w[n - 1] = weight
        <5>1. n - 1 \in 0 .. n - 1 /\ n - 1 + 1 = n /\ ~(n < n)
          BY <3>1
        <5>2. w[n - 1] = WeightAt(n)
          BY <5>1
        <5> QED
          BY <5>1, <5>2 DEF WeightAt, n
      <4>4. w = [k \in 0 .. n - 1 |-> w[k]] /\ n - 1 \in Nat
        BY <3>1
      <4> HIDE DEF w
      <4>5. WeightAfter(arcs) = w[n - 1]
        BY <3>3, <4>1, <4>2, <4>4, WeightAfterIs
      <4> QED
        BY <4>3, <4>5
    <3>5. values = ValuesAfter(arcs)
      <4> DEFINE v == [k \in 0 .. n - 1 |-> ValuesAt(k + 1)]
      <4>1. v[0] = Neutral
        BY <3>1 DEF LookupInv, ValuesChained
      <4>2. \A k \in 1 .. n - 1 : v[k] = PastArc(v[k - 1], arcs[k])
        <5> SUFFICES ASSUME NEW k \in 1 .. n - 1 PROVE v[k] = PastArc(v[k - 1], arcs[k])
          OBVIOUS
        <5>1. k \in 0 .. n - 1 /\ k - 1 \in 0 .. n - 1 /\ k - 1 + 1 = k /\ k < n
          BY <3>1
        <5>2. v[k] = ValuesAt(k + 1) /\ v[k - 1] = ValuesAt(k)
          BY <5>1
        <5>3. ValuesAt(k) = stack[k].values
          BY <5>1 DEF ValuesAt, n
        <5>4. ValuesAt(k + 1) = Through(g, stack[k])
          BY DEF LookupInv, ValuesChained, n
        <5>5. Through(g, stack[k]) = PastArc(stack[k].values, ArcIn(g, stack[k]))
          BY ThroughIsPast DEF n
        <5> HIDE DEF v
        <5> QED
          BY <3>3, <5>2, <5>3, <5>4, <5>5
      <4>3. v[n - 1] = values
        <5>1. n - 1 \in 0 .. n - 1 /\ n - 1 + 1 = n /\ ~(n < n)
          BY <3>1
        <5>2. v[n - 1] = ValuesAt(n)
          BY <5>1
        <5> QED
          BY <5>1, <5>2 DEF ValuesAt, n
      <4>4. v = [k \in 0 .. n - 1 |-> v[k]] /\ n - 1 \in Nat
        BY <3>1
      <4> HIDE DEF v
      <4>5. ValuesAfter(arcs) = v[n - 1]
        BY <3>3, <4>1, <4>2, <4>4, ValuesAfterIs
      <4> QED
        BY <4>3, <4>5
    <3>6. depth = MAX_RECURSION_DEPTH - Cardinality(entered)
      <4>1. \A j \in 1 .. n - 1 : stack[j].step # "enter"
        BY DEF LookupInv, Levels, n
      <4>2. \A j \in 1 .. n : j \in 1 .. n - 1 \/ j = n
        BY <3>1
      <4>3. CASE stack[n].step = "enter"
        <5>a. \A j : j \in entered <=> j \in 1 .. n /\ stack[j].step # "enter"
          BY <2>1 DEF entered, n
        <5>b. \A j \in 1 .. n - 1 : j \in 1 .. n
          BY <3>1
        <5>c. \A j : j \in entered <=> j \in 1 .. n - 1
          BY <4>1, <4>2, <4>3, <5>a, <5>b
        <5>1. entered = 1 .. n - 1
          BY <5>c
        <5>2. Cardinality(1 .. n - 1) = n - 1
          BY <3>1, FS_Interval
        <5>3. depth = MAX_RECURSION_DEPTH - n + 1
          BY <3>1, <4>3, LookupAssumption DEF LookupInv, Levels, n
        <5> QED
          BY <3>1, <5>1, <5>2, <5>3, LookupAssumption
      <4>4. CASE stack[n].step # "enter"
        <5>1. entered = 1 .. n
          BY <2>1, <3>1, <4>1, <4>2, <4>4 DEF entered, n
        <5>2. Cardinality(1 .. n) = n
          BY <3>1, FS_Interval
        <5>3. depth = MAX_RECURSION_DEPTH - n
          BY <3>1, <4>4, LookupAssumption DEF LookupInv, Levels, n
        <5> QED
          BY <5>1, <5>2, <5>3
      <4> QED
        BY <4>3, <4>4
    <3>7. \A j \in 1 .. n - 1 : tape[j][1] = arcs[j].in
      BY <3>3 DEF SearchInv, TapeWritten, n
    <3> QED
      BY <3>4, <3>5, <3>6, <3>7 DEF ObjectMatchesPath, n, arcs, entered
  <2> QED
    BY <2>2, <2>3
<1> QED
  BY <1>1, SearchInvHolds, PTL

-----------------------------------------------------------------------------
(* Nothing is missed.  Each call is accountable for the arcs it has been   *)
(* through (Behind): all that can be reached by them, as far as the        *)
(* recursion depth goes, has been noted (Explored).  A call that returns   *)
(* has been through all of its arcs that can be followed.                  *)

\* The configuration e is m arcs from c.
Leads(gr, inp, c, m, e) ==
    \E p : /\ p[0] = c /\ p[m] = e
           /\ \A k \in 1 .. m : p[k] \in Successors(gr, inp, p[k - 1])

Accepted(gr, inp, e) == e.pos = Len(inp) /\ e.s \in DOMAIN gr.final
AnalysisAt(gr, e) == [weight |-> e.weight + gr.final[e.s], path |-> e.path]
Noted(gr, inp, res, e) == Accepted(gr, inp, e) => AnalysisAt(gr, e) \in res

\* All that up to k arcs lead to from c is noted.
Covered(gr, inp, res, c, k) ==
    \A m \in 0 .. k : \A e : Leads(gr, inp, c, m, e) => Noted(gr, inp, res, e)

\* The call f has been through the arc a of its state.
Behind(gr, inp, f, a) ==
    IF a.in \in Zero
    THEN f.step # "zero" \/ \E i \in 1 .. f.i - 1 : ZeroArcs(gr, f.s)[i] = a
    ELSE /\ f.step \in {"symbol", "default"}
         /\ \/ f.step = "symbol" /\ a.in \in Tried(inp[f.pos]) /\ a.in \notin Range(f.trying)
            \/ /\ f.trying # << >>
               /\ \E i \in 1 .. f.i - 1 : ArcsFor(gr, f.s, Head(f.trying))[i] = a

\* The call j, which began in c, has noted c and all behind the arcs it has been
\* through.
Explored(gr, inp, res, f, c, j) ==
    f.step # "enter" =>
      /\ Noted(gr, inp, res, c)
      /\ \A a \in Range(gr.arcs[f.s]) : Behind(gr, inp, f, a) =>
           \A d \in Past(gr, inp, c, a) :
             Covered(gr, inp, res, d, MAX_RECURSION_DEPTH - 1 - j)

CutShort == late \/ Enough

CallsExplored ==
    \A j \in 1 .. Len(stack) : Explored(g, input, results, stack[j], Config(j), j)
SearchedAll ==
    Idle /\ calls > 0 => Covered(g, input, results, Start, MAX_RECURSION_DEPTH - 1)

\* What a caller is inside of leads to where its callee began.
CallsFollow ==
    \A j \in 1 .. Len(stack) - 1 :
        Config(j + 1) \in Past(g, input, Config(j), ArcIn(g, stack[j]))

\* A transition found is an arc that the input, or no input, can start on.
FoundMeans ==
    ~Idle /\ found =>
      /\ top.step = "zero" => \E b \in Range(g.arcs[top.s]) : b.in \in Zero
      /\ top.step = "symbol" =>
           \E b \in Range(g.arcs[top.s]) : b.in \in Zero \/ b.in \in Tried(input[top.pos])

ExploredInv ==
    /\ CallsFollow /\ FoundMeans /\ calls \in Nat
    /\ CutShort \/ (CallsExplored /\ SearchedAll)

-----------------------------------------------------------------------------
(* What is reached from a configuration *)

LEMMA NothingLeads == \A gr, inp, c, e : Leads(gr, inp, c, 0, e) => e = c
BY DEF Leads

LEMMA LeadsAtOnce == \A gr, inp, c : Leads(gr, inp, c, 0, c)
<1> SUFFICES ASSUME NEW gr, NEW inp, NEW c PROVE Leads(gr, inp, c, 0, c)
  OBVIOUS
<1> DEFINE p == [k \in {0} |-> c]
<1>1. p[0] = c /\ \A k \in 1 .. 0 : p[k] \in Successors(gr, inp, p[k - 1])
  OBVIOUS
<1> QED
  BY <1>1 DEF Leads

\* The first arc of several.
LEMMA FirstArc ==
    ASSUME NEW gr, NEW inp, NEW c, NEW m \in Nat, NEW e, Leads(gr, inp, c, m + 1, e)
    PROVE  \E d \in Successors(gr, inp, c) : Leads(gr, inp, d, m, e)
<1> PICK p : /\ p[0] = c /\ p[m + 1] = e
             /\ \A k \in 1 .. m + 1 : p[k] \in Successors(gr, inp, p[k - 1])
  BY DEF Leads
<1> DEFINE q == [k \in 0 .. m |-> p[k + 1]]
<1>1. p[1] \in Successors(gr, inp, c)
  <2>1. 1 \in 1 .. m + 1 /\ 1 - 1 = 0
    OBVIOUS
  <2> QED
    BY <2>1
<1>2. q[0] = p[1] /\ q[m] = e
  OBVIOUS
<1>3. ASSUME NEW k \in 1 .. m PROVE q[k] \in Successors(gr, inp, q[k - 1])
  <2>1. k + 1 \in 1 .. m + 1 /\ k \in 0 .. m /\ k - 1 \in 0 .. m
        /\ k - 1 + 1 = k /\ k + 1 - 1 = k
    OBVIOUS
  <2>2. q[k] = p[k + 1] /\ q[k - 1] = p[k]
    BY <2>1
  <2>3. p[k + 1] \in Successors(gr, inp, p[k + 1 - 1])
    BY <2>1
  <2> QED
    BY <2>1, <2>2, <2>3
<1> HIDE DEF q
<1>4. Leads(gr, inp, p[1], m, e)
  BY <1>2, <1>3 DEF Leads
<1> QED
  BY <1>1, <1>4

\* One arc more.
LEMMA LastArc ==
    ASSUME NEW gr, NEW inp, NEW c, NEW m \in Nat, NEW d, Leads(gr, inp, c, m, d),
           NEW e \in Successors(gr, inp, d)
    PROVE  Leads(gr, inp, c, m + 1, e)
<1> PICK p : /\ p[0] = c /\ p[m] = d
             /\ \A k \in 1 .. m : p[k] \in Successors(gr, inp, p[k - 1])
  BY DEF Leads
<1> DEFINE q == [k \in 0 .. m + 1 |-> IF k = m + 1 THEN e ELSE p[k]]
<1>1. q[0] = c /\ q[m + 1] = e /\ q[m] = d
  OBVIOUS
<1>2. ASSUME NEW k \in 1 .. m + 1 PROVE q[k] \in Successors(gr, inp, q[k - 1])
  <2>1. CASE k = m + 1
    <3>1. k - 1 = m
      BY <2>1
    <3> HIDE DEF q
    <3> QED
      BY <1>1, <2>1, <3>1
  <2>2. CASE k # m + 1
    <3>1. k \in 1 .. m /\ k - 1 # m + 1 /\ k - 1 \in 0 .. m + 1 /\ k \in 0 .. m + 1
      BY <2>2
    <3>2. q[k] = p[k] /\ q[k - 1] = p[k - 1]
      BY <2>2, <3>1
    <3> QED
      BY <3>1, <3>2
  <2> QED
    BY <2>1, <2>2
<1> HIDE DEF q
<1> QED
  BY <1>1, <1>2 DEF Leads

\* What the reference reaches by m arcs is m arcs from the start.
LEMMA ReachedLeads ==
    ASSUME NEW gr, NEW inp
    PROVE  \A m \in 0 .. MAX_RECURSION_DEPTH - 1 : \A e \in ReachedBy(gr, inp)[m] :
             Leads(gr, inp, Start, m, e)
<1> DEFINE Good(m) == \A e \in ReachedBy(gr, inp)[m] : Leads(gr, inp, Start, m, e)
           bad == {m \in 0 .. MAX_RECURSION_DEPTH - 1 : ~Good(m)}
<1> HIDE DEF Good
<1>1. SUFFICES ASSUME bad # {} PROVE FALSE
  BY DEF Good
<1>2. PICK m \in bad : \A k \in bad : m <= k
  <2>1. bad \in SUBSET Nat
    OBVIOUS
  <2> HIDE DEF bad
  <2> QED
    BY <1>1, <2>1, LeastElement
<1>3. m \in 0 .. MAX_RECURSION_DEPTH - 1 /\ ~Good(m)
  OBVIOUS
<1>4. CASE m = 0
  <2>1. ReachedBy(gr, inp)[0] = {Start}
    BY ReachedByIs
  <2>2. Good(0)
    BY <2>1, LeadsAtOnce DEF Good
  <2> QED
    BY <1>3, <1>4, <2>2
<1>5. CASE m # 0
  <2>1. m \in 1 .. MAX_RECURSION_DEPTH - 1 /\ m - 1 \in 0 .. MAX_RECURSION_DEPTH - 1
        /\ m - 1 \in Nat /\ ~(m <= m - 1) /\ m - 1 + 1 = m
    BY <1>3, <1>5, LookupAssumption
  <2>2. Good(m - 1)
    BY <1>2, <2>1
  <2>3. ReachedBy(gr, inp)[m] = Onward(gr, inp, ReachedBy(gr, inp)[m - 1])
    BY <2>1, ReachedByIs
  <2>4. ASSUME NEW e \in ReachedBy(gr, inp)[m] PROVE Leads(gr, inp, Start, m, e)
    <3>1. PICK d \in ReachedBy(gr, inp)[m - 1] : e \in Successors(gr, inp, d)
      BY <2>3 DEF Onward
    <3>2. Leads(gr, inp, Start, m - 1, d)
      BY <2>2, <3>1 DEF Good
    <3>3. Leads(gr, inp, Start, m - 1 + 1, e)
      BY <2>1, <3>1, <3>2, LastArc
    <3> QED
      BY <2>1, <3>3
  <2> QED
    BY <1>3, <2>4 DEF Good
<1> QED
  BY <1>4, <1>5

\* A configuration is covered when it is noted and what its arcs lead to is.
LEMMA CoveredByArcs ==
    ASSUME NEW gr, NEW inp, NEW res, NEW c, NEW k \in Int,
           Noted(gr, inp, res, c),
           \A d \in Successors(gr, inp, c) : Covered(gr, inp, res, d, k - 1)
    PROVE  Covered(gr, inp, res, c, k)
<1> SUFFICES ASSUME NEW m \in 0 .. k, NEW e, Leads(gr, inp, c, m, e)
             PROVE  Noted(gr, inp, res, e)
  BY DEF Covered
<1>1. CASE m = 0
  BY <1>1, NothingLeads
<1>2. CASE m # 0
  <2>1. m - 1 \in Nat /\ m - 1 + 1 = m /\ m - 1 \in 0 .. k - 1
    BY <1>2
  <2>2. Leads(gr, inp, c, m - 1 + 1, e)
    BY <2>1
  <2>3. PICK d \in Successors(gr, inp, c) : Leads(gr, inp, d, m - 1, e)
    BY <2>1, <2>2, FirstArc
  <2> QED
    BY <2>1, <2>3 DEF Covered
<1> QED
  BY <1>1, <1>2

\* What is noted stays noted.
LEMMA CoveredGrows ==
    ASSUME NEW gr, NEW inp, NEW res, NEW more, res \subseteq more
    PROVE  /\ \A e : Noted(gr, inp, res, e) => Noted(gr, inp, more, e)
           /\ \A d, k : Covered(gr, inp, res, d, k) => Covered(gr, inp, more, d, k)
           /\ \A f, c, j : Explored(gr, inp, res, f, c, j) => Explored(gr, inp, more, f, c, j)
<1>1. \A e : Noted(gr, inp, res, e) => Noted(gr, inp, more, e)
  BY DEF Noted
<1>2. \A d, k : Covered(gr, inp, res, d, k) => Covered(gr, inp, more, d, k)
  BY <1>1 DEF Covered
<1> QED
  BY <1>1, <1>2 DEF Explored

\* Beyond the recursion depth there is nothing to cover.
LEMMA CoveredBeyond ==
    ASSUME NEW gr, NEW inp, NEW res, NEW d, NEW k \in Int, k < 0
    PROVE  Covered(gr, inp, res, d, k)
<1>1. \A m \in 0 .. k : FALSE
  OBVIOUS
<1> QED
  BY <1>1 DEF Covered

\* There is at most one configuration past an arc.
LEMMA OnePast ==
    ASSUME NEW gr, NEW inp, NEW c, NEW a, NEW d \in Past(gr, inp, c, a),
           NEW e \in Past(gr, inp, c, a)
    PROVE  d = e
BY DEF Past
-----------------------------------------------------------------------------
(* The arcs a call has been through *)

\* At its next arc, a call has been through the arc it was in besides.
LEMMA AdvancedBehind ==
    ASSUME NEW gr, NEW inp, NEW f, NEW h, NEW a, f.i \in Nat, h.i = f.i + 1,
           h.s = f.s, h.pos = f.pos, h.step = f.step, h.trying = f.trying,
           f.step \in {"zero", "symbol", "default"}, Behind(gr, inp, h, a)
    PROVE  Behind(gr, inp, f, a) \/ a = ArcIn(gr, f)
<1>1. \A i \in 1 .. h.i - 1 : i \in 1 .. f.i - 1 \/ i = f.i
  OBVIOUS
<1>2. CASE a.in \in Zero
  <2>1. CASE f.step = "zero"
    <3>1. PICK i \in 1 .. h.i - 1 : ZeroArcs(gr, f.s)[i] = a
      BY <1>2, <2>1 DEF Behind
    <3>2. CASE i = f.i
      BY <2>1, <3>1, <3>2 DEF ArcIn
    <3>3. CASE i \in 1 .. f.i - 1
      BY <1>2, <2>1, <3>1, <3>3 DEF Behind
    <3> QED
      BY <1>1, <3>2, <3>3
  <2>2. CASE f.step # "zero"
    BY <1>2, <2>2 DEF Behind
  <2> QED
    BY <2>1, <2>2
<1>3. CASE a.in \notin Zero
  <2>1. f.step \in {"symbol", "default"}
    BY <1>3 DEF Behind
  <2>2. CASE f.step = "symbol" /\ a.in \in Tried(inp[f.pos]) /\ a.in \notin Range(f.trying)
    BY <1>3, <2>1, <2>2 DEF Behind
  <2>3. CASE /\ f.trying # << >>
             /\ \E i \in 1 .. h.i - 1 : ArcsFor(gr, f.s, Head(f.trying))[i] = a
    <3>1. PICK i \in 1 .. h.i - 1 : ArcsFor(gr, f.s, Head(f.trying))[i] = a
      BY <2>3
    <3>2. CASE i = f.i
      BY <2>1, <3>1, <3>2 DEF ArcIn
    <3>3. CASE i \in 1 .. f.i - 1
      BY <1>3, <2>1, <2>3, <3>1, <3>3 DEF Behind
    <3> QED
      BY <1>1, <3>2, <3>3
  <2> QED
    BY <1>3, <2>2, <2>3 DEF Behind
<1> QED
  BY <1>2, <1>3

\* What a call is accountable for depends on its control only.
LEMMA SavedExplored ==
    ASSUME NEW gr, NEW inp, NEW res, NEW c, NEW j, NEW f, NEW h, h.s = f.s, h.pos = f.pos,
           h.step = f.step, h.trying = f.trying, h.i = f.i, Explored(gr, inp, res, f, c, j)
    PROVE  Explored(gr, inp, res, h, c, j)
<1>1. \A a : Behind(gr, inp, h, a) <=> Behind(gr, inp, f, a)
  BY DEF Behind
<1> QED
  BY <1>1 DEF Explored

\* At its next arc, a call is accountable for the arc it was in besides.
LEMMA AdvancedExplored ==
    ASSUME NEW gr, NEW inp, NEW res, NEW c, NEW j, NEW f, NEW h, f.i \in Nat, h.i = f.i + 1,
           h.s = f.s, h.pos = f.pos, h.step = f.step, h.trying = f.trying,
           f.step \in {"zero", "symbol", "default"}, Explored(gr, inp, res, f, c, j),
           \A d \in Past(gr, inp, c, ArcIn(gr, f)) :
             Covered(gr, inp, res, d, MAX_RECURSION_DEPTH - 1 - j)
    PROVE  Explored(gr, inp, res, h, c, j)
<1>1. \A a : Behind(gr, inp, h, a) => Behind(gr, inp, f, a) \/ a = ArcIn(gr, f)
  BY AdvancedBehind
<1> QED
  BY <1>1 DEF Explored
-----------------------------------------------------------------------------
(* What the actions leave explored *)

\* A callee begins where its caller's arc leads, whatever the step.
LEMMA CallsStillFollow ==
    ASSUME LookupInv, LookupInv', CallsFollow, ConfigsFollow, UNCHANGED <<g, input>>
    PROVE  CallsFollow'
<1> PICK n \in Nat : n = Len(stack)
  BY DEF LookupInv, Levels, IsSequence
<1> PICK m \in Nat : m = Len(stack')
  BY DEF LookupInv, Levels, IsSequence
<1> SUFFICES ASSUME NEW j \in 1 .. m - 1
             PROVE  Config(j + 1)' \in Past(g, input, Config(j)', ArcIn(g, stack'[j]))
  BY DEF CallsFollow
<1>1. /\ ArcIn(g, stack'[j]) = ArcIn(g, stack[j]) /\ m <= n + 1
      /\ \A k \in 1 .. n : k <= m => Config(k)' = Config(k)
      /\ \A k \in 2 .. m : k = n + 1 =>
           Config(k)' \in Past(g, input, Config(k - 1), ArcIn(g, stack[k - 1]))
  BY DEF ConfigsFollow
<1>2. j \in 1 .. n /\ j <= m /\ j + 1 \in 2 .. m
  BY <1>1
<1>3. Config(j)' = Config(j)
  BY <1>1, <1>2
<1>4. CASE j + 1 <= n
  <2>1. j + 1 \in 1 .. n /\ j + 1 <= m /\ j \in 1 .. n - 1
    BY <1>2, <1>4
  <2>2. Config(j + 1)' = Config(j + 1)
    BY <1>1, <2>1
  <2>3. Config(j + 1) \in Past(g, input, Config(j), ArcIn(g, stack[j]))
    BY <2>1 DEF CallsFollow
  <2> QED
    BY <1>1, <1>3, <2>2, <2>3
<1>5. CASE j + 1 = n + 1
  <2>1. Config(j + 1)' \in Past(g, input, Config(j + 1 - 1), ArcIn(g, stack[j + 1 - 1]))
    BY <1>1, <1>2, <1>5
  <2>2. j + 1 - 1 = j
    OBVIOUS
  <2>3. Config(j + 1)' \in Past(g, input, Config(j), ArcIn(g, stack[j]))
    BY <2>1, <2>2
  <2> QED
    BY <1>1, <1>3, <2>3
<1> QED
  BY <1>1, <1>2, <1>4, <1>5

\* The innermost call moves on.
LEMMA ExploredTopMoves ==
    ASSUME LookupInv, CallsExplored, ConfigsFollow, ~Idle, NEW h,
           stack' = [stack EXCEPT ![Len(stack)] = h], UNCHANGED <<g, input>>,
           results \subseteq results',
           Explored(g, input, results', h, Config(Len(stack)), Len(stack))
    PROVE  CallsExplored' /\ top' = h /\ ~Idle'
<1> PICK n \in Nat \ {0} : n = Len(stack)
  BY InnermostCall
<1>1. IsSequence(stack) /\ stack # << >>
  BY InnermostCall
<1>2. /\ Len(stack') = n /\ stack'[n] = h
      /\ \A j \in 1 .. n - 1 : stack'[j] = stack[j]
  <2>1. stack' = Retopped(stack, h)
    BY DEF Retopped
  <2> QED
    BY <1>1, <2>1, TopEffect
<1>3. \A j \in 1 .. n : Config(j)' = Config(j)
  BY <1>2 DEF ConfigsFollow
<1>4. ASSUME NEW j \in 1 .. n PROVE Explored(g, input, results', stack'[j], Config(j)', j)
  <2>1. CASE j = n
    BY <1>2, <1>3, <2>1
  <2>2. CASE j # n
    <3>1. j \in 1 .. n - 1
      BY <2>2
    <3>2. Explored(g, input, results, stack[j], Config(j), j)
      BY DEF CallsExplored
    <3>3. Explored(g, input, results', stack[j], Config(j), j)
      BY <3>2, CoveredGrows
    <3> QED
      BY <1>2, <1>3, <3>1, <3>3
  <2> QED
    BY <2>1, <2>2
<1>5. CallsExplored'
  BY <1>2, <1>4 DEF CallsExplored
<1> QED
  BY <1>2, <1>5 DEF top, Last, Idle

\* A callee has not begun, and its caller is where it was.
LEMMA ExploredCalls ==
    ASSUME LookupInv, CallsExplored, ConfigsFollow, ~Idle, NEW pair, Call(pair),
           UNCHANGED <<g, input, results>>
    PROVE  CallsExplored' /\ top'.step = "enter" /\ ~Idle'
<1> PICK n \in Nat \ {0} : n = Len(stack)
  BY InnermostCall
<1> DEFINE caller == [top EXCEPT !.weight = weight, !.values = values]
           callee == Frame(Arc(top).to, top.pos, top.out + 1)
<1>1. IsSequence(stack) /\ stack # << >> /\ top = stack[n] /\ IsFrame(top)
  BY InnermostCall
<1>2. stack' = Pushed(stack, caller, callee)
  BY DEF Call, Pushed
<1>3. callee.step = "enter"
  BY DEF Frame
<1>4. /\ caller.s = top.s /\ caller.pos = top.pos /\ caller.step = top.step
      /\ caller.i = top.i /\ caller.trying = top.trying
  <2>1. caller = [s |-> top.s, pos |-> top.pos, out |-> top.out, step |-> top.step,
                  i |-> top.i, trying |-> top.trying, weight |-> weight, values |-> values]
    BY <1>1, SavedFrame, ZenonT(40)
  <2> HIDE DEF caller
  <2> QED
    BY <2>1
<1> HIDE DEF caller, callee
<1>5. /\ Len(stack') = n + 1 /\ stack'[n] = caller /\ stack'[n + 1] = callee
      /\ \A j \in 1 .. n - 1 : stack'[j] = stack[j]
  BY <1>1, <1>2, PushEffect
<1>6. \A j \in 1 .. n : Config(j)' = Config(j)
  BY <1>5 DEF ConfigsFollow
<1>7. ASSUME NEW j \in 1 .. n + 1 PROVE Explored(g, input, results, stack'[j], Config(j)', j)
  <2>1. CASE j = n + 1
    BY <1>3, <1>5, <2>1 DEF Explored
  <2>2. CASE j \in 1 .. n
    <3>1. Explored(g, input, results, stack[j], Config(j), j)
      BY <2>2 DEF CallsExplored
    <3>2. CASE j = n
      <4>1. Explored(g, input, results, caller, Config(n), n)
        BY <1>1, <1>4, <3>1, <3>2, SavedExplored
      <4> QED
        BY <1>5, <1>6, <3>2, <4>1
    <3>3. CASE j # n
      <4>1. j \in 1 .. n - 1
        BY <2>2, <3>3
      <4> QED
        BY <1>5, <1>6, <2>2, <3>1, <4>1
    <3> QED
      BY <3>2, <3>3
  <2> QED
    BY <2>1, <2>2
<1>8. CallsExplored'
  BY <1>5, <1>7 DEF CallsExplored
<1> QED
  BY <1>3, <1>5, <1>8 DEF top, Last, Idle

\* A call that has covered where it began returns to its caller.
LEMMA ExploredReturns ==
    ASSUME LookupInv, SearchInv, CallsFollow, CallsExplored, ConfigsFollow, ~Idle,
           Len(stack) # 1, Return, UNCHANGED <<g, input, results>>,
           Covered(g, input, results, Config(Len(stack)), MAX_RECURSION_DEPTH - Len(stack))
    PROVE  CallsExplored' /\ ~Idle'
<1> PICK n \in Nat \ {0} : n = Len(stack)
  BY InnermostCall
<1> DEFINE f == stack[n - 1]
           h == Advanced(f)
<1>1. /\ IsSequence(stack) /\ n > 1 /\ n - 1 \in 1 .. n /\ n - 1 \in 1 .. n - 1
      /\ n - 1 + 1 = n
  BY InnermostCall
<1>2. stack' = PoppedTo(stack, h)
  <2>1. Front(stack)[n - 1] = f /\ Len(stack) - 1 = n - 1
    <3>1. PICK S : stack \in Seq(S)
      BY <1>1 DEF IsSequence
    <3> QED
      BY <1>1, <3>1 DEF Front
  <2> QED
    BY <1>1, <2>1 DEF Return, PoppedTo
<1>3. /\ f.step \in {"zero", "symbol", "default"} /\ f.i \in Nat
      /\ h.i = f.i + 1 /\ h.s = f.s /\ h.pos = f.pos /\ h.step = f.step
      /\ h.trying = f.trying
  <2>1. IsFrame(f) /\ f.step # "enter"
    BY <1>1 DEF LookupInv, Levels
  <2>2. h = [s |-> f.s, pos |-> f.pos, out |-> f.out, step |-> f.step,
             i |-> f.i + 1, trying |-> f.trying, weight |-> f.weight, values |-> f.values]
    BY <2>1 DEF IsFrame, Advanced
  <2>3. f.step \in {"zero", "symbol", "default"}
    BY <2>1 DEF IsFrame
  <2>4. Placed(g, input, f, n - 1)
    BY <1>1 DEF SearchInv, CallsPlaced
  <2>5. f.i \in Nat
    <3>1. \A y : Len(ArcsFor(g, f.s, y)) \in Nat /\ Len(ZeroArcs(g, f.s)) \in Nat
      <4>1. f.s \in 0 .. g.n - 1 /\ IsGraph(g)
        BY <2>4, GraphsAssumption DEF Placed, SearchInv, Requested
      <4> QED
        BY <4>1, ArcsHold, ArcsForHold
    <3>2. CASE f.step = "zero"
      BY <2>4, <3>1, <3>2 DEF Placed
    <3>3. CASE f.step # "zero"
      <4>1. Reading(g, input, f)
        BY <2>3, <2>4, <3>3 DEF Placed
      <4> QED
        BY <3>1, <4>1 DEF Reading
    <3> QED
      BY <3>2, <3>3
  <2> QED
    BY <2>2, <2>3, <2>5
<1> HIDE DEF h
<1>4. /\ Len(stack') = n - 1 /\ stack'[n - 1] = h
      /\ \A j \in 1 .. n - 2 : stack'[j] = stack[j]
  BY <1>1, <1>2, PopEffect
<1>5. \A j \in 1 .. n - 1 : Config(j)' = Config(j)
  BY <1>4 DEF ConfigsFollow
<1>6. Explored(g, input, results, h, Config(n - 1), n - 1)
  <2>1. Config(n - 1 + 1) \in Past(g, input, Config(n - 1), ArcIn(g, f))
    BY <1>1 DEF CallsFollow
  <2>2. MAX_RECURSION_DEPTH - 1 - (n - 1) = MAX_RECURSION_DEPTH - n
    BY LookupAssumption
  <2>3. \A d \in Past(g, input, Config(n - 1), ArcIn(g, f)) :
          Covered(g, input, results, d, MAX_RECURSION_DEPTH - 1 - (n - 1))
    BY <1>1, <2>1, <2>2, OnePast
  <2>4. Explored(g, input, results, f, Config(n - 1), n - 1)
    BY <1>1 DEF CallsExplored
  <2> HIDE DEF f
  <2> QED
    BY <1>3, <2>3, <2>4, AdvancedExplored
<1>7. ASSUME NEW j \in 1 .. n - 1 PROVE Explored(g, input, results, stack'[j], Config(j)', j)
  <2>1. CASE j = n - 1
    BY <1>4, <1>5, <1>6, <2>1
  <2>2. CASE j # n - 1
    <3>1. j \in 1 .. n - 2 /\ j \in 1 .. n
      BY <2>2
    <3> QED
      BY <1>4, <1>5, <3>1 DEF CallsExplored
  <2> QED
    BY <2>1, <2>2
<1>8. CallsExplored'
  BY <1>4, <1>7 DEF CallsExplored
<1>9. stack' # << >>
  BY <1>1, <1>4
<1> QED
  BY <1>8, <1>9 DEF Idle
\* A caller that goes on was inside an arc it found.
LEMMA FoundOnReturn ==
    ASSUME LookupInv, SearchInv, ~Idle, Len(stack) # 1, Return, UNCHANGED <<g, input>>
    PROVE  FoundMeans'
<1> PICK n \in Nat \ {0} : n = Len(stack)
  BY InnermostCall
<1> DEFINE f == stack[n - 1]
           h == Advanced(f)
<1>1. IsSequence(stack) /\ n > 1 /\ n - 1 \in 1 .. n /\ n - 1 \in 1 .. n - 1
  BY InnermostCall
<1>2. IsFrame(f) /\ f.step # "enter" /\ Placed(g, input, f, n - 1) /\ Inside(g, f)
      /\ IsGraph(g)
  BY <1>1, GraphsAssumption
  DEF LookupInv, Levels, SearchInv, CallsPlaced, Requested
<1>3. h.s = f.s /\ h.pos = f.pos /\ h.step = f.step /\ f.step \in {"zero", "symbol", "default"}
  BY <1>2 DEF Advanced, IsFrame
<1>4. top' = h
  <2>1. Front(stack)[n - 1] = f /\ Len(stack) - 1 = n - 1
    <3>1. PICK S : stack \in Seq(S)
      BY <1>1 DEF IsSequence
    <3> QED
      BY <1>1, <3>1 DEF Front
  <2>2. stack' = PoppedTo(stack, h)
    BY <1>1, <2>1 DEF Return, PoppedTo
  <2> HIDE DEF h
  <2>3. Len(stack') = n - 1 /\ stack'[n - 1] = h
    BY <1>1, <2>2, PopEffect
  <2> QED
    BY <2>3 DEF top, Last
<1> HIDE DEF h
<1>5. /\ ArcIn(g, f) \in Range(g.arcs[f.s])
      /\ f.step = "zero" => ArcIn(g, f).in \in Zero
      /\ f.step # "zero" => ArcIn(g, f).in = Head(f.trying)
  BY <1>2, <1>3, ArcInHolds
<1>6. f.step = "symbol" => Head(f.trying) \in Tried(input[f.pos])
  <2> SUFFICES ASSUME f.step = "symbol" PROVE Head(f.trying) \in Tried(input[f.pos])
    OBVIOUS
  <2> DEFINE T == Tried(input[f.pos])
  <2>1. f.trying \in Seq(T) /\ f.trying # << >>
    BY <1>2 DEF Placed, Reading, Inside
  <2> HIDE DEF T
  <2>2. Head(f.trying) \in T
    BY <2>1
  <2> QED
    BY <2>2 DEF T
<1> QED
  BY <1>3, <1>4, <1>5, <1>6 DEF FoundMeans

\* A call has covered where it began once it has been through all arcs that can be
\* followed from there.
LEMMA CoversAll ==
    ASSUME LookupInv, SearchInv, CallsExplored, ~Idle, top.step # "enter",
           \A a \in Range(g.arcs[top.s]) :
             Behind(g, input, top, a) \/ Past(g, input, Config(Len(stack)), a) = {}
    PROVE  Covered(g, input, results, Config(Len(stack)), MAX_RECURSION_DEPTH - Len(stack))
<1> PICK n \in Nat \ {0} : n = Len(stack)
  BY InnermostCall
<1> DEFINE c == Config(n)
           k == MAX_RECURSION_DEPTH - n
<1>1. top = stack[n] /\ c.s = top.s
  BY InnermostCall DEF Config
<1>2. k \in Int /\ MAX_RECURSION_DEPTH - 1 - n = k - 1
  BY LookupAssumption
<1>3. Explored(g, input, results, top, c, n)
  BY <1>1 DEF CallsExplored
<1> HIDE DEF c, k
<1>4. /\ Noted(g, input, results, c)
      /\ \A a \in Range(g.arcs[top.s]) : Behind(g, input, top, a) =>
           \A d \in Past(g, input, c, a) : Covered(g, input, results, d, k - 1)
  BY <1>2, <1>3 DEF Explored
<1>5. \A d \in Successors(g, input, c) : Covered(g, input, results, d, k - 1)
  <2> SUFFICES ASSUME NEW d \in Successors(g, input, c)
               PROVE  Covered(g, input, results, d, k - 1)
    OBVIOUS
  <2>1. PICK a \in Range(g.arcs[top.s]) : d \in Past(g, input, c, a)
    BY <1>1 DEF Successors
  <2>2. Behind(g, input, top, a)
    BY <2>1 DEF c
  <2> QED
    BY <1>4, <2>1, <2>2
<1>6. Covered(g, input, results, c, k)
  BY <1>2, <1>4, <1>5, CoveredByArcs
<1> QED
  BY <1>6 DEF c, k

\* A call returns, or the last one ends the search.
LEMMA ExploredEnds ==
    ASSUME LookupInv, SearchInv, LookupInv', ExploredInv, ConfigsFollow, ~Idle,
           UNCHANGED <<g, input, results, calls>>, CutShort => CutShort',
           IF Len(stack) = 1 THEN stack' = << >> ELSE Return,
           ~CutShort' => Covered(g, input, results, Config(Len(stack)),
                                 MAX_RECURSION_DEPTH - Len(stack))
    PROVE  ExploredInv'
<1>1. CallsFollow' /\ calls' \in Nat
  BY CallsStillFollow DEF ExploredInv
<1>2. CASE Len(stack) = 1
  <2>1. Idle' /\ stack' = << >> /\ Len(stack') = 0
    BY <1>2 DEF Idle
  <2>2. FoundMeans' /\ CallsExplored'
    BY <2>1 DEF FoundMeans, CallsExplored
  <2>3. ASSUME ~CutShort' PROVE SearchedAll'
    <3>1. Config(1) = Start
      <4>1. 1 \in 1 .. Len(stack) /\ 1 <= MAX_RECURSION_DEPTH /\ 1 - 1 = 0
        BY <1>2, LookupAssumption
      <4>2. Config(1) \in ReachedBy(g, input)[1 - 1]
        BY <4>1 DEF SearchInv, CallsReached, Begun
      <4> QED
        BY <4>1, <4>2, ReachedByIs
    <3>2. Covered(g, input, results, Start, MAX_RECURSION_DEPTH - 1)
      BY <1>2, <2>3, <3>1
    <3> QED
      BY <3>2 DEF SearchedAll
  <2> QED
    BY <1>1, <2>2, <2>3 DEF ExploredInv
<1>3. CASE Len(stack) # 1
  <2>1. Return
    BY <1>3
  <2>2. FoundMeans'
    BY <1>3, <2>1, FoundOnReturn
  <2>3. ASSUME ~CutShort' PROVE CallsExplored' /\ SearchedAll'
    <3>1. CallsExplored /\ CallsFollow
      BY <2>3 DEF ExploredInv
    <3>2. CallsExplored' /\ ~Idle'
      BY <1>3, <2>1, <2>3, <3>1, ExploredReturns
    <3> QED
      BY <3>2 DEF SearchedAll
  <2> QED
    BY <1>1, <2>2, <2>3 DEF ExploredInv
<1> QED
  BY <1>2, <1>3
-----------------------------------------------------------------------------
(* The actions *)

\* A flag arc is passed over although its operation succeeds and there is depth
\* left: "We've been here before at this input, back out."
BacksOut ==
    /\ ~Idle /\ depth # 0 /\ top.step = "zero" /\ top.i <= Len(Arcs(top))
    /\ Arc(top).in \in Flags /\ Allows(FlagOp[Arc(top).in], values)
    /\ Recorded \in visited

LEMMA ExploredBegins == LookupInv /\ LookupInv' /\ ExploredInv /\ Lookup => ExploredInv'
<1> SUFFICES ASSUME LookupInv, LookupInv', ExploredInv, Lookup PROVE ExploredInv'
  OBVIOUS
<1> DEFINE f == Frame(0, 0, 0)
<1>1. stack' = <<f>> /\ f.step = "enter" /\ calls' = calls + 1
  BY DEF Lookup, Frame
<1> HIDE DEF f
<1>2. Len(stack') = 1 /\ stack'[1] = f /\ stack' # << >>
  BY <1>1
<1>3. \A j \in 1 .. 1 - 1 : FALSE
  OBVIOUS
<1>4. CallsFollow' /\ FoundMeans' /\ SearchedAll'
  BY <1>1, <1>2, <1>3 DEF CallsFollow, FoundMeans, SearchedAll, Idle, top, Last
<1>5. CallsExplored'
  <2>1. \A j \in 1 .. 1 : stack'[j].step = "enter"
    BY <1>1, <1>2
  <2> QED
    BY <1>2, <2>1 DEF CallsExplored, Explored
<1> QED
  BY <1>1, <1>4, <1>5 DEF ExploredInv

LEMMA ExploredRefuses ==
    LookupInv /\ SearchInv /\ LookupInv' /\ ExploredInv /\ Refuse => ExploredInv'
<1> SUFFICES ASSUME LookupInv, SearchInv, LookupInv', ExploredInv, Refuse PROVE ExploredInv'
  OBVIOUS
<1>1. /\ ~Idle /\ top.step = "enter" /\ UNCHANGED <<g, input, limit, results, calls>>
      /\ IF Len(stack) = 1 THEN stack' = << >> ELSE Return
      /\ IF depth = 0 \/ Enough THEN late' = late ELSE late'
  BY DEF Refuse, request
<1>2. ConfigsFollow
  BY SearchRefuses
<1>3. Enough' = Enough
  BY <1>1 DEF Enough
<1>4. CutShort => CutShort'
  BY <1>1, <1>3 DEF CutShort
<1>5. ASSUME ~CutShort'
      PROVE  Covered(g, input, results, Config(Len(stack)), MAX_RECURSION_DEPTH - Len(stack))
  <2>1. depth = 0
    BY <1>1, <1>3, <1>5 DEF CutShort
  <2>2. PICK n \in Nat \ {0} : n = Len(stack) /\ top = stack[n] /\ stack # << >>
    BY <1>1, InnermostCall
  <2>3. depth = MAX_RECURSION_DEPTH - n + 1
    BY <1>1, <2>2 DEF LookupInv, Levels
  <2>4. MAX_RECURSION_DEPTH - n \in Int /\ MAX_RECURSION_DEPTH - n < 0
    BY <2>1, <2>3, LookupAssumption
  <2> QED
    BY <2>2, <2>4, CoveredBeyond
<1> QED
  BY <1>1, <1>2, <1>4, <1>5, ExploredEnds

LEMMA ExploredEnters ==
    LookupInv /\ SearchInv /\ LookupInv' /\ ExploredInv /\ Enter => ExploredInv'
<1> SUFFICES ASSUME LookupInv, SearchInv, LookupInv', ExploredInv, Enter PROVE ExploredInv'
  OBVIOUS
<1> PICK n \in Nat \ {0} : n = Len(stack)
  BY InnermostCall DEF Enter
<1> DEFINE h == [top EXCEPT !.step = "zero"]
           c == Config(n)
<1>1. /\ ~Idle /\ top.step = "enter" /\ ~Enough /\ ReadClock /\ ~late' /\ found' = FALSE
      /\ UNCHANGED <<g, input, limit, calls>> /\ results \subseteq results'
      /\ top = stack[n] /\ IsFrame(top)
  BY InnermostCall DEF Enter, request
<1>2. ConfigsFollow
  BY SearchEnters
<1>3. CallsFollow'
  BY <1>1, <1>2, CallsStillFollow DEF ExploredInv
<1>4. CallsExplored
  <2>1. ~late
    BY <1>1 DEF ReadClock, SearchInv, Requested
  <2> QED
    BY <1>1, <2>1 DEF ExploredInv, CutShort
<1>5. h = [s |-> top.s, pos |-> top.pos, out |-> top.out, step |-> "zero", i |-> top.i,
           trying |-> top.trying, weight |-> top.weight, values |-> top.values]
  BY <1>1 DEF IsFrame
<1>6. stack' = [stack EXCEPT ![Len(stack)] = h]
  BY <1>1 DEF Enter
<1>7. top.i = 1 /\ c.s = top.s /\ c.pos = top.pos
  <2>1. Placed(g, input, top, n)
    BY <1>1, InnermostPlaced
  <2> QED
    BY <1>1, <2>1 DEF Placed, Config, PositionOf
<1>8. Noted(g, input, results', c)
  <2> SUFFICES ASSUME Accepted(g, input, c) PROVE AnalysisAt(g, c) \in results'
    BY DEF Noted
  <2>1. AtEnd(top) /\ top.s \in DOMAIN g.final
    BY <1>7 DEF Accepted, AtEnd
  <2>2. /\ tape' = Write(top.out, Terminator)
        /\ Analysis(tape', weight + g.final[top.s]) \in results'
    BY <2>1 DEF Enter
  <2> QED
    BY <1>1, <2>2, AnalysisOfConfig DEF AnalysisAt
<1> HIDE DEF h, c
<1>9. \A a : ~Behind(g, input, h, a)
  <2>1. h.step = "zero" /\ \A i \in 1 .. h.i - 1 : FALSE
    BY <1>5, <1>7
  <2> QED
    BY <2>1 DEF Behind
<1>10. Explored(g, input, results', h, c, n)
  BY <1>8, <1>9 DEF Explored
<1>11. CallsExplored' /\ ~Idle'
  BY <1>1, <1>2, <1>4, <1>6, <1>10, ExploredTopMoves DEF c
<1> QED
  BY <1>1, <1>3, <1>11 DEF ExploredInv, FoundMeans, SearchedAll

\* An arc is taken: the callee has yet to begin.
LEMMA ExploredTakes ==
    ASSUME LookupInv, SearchInv, LookupInv', ExploredInv, ConfigsFollow, ~Idle,
           NEW pair, Call(pair), UNCHANGED <<request, late, results>>
    PROVE  ExploredInv'
<1>1. UNCHANGED <<g, input, limit, calls>>
  BY DEF request
<1>2. CallsFollow' /\ CutShort' = CutShort
  BY <1>1, CallsStillFollow DEF ExploredInv, CutShort, Enough
<1>3. top'.step = "enter" /\ ~Idle'
  <2>1. IsSequence(stack) /\ stack # << >>
    BY InnermostCall
  <2> DEFINE caller == [top EXCEPT !.weight = weight, !.values = values]
             callee == Frame(Arc(top).to, top.pos, top.out + 1)
  <2>2. stack' = Pushed(stack, caller, callee) /\ callee.step = "enter"
    BY DEF Call, Pushed, Frame
  <2> HIDE DEF caller, callee
  <2>3. Len(stack') = Len(stack) + 1 /\ stack'[Len(stack) + 1] = callee
        /\ Len(stack) \in Nat
    BY <2>1, <2>2, PushEffect DEF IsSequence
  <2> QED
    BY <2>2, <2>3 DEF top, Last, Idle
<1>4. CASE CallsExplored
  BY <1>1, <1>2, <1>3, <1>4, ExploredCalls DEF ExploredInv, FoundMeans, SearchedAll
<1>5. CASE CutShort
  BY <1>1, <1>2, <1>3, <1>5 DEF ExploredInv, FoundMeans
<1> QED
  BY <1>4, <1>5 DEF ExploredInv

LEMMA ExploredTakesArc ==
    LookupInv /\ SearchInv /\ LookupInv' /\ ExploredInv
      /\ (TakeEpsilon \/ TakeFlag \/ TakeSymbol) => ExploredInv'
BY SearchTakesEpsilon, SearchTakesFlag, SearchTakesSymbol, ExploredTakes
DEF TakeEpsilon, TakeFlag, TakeSymbol
\* The innermost call moves on to where it is accountable for no more.
LEMMA ExploredMoves ==
    ASSUME LookupInv, SearchInv, LookupInv', ExploredInv, ConfigsFollow, ~Idle, NEW h,
           stack' = [stack EXCEPT ![Len(stack)] = h], UNCHANGED <<request, late, results>>,
           FoundMeans',
           CallsExplored => Explored(g, input, results, h, Config(Len(stack)), Len(stack))
    PROVE  ExploredInv'
<1>1. UNCHANGED <<g, input, limit, calls>> /\ results \subseteq results'
  BY DEF request
<1>2. CallsFollow' /\ CutShort' = CutShort
  BY <1>1, CallsStillFollow DEF ExploredInv, CutShort, Enough
<1>3. CASE CallsExplored
  <2>1. CallsExplored' /\ ~Idle'
    BY <1>1, <1>3, ExploredTopMoves
  <2> QED
    BY <1>1, <1>2, <2>1 DEF ExploredInv, SearchedAll
<1>4. CASE CutShort
  BY <1>1, <1>2, <1>4 DEF ExploredInv
<1> QED
  BY <1>3, <1>4 DEF ExploredInv

LEMMA ExploredSkips ==
    LookupInv /\ SearchInv /\ LookupInv' /\ ExploredInv /\ ~BacksOut /\ SkipFlag
      => ExploredInv'
<1> SUFFICES ASSUME LookupInv, SearchInv, LookupInv', ExploredInv, ~BacksOut, SkipFlag
             PROVE  ExploredInv'
  OBVIOUS
<1> PICK n \in Nat \ {0} : n = Len(stack)
  BY InnermostCall DEF SkipFlag
<1> DEFINE h == Advanced(top)
           c == Config(n)
           a == ArcIn(g, top)
<1>1. /\ ~Idle /\ top.step = "zero" /\ top.i <= Len(Arcs(top)) /\ a.in \in Flags
      /\ UNCHANGED <<request, late, results>> /\ UNCHANGED <<g, input, found>>
  BY ArcIsArcIn DEF SkipFlag, request, object
<1>2. /\ top = stack[n] /\ IsFrame(top) /\ Placed(g, input, top, n)
      /\ IsGraph(g) /\ top.s \in 0 .. g.n - 1
  BY <1>1, InnermostCall, InnermostPlaced
<1>3. ~Allows(FlagOp[a.in], values) \/ depth = 0
  BY <1>1, ArcIsArcIn DEF SkipFlag, BacksOut
<1>4. c.values = values /\ a.in # 0
  BY <1>1, SymbolsAssumption DEF Config, ValuesAt
<1>5. \A d \in Past(g, input, c, a) :
        Covered(g, input, results, d, MAX_RECURSION_DEPTH - 1 - n)
  <2>1. CASE ~Allows(FlagOp[a.in], values)
    <3>1. Past(g, input, c, a) = {}
      BY <1>1, <1>4, <2>1 DEF Past
    <3> QED
      BY <3>1
  <2>2. CASE depth = 0
    <3>1. stack # << >>
      BY <1>1 DEF Idle
    <3>2. depth = MAX_RECURSION_DEPTH - n
      BY <1>1, <1>2, <3>1, LookupAssumption DEF LookupInv, Levels
    <3>3. MAX_RECURSION_DEPTH - 1 - n \in Int /\ MAX_RECURSION_DEPTH - 1 - n < 0
      BY <2>2, <3>2, LookupAssumption
    <3> QED
      BY <3>3, CoveredBeyond
  <2> QED
    BY <1>3, <2>1, <2>2
<1>6. h = [s |-> top.s, pos |-> top.pos, out |-> top.out, step |-> top.step,
           i |-> top.i + 1, trying |-> top.trying, weight |-> top.weight,
           values |-> top.values]
  BY <1>2 DEF IsFrame, Advanced
<1>7. stack' = [stack EXCEPT ![Len(stack)] = h]
  BY <1>2 DEF SkipFlag
<1> HIDE DEF h
<1>8. top.i \in Nat
  BY <1>1, <1>2, ArcsHold DEF Placed
<1>9. CallsExplored => Explored(g, input, results, h, c, n)
  <2> SUFFICES ASSUME CallsExplored PROVE Explored(g, input, results, h, c, n)
    OBVIOUS
  <2>1. Explored(g, input, results, top, c, n)
    BY <1>2 DEF CallsExplored
  <2> HIDE DEF c
  <2>2. /\ h.i = top.i + 1 /\ h.s = top.s /\ h.pos = top.pos /\ h.step = top.step
        /\ h.trying = top.trying
    BY <1>6
  <2> QED
    BY <1>1, <1>5, <1>8, <2>1, <2>2, AdvancedExplored
<1>10. ConfigsFollow
  BY SearchSkips
<1>11. FoundMeans'
  <2>1. top' = h
    <3>1. IsSequence(stack) /\ stack # << >> /\ stack' = Retopped(stack, h)
      BY <1>1, <1>7, InnermostCall DEF Retopped
    <3>2. Len(stack') = n /\ stack'[n] = h
      BY <3>1, TopEffect
    <3> QED
      BY <3>2 DEF top, Last
  <2>2. ArcIn(g, top) \in Range(g.arcs[top.s]) /\ ArcIn(g, top).in \in Zero
    BY <1>1, <1>2, ArcInHolds DEF Inside, Arcs
  <2> QED
    BY <1>1, <1>6, <2>1, <2>2 DEF FoundMeans
<1> QED
  BY <1>1, <1>7, <1>9, <1>10, <1>11, ExploredMoves

\* What a call that has read nothing yet has been through: all epsilon and flag arcs.
LEMMA ZeroBehind ==
    ASSUME LookupInv, SearchInv, ~Idle, top.step = "zero", top.i > Len(Arcs(top)),
           NEW a \in Range(g.arcs[top.s]), a.in \in Zero
    PROVE  Behind(g, input, top, a)
<1>1. IsGraph(g) /\ top.s \in 0 .. g.n - 1 /\ Placed(g, input, top, Len(stack))
  BY InnermostPlaced
<1>2. Len(ZeroArcs(g, top.s)) \in Nat /\ Arcs(top) = ZeroArcs(g, top.s)
  BY <1>1, ArcsHold DEF Arcs
<1>3. PICK i \in 1 .. Len(ZeroArcs(g, top.s)) : ZeroArcs(g, top.s)[i] = a
  <2>1. \A b \in Range(g.arcs[top.s]) : b.in \in Zero =>
            \E i \in 1 .. Len(ZeroArcs(g, top.s)) : ZeroArcs(g, top.s)[i] = b
    BY <1>1, ArcsHold
  <2> QED
    BY <2>1
<1>4. top.i \in Nat /\ i \in 1 .. top.i - 1
  BY <1>1, <1>2 DEF Placed
<1> QED
  BY <1>3, <1>4 DEF Behind

\* A call is through the arcs of the symbol it is trying.
LEMMA TryingBehind ==
    ASSUME LookupInv, SearchInv, ~Idle, top.step \in {"symbol", "default"},
           Exhausted(top), top.trying # << >>, NEW a \in Range(g.arcs[top.s]),
           a.in \notin Zero, a.in = Head(top.trying)
    PROVE  Behind(g, input, top, a)
<1>1. IsGraph(g) /\ top.s \in 0 .. g.n - 1 /\ Placed(g, input, top, Len(stack))
  BY InnermostPlaced
<1> DEFINE y == Head(top.trying)
           arcs == ArcsFor(g, top.s, y)
<1>2. a.in = y /\ Arcs(top) = arcs
  BY DEF Arcs
<1> HIDE DEF y
<1>3. Len(arcs) \in Nat /\ \E i \in 1 .. Len(arcs) : arcs[i] = a
  BY <1>1, <1>2, ArcsForHold
<1>4. PICK i \in 1 .. Len(arcs) : arcs[i] = a
  BY <1>3
<1>5. top.i \in 1 .. Len(arcs) + 1 /\ top.i > Len(arcs)
  BY <1>1, <1>2 DEF Placed, Reading, Exhausted, y
<1> HIDE DEF arcs
<1>6. i \in 1 .. top.i - 1
  BY <1>3, <1>5
<1> QED
  BY <1>4, <1>6 DEF Behind, arcs, y
LEMMA ExploredReads ==
    LookupInv /\ SearchInv /\ LookupInv' /\ ExploredInv /\ ReadInput => ExploredInv'
<1> SUFFICES ASSUME LookupInv, SearchInv, LookupInv', ExploredInv, ReadInput
             PROVE  ExploredInv'
  OBVIOUS
<1> PICK n \in Nat \ {0} : n = Len(stack)
  BY InnermostCall DEF ReadInput
<1> DEFINE c == Config(n)
<1>1. /\ ~Idle /\ top.step = "zero" /\ top.i > Len(Arcs(top))
      /\ UNCHANGED <<request, late, results>> /\ UNCHANGED <<g, input, limit, calls>>
  BY DEF ReadInput, request
<1>2. /\ top = stack[n] /\ IsFrame(top) /\ Placed(g, input, top, n) /\ top.pos \in Int
      /\ IsGraph(g) /\ top.s \in 0 .. g.n - 1 /\ input \in Seq(Nat \ Zero)
      /\ IsSequence(stack) /\ stack # << >>
  BY <1>1, InnermostCall, InnermostPlaced
<1>3. c.s = top.s /\ c.pos = top.pos
  BY <1>1, <1>2 DEF Config, PositionOf
<1>4. ConfigsFollow
  BY SearchReads
<1>5. CASE AtEnd(top)
  <2>1. Return
    BY <1>5 DEF ReadInput
  <2>2. CutShort' = CutShort
    BY <1>1 DEF CutShort, Enough
  <2>3. ASSUME ~CutShort'
        PROVE  Covered(g, input, results, c, MAX_RECURSION_DEPTH - n)
    <3>1. CallsExplored
      BY <2>2, <2>3 DEF ExploredInv
    <3>2. \A a \in Range(g.arcs[top.s]) :
            Behind(g, input, top, a) \/ Past(g, input, c, a) = {}
      <4> SUFFICES ASSUME NEW a \in Range(g.arcs[top.s])
                   PROVE  Behind(g, input, top, a) \/ Past(g, input, c, a) = {}
        OBVIOUS
      <4>1. CASE a.in \in Zero
        BY <1>1, <4>1, ZeroBehind
      <4>2. CASE a.in \notin Zero
        <5>1. ~(c.pos < Len(input))
          BY <1>2, <1>3, <1>5 DEF AtEnd
        <5> QED
          BY <4>2, <5>1 DEF Past, Zero
      <4> QED
        BY <4>1, <4>2
    <3> QED
      BY <1>1, <3>1, <3>2, CoversAll
  <2>4. IF Len(stack) = 1 THEN stack' = << >> ELSE Return
    BY <2>1 DEF Return
  <2> QED
    BY <1>1, <1>4, <2>2, <2>3, <2>4, ExploredEnds
<1>6. CASE ~AtEnd(top)
  <2> DEFINE x == input[top.pos + 1]
             trying == Matches(x)
             h == [top EXCEPT !.step = "symbol", !.pos = @ + 1, !.i = 1, !.trying = trying]
  <2>1. /\ stack' = [stack EXCEPT ![Len(stack)] = h]
        /\ found' = (found \/ (Indexed(g, top.s) /\ Arcs(top) # << >>))
    BY <1>2, <1>6 DEF ReadInput
  <2>2. x \in Nat \ Zero
    <3>1. top.pos \in 0 .. Len(input) /\ top.pos # Len(input) /\ Len(input) \in Nat
      BY <1>2, <1>6 DEF Placed, AtEnd
    <3>2. top.pos + 1 \in 1 .. Len(input)
      BY <3>1
    <3> QED
      BY <1>2, <3>2
  <2> HIDE DEF x
  <2>3. Tried(x) \subseteq Range(trying)
    BY <2>2, MatchesAreTried
  <2> HIDE DEF trying
  <2>4. h = [s |-> top.s, pos |-> top.pos + 1, out |-> top.out, step |-> "symbol",
             i |-> 1, trying |-> trying, weight |-> top.weight, values |-> top.values]
    BY <1>2, ControlMoved, ZenonT(40)
  <2> HIDE DEF h
  <2>5. h.s = top.s /\ h.step = "symbol" /\ h.i = 1 /\ h.trying = trying /\ input[h.pos] = x
    BY <2>4 DEF x
  <2>6. ASSUME NEW a \in Range(g.arcs[top.s]), Behind(g, input, h, a)
        PROVE  Behind(g, input, top, a)
    <3>1. CASE a.in \in Zero
      BY <1>1, <3>1, ZeroBehind
    <3>2. CASE a.in \notin Zero
      <4>1. \A i \in 1 .. h.i - 1 : FALSE
        BY <2>5
      <4> QED
        BY <2>3, <2>5, <2>6, <3>2, <4>1 DEF Behind
    <3> QED
      BY <3>1, <3>2
  <2>7. CallsExplored => Explored(g, input, results, h, c, n)
    <3> SUFFICES ASSUME CallsExplored PROVE Explored(g, input, results, h, c, n)
      OBVIOUS
    <3>1. Explored(g, input, results, top, c, n)
      BY <1>2 DEF CallsExplored
    <3> QED
      BY <1>1, <2>5, <2>6, <3>1 DEF Explored
  <2>8. FoundMeans'
    <3>1. top' = h
      <4>1. stack' = Retopped(stack, h)
        BY <2>1 DEF Retopped
      <4>2. Len(stack') = n /\ stack'[n] = h
        BY <1>2, <4>1, TopEffect
      <4> QED
        BY <4>2 DEF top, Last
    <3>2. ASSUME found' PROVE \E b \in Range(g.arcs[top.s]) : b.in \in Zero
      <4>1. CASE found
        BY <1>1, <4>1 DEF ExploredInv, FoundMeans
      <4>2. CASE Arcs(top) # << >>
        <5>1. ZeroArcs(g, top.s) # << >>
          BY <1>1, <4>2 DEF Arcs
        <5> QED
          BY <1>2, <5>1, ArcsHold
      <4> QED
        BY <2>1, <3>2, <4>1, <4>2
    <3> QED
      BY <1>1, <2>5, <3>1, <3>2 DEF FoundMeans
  <2> QED
    BY <1>1, <1>4, <2>1, <2>7, <2>8, ExploredMoves
<1> QED
  BY <1>5, <1>6

\* A call goes on to the next symbol when it is through the arcs of this one.
LEMMA ExploredTriesNext ==
    LookupInv /\ SearchInv /\ LookupInv' /\ ExploredInv /\ TryNext => ExploredInv'
<1> SUFFICES ASSUME LookupInv, SearchInv, LookupInv', ExploredInv, TryNext
             PROVE  ExploredInv'
  OBVIOUS
<1> PICK n \in Nat \ {0} : n = Len(stack)
  BY InnermostCall DEF TryNext
<1> DEFINE c == Config(n)
<1>1. /\ ~Idle /\ top.step \in {"symbol", "default"} /\ Exhausted(top)
      /\ UNCHANGED <<request, late, results>> /\ UNCHANGED <<g, input, found>>
  BY DEF TryNext, request, object
<1>2. /\ top = stack[n] /\ IsFrame(top) /\ Placed(g, input, top, n)
      /\ IsSequence(stack) /\ stack # << >>
  BY <1>1, InnermostCall, InnermostPlaced
<1>3. Reading(g, input, top)
  BY <1>1, <1>2 DEF Placed
<1>4. ConfigsFollow
  BY SearchTriesNext
<1>5. PICK h : /\ stack' = [stack EXCEPT ![Len(stack)] = h]
               /\ h.s = top.s /\ h.pos = top.pos /\ h.step \in {"symbol", "default"}
               /\ h.step = "symbol" => top.step = "symbol"
               /\ \A a \in Range(g.arcs[top.s]) :
                    a.in \notin Zero /\ Behind(g, input, h, a) => Behind(g, input, top, a)
  <2>1. CASE /\ Len(top.trying) > 1
             /\ stack' = [stack EXCEPT ![Len(stack)] = [top EXCEPT !.trying = Tail(@), !.i = 1]]
    <3> DEFINE rest == Tail(top.trying)
               h == [top EXCEPT !.trying = rest, !.i = 1]
    <3>1. stack' = [stack EXCEPT ![Len(stack)] = h]
      BY <1>2, <2>1
    <3>2. top.step = "symbol" /\ top.trying \in Seq(Tried(input[top.pos]))
      <4>1. top.step = "default" => top.trying = <<DEFAULT>>
        BY <1>3 DEF Reading
      <4>2. ~(Len(<<DEFAULT>>) > 1)
        OBVIOUS
      <4>3. top.step = "symbol"
        BY <1>1, <2>1, <4>1, <4>2
      <4> QED
        BY <1>3, <4>3 DEF Reading
    <3>3. /\ top.trying # << >>
          /\ \A m \in Range(top.trying) : m = Head(top.trying) \/ m \in Range(rest)
      <4> DEFINE t == top.trying
                 T == Tried(input[top.pos])
      <4>1. t \in Seq(T) /\ Len(t) > 1
        BY <2>1, <3>2
      <4> HIDE DEF t, T
      <4>2. /\ Tail(t) \in Seq(T) /\ Len(Tail(t)) = Len(t) - 1 /\ t # << >>
            /\ Head(t) = t[1] /\ \A i \in 1 .. Len(t) - 1 : Tail(t)[i] = t[i + 1]
            /\ Len(t) \in Nat
        BY <4>1
      <4>3. ASSUME NEW m \in Range(t) PROVE m = Head(t) \/ m \in Range(Tail(t))
        <5>1. DOMAIN t = 1 .. Len(t) /\ DOMAIN Tail(t) = 1 .. Len(t) - 1
          BY <4>1, <4>2
        <5>2. PICK i \in 1 .. Len(t) : m = t[i]
          BY <4>3, <5>1 DEF Range
        <5>3. CASE i = 1
          BY <4>2, <5>2, <5>3
        <5>4. CASE i # 1
          <6>1. i - 1 \in 1 .. Len(t) - 1 /\ i - 1 + 1 = i
            BY <4>2, <5>4
          <6>2. Tail(t)[i - 1] = m
            BY <4>2, <5>2, <6>1
          <6> QED
            BY <5>1, <6>1, <6>2 DEF Range
        <5> QED
          BY <5>3, <5>4
      <4> QED
        BY <4>2, <4>3 DEF t
    <3> HIDE DEF rest
    <3>4. h = [s |-> top.s, pos |-> top.pos, out |-> top.out, step |-> top.step, i |-> 1,
               trying |-> rest, weight |-> top.weight, values |-> top.values]
      BY <1>2, ControlMoved
    <3> HIDE DEF h
    <3>5. ASSUME NEW a \in Range(g.arcs[top.s]), a.in \notin Zero, Behind(g, input, h, a)
          PROVE  Behind(g, input, top, a)
      <4>1. \A i \in 1 .. h.i - 1 : FALSE
        BY <3>4
      <4>2. a.in \in Tried(input[top.pos]) /\ a.in \notin Range(rest)
        BY <3>4, <3>5, <4>1 DEF Behind
      <4>3. CASE a.in \in Range(top.trying)
        BY <1>1, <3>3, <3>5, <4>2, <4>3, TryingBehind
      <4>4. CASE a.in \notin Range(top.trying)
        BY <3>2, <3>5, <4>2, <4>4 DEF Behind
      <4> QED
        BY <4>3, <4>4
    <3>6. h.s = top.s /\ h.pos = top.pos /\ h.step = "symbol"
      BY <3>2, <3>4
    <3> QED
      BY <3>1, <3>2, <3>5, <3>6
  <2>2. CASE /\ top.step = "symbol"
             /\ stack' = [stack EXCEPT ![Len(stack)] =
                            [top EXCEPT !.step = "default", !.trying = <<DEFAULT>>, !.i = 1]]
    <3> DEFINE rest == <<DEFAULT>>
               h == [top EXCEPT !.step = "default", !.trying = rest, !.i = 1]
    <3>1. stack' = [stack EXCEPT ![Len(stack)] = h]
      BY <1>2, <2>2
    <3> HIDE DEF rest
    <3>2. h = [s |-> top.s, pos |-> top.pos, out |-> top.out, step |-> "default", i |-> 1,
               trying |-> rest, weight |-> top.weight, values |-> top.values]
      BY <1>2, ControlMoved
    <3> HIDE DEF h
    <3>3. h.s = top.s /\ h.pos = top.pos /\ h.step = "default" /\ h.i = 1
      BY <3>2
    <3>4. \A i \in 1 .. h.i - 1 : FALSE
      BY <3>3
    <3>5. \A a : a.in \notin Zero => ~Behind(g, input, h, a)
      BY <3>3, <3>4 DEF Behind
    <3> QED
      BY <3>1, <3>3, <3>5
  <2> QED
    BY <2>1, <2>2 DEF TryNext
<1>6. CallsExplored => Explored(g, input, results, h, c, n)
  <2> SUFFICES ASSUME CallsExplored PROVE Explored(g, input, results, h, c, n)
    OBVIOUS
  <2>1. Explored(g, input, results, top, c, n)
    BY <1>2 DEF CallsExplored
  <2>2. ASSUME NEW a \in Range(g.arcs[top.s]), Behind(g, input, h, a)
        PROVE  Behind(g, input, top, a)
    <3>1. CASE a.in \in Zero
      BY <1>1, <3>1 DEF Behind
    <3> QED
      BY <1>5, <2>2, <3>1
  <2> QED
    BY <1>1, <1>5, <2>1, <2>2 DEF Explored
<1>7. FoundMeans'
  <2>1. top' = h
    <3>1. stack' = Retopped(stack, h)
      BY <1>5 DEF Retopped
    <3>2. Len(stack') = n /\ stack'[n] = h
      BY <1>2, <3>1, TopEffect
    <3> QED
      BY <3>2 DEF top, Last
  <2> QED
    BY <1>1, <1>5, <2>1 DEF ExploredInv, FoundMeans
<1> QED
  BY <1>1, <1>4, <1>5, <1>6, <1>7, ExploredMoves
\* A call that leaves has been through every arc that the input can follow.
LEMMA ExploredLeaves ==
    LookupInv /\ SearchInv /\ LookupInv' /\ ExploredInv /\ Leave => ExploredInv'
<1> SUFFICES ASSUME LookupInv, SearchInv, LookupInv', ExploredInv, Leave PROVE ExploredInv'
  OBVIOUS
<1> PICK n \in Nat \ {0} : n = Len(stack)
  BY InnermostCall DEF Leave
<1> DEFINE c == Config(n)
           x == input[top.pos]
<1>1. /\ ~Idle /\ top.step \in {"symbol", "default"} /\ Exhausted(top)
      /\ Len(top.trying) <= 1
      /\ top.step = "default" \/ DEFAULT = NO_SYMBOL \/ found
      /\ Return /\ UNCHANGED <<g, input, limit, calls, late, results>>
  BY DEF Leave, request
<1>2. /\ top = stack[n] /\ Placed(g, input, top, n) /\ top.pos \in Int
      /\ IsGraph(g) /\ top.s \in 0 .. g.n - 1
  BY <1>1, InnermostCall, InnermostPlaced
<1>3. Reading(g, input, top)
  BY <1>1, <1>2 DEF Placed
<1>4. c.s = top.s /\ c.pos + 1 = top.pos
  BY <1>1, <1>2 DEF Config, PositionOf
<1>5. CutShort' = CutShort
  BY <1>1 DEF CutShort, Enough
<1> HIDE DEF c
<1>6. ASSUME NEW a \in Range(g.arcs[top.s])
      PROVE  Behind(g, input, top, a) \/ Past(g, input, c, a) = {}
  <2>1. CASE a.in \in Zero
    BY <1>1, <2>1 DEF Behind
  <2>2. CASE a.in \notin Zero
    <3> SUFFICES ASSUME Past(g, input, c, a) # {} PROVE Behind(g, input, top, a)
      OBVIOUS
    <3>1. Consumes(g, top.s, a, x)
      BY <1>4, <2>2 DEF Past, Zero
    <3>2. a.in \in Nat
      <4>1. AnArc(g, a)
        BY <1>2, ArcsAreArcs
      <4> QED
        BY <4>1, SymbolsAssumption DEF AnArc
    <3>3. CASE top.step = "symbol" /\ a.in \in Tried(x)
      <4>1. CASE a.in \notin Range(top.trying)
        BY <2>2, <3>3, <4>1 DEF Behind
      <4>2. CASE a.in \in Range(top.trying)
        <5> DEFINE t == top.trying
                   T == Tried(x)
        <5>1. t \in Seq(T) /\ Len(t) <= 1
          BY <1>1, <1>3, <3>3 DEF Reading
        <5> HIDE DEF t, T
        <5>2. PICK i \in 1 .. Len(t) : a.in = t[i]
          BY <4>2, <5>1 DEF Range, t
        <5>3. t # << >> /\ a.in = Head(t)
          BY <5>1, <5>2
        <5> QED
          BY <1>1, <2>2, <5>3, TryingBehind DEF t
      <4> QED
        BY <4>1, <4>2
    <3>4. CASE top.step = "default" /\ a.in \in Tried(x)
      BY <1>3, <3>4 DEF Reading, NothingStarts
    <3>5. CASE a.in \notin Tried(x)
      <4>1. a.in = DEFAULT
            /\ \A b \in Range(g.arcs[top.s]) : b.in \notin Zero /\ ~StartsOn(b, x)
        BY <3>1, <3>2, <3>5, StartsOnTried DEF Consumes
      <4>2. CASE top.step = "default"
        <5>1. top.trying = <<DEFAULT>>
          BY <1>3, <4>2 DEF Reading
        <5>2. top.trying # << >> /\ Head(top.trying) = DEFAULT
          BY <5>1
        <5> QED
          BY <1>1, <2>2, <4>1, <5>2, TryingBehind
      <4>3. CASE DEFAULT = NO_SYMBOL
        BY <3>2, <4>1, <4>3, SymbolsAssumption
      <4>4. CASE top.step = "symbol" /\ found
        <5>1. PICK b \in Range(g.arcs[top.s]) : b.in \in Zero \/ b.in \in Tried(x)
          BY <1>1, <4>4 DEF ExploredInv, FoundMeans
        <5>2. b.in \in Nat
          <6>1. AnArc(g, b)
            BY <1>2, ArcsAreArcs
          <6> QED
            BY <6>1, SymbolsAssumption DEF AnArc
        <5> QED
          BY <4>1, <5>1, <5>2, StartsOnTried
      <4> QED
        BY <1>1, <4>2, <4>3, <4>4
    <3> QED
      BY <1>1, <3>3, <3>4, <3>5
  <2> QED
    BY <2>1, <2>2
<1>7. ASSUME ~CutShort'
      PROVE  Covered(g, input, results, c, MAX_RECURSION_DEPTH - n)
  <2>1. CallsExplored
    BY <1>5, <1>7 DEF ExploredInv
  <2> QED
    BY <1>1, <1>6, <2>1, CoversAll DEF c
<1>8. ConfigsFollow
  BY SearchLeaves
<1>9. IF Len(stack) = 1 THEN stack' = << >> ELSE Return
  BY <1>1 DEF Return
<1> QED
  BY <1>1, <1>5, <1>7, <1>8, <1>9, ExploredEnds DEF c

LEMMA ExploredStarts == Init => ExploredInv
<1> SUFFICES ASSUME Init PROVE ExploredInv
  OBVIOUS
<1>1. stack = << >> /\ Len(stack) = 0 /\ calls = 0 /\ Idle
  BY DEF Init, Idle
<1> QED
  BY <1>1 DEF ExploredInv, CallsFollow, FoundMeans, CallsExplored, SearchedAll

LEMMA ExploredStutters == ExploredInv /\ UNCHANGED vars => ExploredInv'
<1> SUFFICES ASSUME ExploredInv, UNCHANGED vars PROVE ExploredInv'
  OBVIOUS
<1>1. UNCHANGED <<g, input, limit, late, stack, tape, weight, values, found, results, calls>>
  BY DEF vars, request, object
<1>2. \A j : Config(j)' = Config(j)
  BY <1>1 DEF Config, WeightAt, ValuesAt
<1>3. CallsFollow' /\ CallsExplored' = CallsExplored
  BY <1>1, <1>2 DEF ExploredInv, CallsFollow, CallsExplored
<1>4. FoundMeans' /\ SearchedAll' = SearchedAll /\ CutShort' = CutShort
  BY <1>1 DEF ExploredInv, FoundMeans, SearchedAll, CutShort, Enough, Idle, top, Last
<1> QED
  BY <1>1, <1>3, <1>4 DEF ExploredInv

\* As long as no call backs out of a flag arc, every call has noted all that the arcs
\* it has been through lead to, unless the clock or the limit has cut the search short.
THEOREM ExploredHolds == Spec /\ []~BacksOut => []ExploredInv
<1>1. Init => ExploredInv
  BY ExploredStarts
<1>2. (LookupInv /\ SearchInv) /\ (LookupInv /\ SearchInv)' /\ ExploredInv /\ ~BacksOut
        /\ [Next]_vars => ExploredInv'
  BY ExploredBegins, ExploredRefuses, ExploredEnters, ExploredTakesArc, ExploredSkips,
     ExploredReads, ExploredTriesNext, ExploredLeaves, ExploredStutters DEF Next, Step
<1> QED
  BY <1>1, <1>2, SearchInvHolds, PTL DEF Spec
-----------------------------------------------------------------------------
(* There are finitely many analyses *)

\* What one arc leads to is a state of the graph, and there are finitely many.
LEMMA FewSuccessors ==
    ASSUME NEW gr, IsGraph(gr), NEW inp, NEW c, c.s \in 0 .. gr.n - 1
    PROVE  /\ IsFiniteSet(Successors(gr, inp, c))
           /\ \A d \in Successors(gr, inp, c) : d.s \in 0 .. gr.n - 1
<1> DEFINE R == Range(gr.arcs[c.s])
           f == [a \in R |-> Past(gr, inp, c, a)]
<1>1. IsFiniteSet(R)
  <2> DEFINE p == gr.arcs[c.s]
             S == DOMAIN p
  <2>1. S = 1 .. Len(p) /\ 1 \in Int /\ Len(p) \in Int
    <3>1. p \in Seq(R) /\ Len(p) \in Nat
      BY ArcsAreArcs
    <3> QED
      BY <3>1
  <2>2. IsFiniteSet(1 .. Len(p))
    <3> HIDE DEF p
    <3> QED
      BY <2>1, FS_Interval
  <2>3. IsFiniteSet(S)
    BY <2>1, <2>2
  <2> HIDE DEF S, p
  <2>4. IsFiniteSet({p[x] : x \in S})
    BY <2>3, FiniteImage
  <2> QED
    BY <2>4 DEF S, p, Range
<1>2. \A a \in R : IsFiniteSet(f[a])
  <2> SUFFICES ASSUME NEW a \in R PROVE IsFiniteSet(Past(gr, inp, c, a))
    OBVIOUS
  <2>1. IsFiniteSet({}) /\ \A x : IsFiniteSet({x})
    BY FS_EmptySet, FS_Singleton
  <2> QED
    BY <2>1 DEF Past
<1>3. IsFiniteSet(UNION {f[a] : a \in R})
  <2> HIDE DEF f, R
  <2> QED
    BY <1>1, <1>2, FiniteUnion
<1>4. Successors(gr, inp, c) = UNION {f[a] : a \in R}
  BY DEF Successors
<1>5. ASSUME NEW d \in Successors(gr, inp, c) PROVE d.s \in 0 .. gr.n - 1
  <2>1. PICK a \in R : d \in Past(gr, inp, c, a)
    BY DEF Successors
  <2>2. d.s = a.to
    BY <2>1 DEF Past, Moved
  <2>3. AnArc(gr, a)
    BY ArcsAreArcs
  <2> QED
    BY <2>2, <2>3 DEF AnArc
<1> QED
  BY <1>3, <1>4, <1>5

LEMMA FewReached ==
    ASSUME NEW gr, IsGraph(gr), NEW inp
    PROVE  \A m \in 0 .. MAX_RECURSION_DEPTH - 1 : IsFiniteSet(ReachedBy(gr, inp)[m])
<1> DEFINE Good(m) == /\ IsFiniteSet(ReachedBy(gr, inp)[m])
                      /\ \A c \in ReachedBy(gr, inp)[m] : c.s \in 0 .. gr.n - 1
           bad == {m \in 0 .. MAX_RECURSION_DEPTH - 1 : ~Good(m)}
<1> HIDE DEF Good
<1>1. SUFFICES ASSUME bad # {} PROVE FALSE
  BY DEF Good
<1>2. PICK m \in bad : \A k \in bad : m <= k
  <2>1. bad \in SUBSET Nat
    OBVIOUS
  <2> HIDE DEF bad
  <2> QED
    BY <1>1, <2>1, LeastElement
<1>3. m \in 0 .. MAX_RECURSION_DEPTH - 1 /\ ~Good(m)
  OBVIOUS
<1>4. CASE m = 0
  <2>1. ReachedBy(gr, inp)[0] = {Start} /\ Start.s = 0
    BY ReachedByIs DEF Start
  <2>2. 0 \in 0 .. gr.n - 1
    BY DEF IsGraph
  <2>3. IsFiniteSet({Start}) /\ \A c \in {Start} : c.s \in 0 .. gr.n - 1
    BY <2>1, <2>2, FS_Singleton
  <2>4. Good(0)
    BY <2>1, <2>3 DEF Good
  <2> QED
    BY <1>3, <1>4, <2>4
<1>5. CASE m # 0
  <2>1. m \in 1 .. MAX_RECURSION_DEPTH - 1 /\ m - 1 \in 0 .. MAX_RECURSION_DEPTH - 1
        /\ ~(m <= m - 1)
    BY <1>3, <1>5, LookupAssumption
  <2> DEFINE C == ReachedBy(gr, inp)[m - 1]
             f == [c \in C |-> Successors(gr, inp, c)]
  <2>2. IsFiniteSet(C) /\ \A c \in C : c.s \in 0 .. gr.n - 1
    BY <1>2, <2>1 DEF Good
  <2>3. ReachedBy(gr, inp)[m] = UNION {f[c] : c \in C}
    <3>1. ReachedBy(gr, inp)[m] = Onward(gr, inp, C)
      BY <2>1, ReachedByIs
    <3>2. {f[c] : c \in C} = {Successors(gr, inp, c) : c \in C}
      OBVIOUS
    <3> QED
      BY <3>1, <3>2 DEF Onward
  <2> HIDE DEF C
  <2>4. \A c \in C : IsFiniteSet(f[c]) /\ \A d \in f[c] : d.s \in 0 .. gr.n - 1
    BY <2>2, FewSuccessors
  <2> HIDE DEF f
  <2>5. IsFiniteSet(UNION {f[c] : c \in C})
    BY <2>2, <2>4, FiniteUnion
  <2>6. \A d \in UNION {f[c] : c \in C} : d.s \in 0 .. gr.n - 1
    BY <2>4
  <2> QED
    BY <1>3, <2>3, <2>5, <2>6 DEF Good
<1> QED
  BY <1>4, <1>5

LEMMA FewAnalyses ==
    ASSUME NEW gr, IsGraph(gr), NEW inp
    PROVE  IsFiniteSet(Analyses(gr, inp))
<1> DEFINE r == ReachedBy(gr, inp)
           D == 0 .. MAX_RECURSION_DEPTH - 1
           all == UNION {r[n] : n \in D}
           accepted == {c \in all : c.pos = Len(inp) /\ c.s \in DOMAIN gr.final}
           f == [c \in accepted |-> AnalysisAt(gr, c)]
<1>1. DOMAIN r = D
  BY ReachedByIs
<1>2. IsFiniteSet(all)
  <2>1. IsFiniteSet(D)
    BY FS_Interval, LookupAssumption
  <2>2. \A n \in D : IsFiniteSet(r[n])
    BY FewReached
  <2> HIDE DEF D, r
  <2> QED
    BY <2>1, <2>2, FiniteUnion
<1>3. IsFiniteSet(accepted)
  BY <1>2, FS_Subset
<1>4. Analyses(gr, inp) = {f[c] : c \in accepted}
  BY <1>1 DEF Analyses, AnalysisAt
<1> HIDE DEF accepted, f
<1> QED
  BY <1>3, <1>4, FiniteImage
-----------------------------------------------------------------------------
(* Complete, and the transducers that are never backed out of *)

\* A lookup that is not cut short and never backs out returns all analyses; one that
\* its limit cuts returns as many as it was asked for.  No flag value, visited mark or
\* recursion level left by another branch or an earlier lookup loses it an analysis.
THEOREM CompleteUnlessBackedOut == Spec /\ []~BacksOut => []Complete
<1>1. SearchInv /\ ExploredInv /\ LimitRespected => Complete
  <2> SUFFICES ASSUME SearchInv, ExploredInv, LimitRespected, Idle, calls > 0, ~late
               PROVE  IF limit < 0 \/ Cardinality(AllAnalyses) <= limit
                      THEN results = AllAnalyses ELSE Cardinality(results) = limit
    BY DEF Complete
  <2>1. IsGraph(g) /\ results \subseteq AllAnalyses /\ limit \in Int
    BY GraphsAssumption DEF SearchInv, Requested
  <2>2. IsFiniteSet(AllAnalyses)
    BY <2>1, FewAnalyses DEF AllAnalyses
  <2>3. /\ Cardinality(AllAnalyses) \in Nat /\ Cardinality(results) \in Nat
        /\ Cardinality(results) <= Cardinality(AllAnalyses)
        /\ Cardinality(AllAnalyses) = Cardinality(results) => AllAnalyses = results
    BY <2>1, <2>2, FS_Subset, FS_CardinalityType
  <2>4. CASE CutShort
    <3>1. limit >= 0 /\ Cardinality(results) >= limit /\ Cardinality(results) <= limit
      BY <2>4 DEF CutShort, Enough, LimitRespected
    <3> QED
      BY <2>1, <2>3, <3>1
  <2>5. CASE Covered(g, input, results, Start, MAX_RECURSION_DEPTH - 1)
    <3>1. AllAnalyses \subseteq results
      <4> DEFINE r == ReachedBy(g, input)
      <4>1. DOMAIN r = 0 .. MAX_RECURSION_DEPTH - 1
        BY ReachedByIs
      <4> SUFFICES ASSUME NEW n \in 0 .. MAX_RECURSION_DEPTH - 1, NEW c \in r[n],
                          c.pos = Len(input), c.s \in DOMAIN g.final
                   PROVE  [weight |-> c.weight + g.final[c.s], path |-> c.path] \in results
        BY <4>1 DEF AllAnalyses, Analyses
      <4>2. Leads(g, input, Start, n, c)
        BY ReachedLeads
      <4>3. Noted(g, input, results, c)
        BY <2>5, <4>2 DEF Covered
      <4> QED
        BY <4>3 DEF Noted, Accepted, AnalysisAt
    <3>2. results = AllAnalyses
      BY <2>1, <3>1
    <3>3. limit >= 0 => Cardinality(results) <= limit
      BY DEF LimitRespected
    <3> QED
      BY <2>1, <2>3, <3>2, <3>3
  <2> QED
    BY <2>4, <2>5 DEF ExploredInv, SearchedAll
<1> QED
  BY <1>1, SearchInvHolds, ExploredHolds, LimitHolds, PTL

\* No cycle of epsilon and flag arcs has a flag arc on it: there is a rank that these
\* arcs never decrease and flag arcs increase.
FlagsLeadAhead(gr) ==
    \E rank \in [0 .. gr.n - 1 -> Nat] :
      \A s \in 0 .. gr.n - 1 : \A a \in Range(gr.arcs[s]) :
        /\ a.in \in Zero => rank[s] <= rank[a.to]
        /\ a.in \in Flags => rank[s] < rank[a.to]

\* What each call is inside of leads to its callee.
LEMMA CallsFollowHolds == Spec => []CallsFollow
<1>1. Init => CallsFollow
  <2> SUFFICES ASSUME Init PROVE CallsFollow
    OBVIOUS
  <2>1. Len(stack) = 0
    BY DEF Init
  <2> QED
    BY <2>1 DEF CallsFollow
<1>2. (LookupInv /\ SearchInv) /\ (LookupInv /\ SearchInv)' /\ CallsFollow /\ [Next]_vars
        => CallsFollow'
  <2> SUFFICES ASSUME LookupInv, SearchInv, LookupInv', CallsFollow, [Next]_vars
               PROVE  CallsFollow'
    OBVIOUS
  <2>1. CASE Lookup
    <3>1. Len(stack') = 1
      BY <2>1 DEF Lookup
    <3>2. \A j \in 1 .. 1 - 1 : FALSE
      OBVIOUS
    <3> QED
      BY <3>1, <3>2 DEF CallsFollow
  <2>2. CASE Step
    <3>1. ConfigsFollow
      BY <2>2, SearchRefuses, SearchEnters, SearchTakesEpsilon, SearchTakesFlag, SearchSkips,
         SearchReads, SearchTakesSymbol, SearchTriesNext, SearchLeaves DEF Step
    <3>2. UNCHANGED <<g, input>>
      BY <2>2 DEF Step, Refuse, Enter, TakeEpsilon, TakeFlag, SkipFlag, ReadInput,
                  TakeSymbol, TryNext, Leave, request
    <3> QED
      BY <3>1, <3>2, CallsStillFollow
  <2>3. CASE UNCHANGED vars
    <3>1. UNCHANGED <<g, input, stack, tape, weight, values>>
      BY <2>3 DEF vars, request, object
    <3>2. \A j : Config(j)' = Config(j)
      BY <3>1 DEF Config, WeightAt, ValuesAt
    <3> QED
      BY <3>1, <3>2 DEF CallsFollow
  <2> QED
    BY <2>1, <2>2, <2>3 DEF Next
<1> QED
  BY <1>1, <1>2, SearchInvHolds, PTL DEF Spec

\* Where no flag arc is on a cycle without input, what a call finds recorded was never
\* recorded by a caller: it would be behind the arc it is about to take.
LEMMA NeverBacksOut ==
    ASSUME LookupInv, SearchInv, CallsFollow, FlagsLeadAhead(g)
    PROVE  ~BacksOut
<1> SUFFICES ASSUME BacksOut PROVE FALSE
  OBVIOUS
<1> PICK n \in Nat \ {0} : n = Len(stack)
  BY InnermostCall DEF BacksOut
<1> DEFINE a == ArcIn(g, top)
<1>1. /\ ~Idle /\ top.step = "zero" /\ top.i <= Len(Arcs(top)) /\ a.in \in Flags
      /\ <<a.to, values>> \in visited
  BY ArcIsArcIn DEF BacksOut, Recorded
<1>2. /\ top = stack[n] /\ top.pos \in Int /\ Placed(g, input, top, n)
      /\ IsGraph(g) /\ top.s \in 0 .. g.n - 1
  BY <1>1, InnermostCall, InnermostPlaced
<1>3. a \in Range(g.arcs[top.s]) /\ AnArc(g, a)
  BY <1>1, <1>2, ArcInHolds DEF Inside, Arcs
<1>4. PICK rank \in [0 .. g.n - 1 -> Nat] :
        \A s \in 0 .. g.n - 1 : \A b \in Range(g.arcs[s]) :
          /\ b.in \in Zero => rank[s] <= rank[b.to]
          /\ b.in \in Flags => rank[s] < rank[b.to]
  BY DEF FlagsLeadAhead
<1>5. PICK j \in 1 .. n - 1 : /\ ReadsFlag(g, stack[j]) /\ ArcIn(g, stack[j]).to = a.to
                              /\ stack[j].pos = top.pos
  <2>1. PICK j \in 1 .. n - 1 :
          /\ ReadsFlag(g, stack[j])
          /\ <<a.to, values>> = <<ArcIn(g, stack[j]).to, stack[j].values>>
          /\ stack[j].pos = PositionOf(stack[n])
    BY <1>1 DEF LookupInv, VisitedHeld
  <2>2. PositionOf(stack[n]) = top.pos
    BY <1>1, <1>2 DEF PositionOf
  <2> QED
    BY <2>1, <2>2
<1> HIDE DEF a
\* Between them nothing is read, so every arc is an epsilon or a flag.
<1>6. ASSUME NEW k \in j .. n - 1
      PROVE  /\ stack[k].s \in 0 .. g.n - 1 /\ ArcIn(g, stack[k]).in \in Zero
             /\ ArcIn(g, stack[k]) \in Range(g.arcs[stack[k].s])
             /\ stack[k + 1].s = ArcIn(g, stack[k]).to
  <2>1. k \in 1 .. n - 1 /\ k \in 1 .. n /\ k + 1 \in 1 .. n /\ j \in 1 .. n
        /\ n \in 1 .. n
    OBVIOUS
  <2>2. /\ IsFrame(stack[k]) /\ stack[k].step # "enter" /\ stack[k].pos \in Int
        /\ stack[j].pos \in Int
        /\ Placed(g, input, stack[k], k) /\ Inside(g, stack[k])
    BY <2>1 DEF LookupInv, Levels, SearchInv, CallsPlaced, IsFrame
  <2>3. stack[k].step = "zero"
    <3>1. CASE k = j
      BY <1>5, <3>1 DEF ReadsFlag
    <3>2. CASE k # j
      <4>1. j \in 1 .. k - 1 /\ k \in 1 .. n - 1
        BY <2>1, <3>2
      <4>2. stack[j].pos <= PositionOf(stack[k])
        BY <2>1, <4>1 DEF LookupInv, PositionsAscend
      <4>3. stack[k].pos <= PositionOf(stack[n])
        BY <2>1 DEF LookupInv, PositionsAscend
      <4>4. PositionOf(stack[n]) = top.pos
        BY <1>1, <1>2 DEF PositionOf
      <4>5. stack[k].pos <= PositionOf(stack[k])
        BY <1>2, <1>5, <2>2, <4>2, <4>3, <4>4 DEF PositionOf
      <4> QED
        BY <2>2, <4>5 DEF PositionOf, IsFrame
    <3> QED
      BY <3>1, <3>2
  <2>4. ArcIn(g, stack[k]) \in Range(g.arcs[stack[k].s]) /\ ArcIn(g, stack[k]).in \in Zero
    BY <1>2, <2>2, <2>3, ArcInHolds
  <2>5. Config(k + 1) \in Past(g, input, Config(k), ArcIn(g, stack[k]))
    BY <2>1 DEF CallsFollow
  <2>6. Config(k + 1).s = ArcIn(g, stack[k]).to
    BY <2>5 DEF Past, Moved
  <2>7. Config(k + 1).s = stack[k + 1].s
    BY DEF Config
  <2> QED
    BY <2>2, <2>4, <2>6, <2>7 DEF Placed
\* So the rank cannot have come down to where it was before the recorded target.
<1> DEFINE bad == {k \in j + 1 .. n : ~(rank[a.to] <= rank[stack[k].s])}
<1>7. bad = {}
  <2> SUFFICES ASSUME bad # {} PROVE FALSE
    OBVIOUS
  <2>1. PICK k \in bad : \A i \in bad : k <= i
    <3>1. bad \in SUBSET Nat
      OBVIOUS
    <3> HIDE DEF bad
    <3> QED
      BY <3>1, LeastElement
  <2>2. k \in j + 1 .. n /\ k - 1 \in j .. n - 1 /\ k - 1 + 1 = k
        /\ ~(rank[a.to] <= rank[stack[k].s])
    BY <2>1
  <2> DEFINE b == ArcIn(g, stack[k - 1])
  <2>3. /\ stack[k - 1].s \in 0 .. g.n - 1 /\ b.in \in Zero
        /\ b \in Range(g.arcs[stack[k - 1].s]) /\ stack[k].s = b.to
    BY <1>6, <2>2
  <2>4. CASE k = j + 1
    <3>1. b.to = a.to
      BY <1>5, <2>4
    <3>2. rank[a.to] \in Nat
      BY <1>3, <1>4 DEF AnArc
    <3> QED
      BY <2>2, <2>3, <3>1, <3>2
  <2>5. CASE k # j + 1
    <3>1. k - 1 \in j + 1 .. n /\ ~(k <= k - 1)
      BY <2>2, <2>5
    <3>2. rank[a.to] <= rank[stack[k - 1].s]
      BY <2>1, <3>1
    <3>3. rank[stack[k - 1].s] <= rank[b.to] /\ AnArc(g, b)
      BY <1>2, <1>4, <2>3, ArcsAreArcs
    <3>4. rank[a.to] \in Nat /\ rank[stack[k - 1].s] \in Nat /\ rank[b.to] \in Nat
      BY <1>3, <1>4, <2>3, <3>3 DEF AnArc
    <3>5. rank[a.to] <= rank[b.to]
      BY <3>2, <3>3, <3>4
    <3>6. ~(rank[a.to] <= rank[b.to])
      BY <2>2, <2>3
    <3> QED
      BY <3>5, <3>6
  <2> QED
    BY <2>4, <2>5
<1>8. rank[a.to] <= rank[top.s]
  <2>1. n \in j + 1 .. n
    OBVIOUS
  <2> QED
    BY <1>2, <1>7, <2>1
<1>9. rank[top.s] < rank[a.to] /\ rank[a.to] \in Nat /\ rank[top.s] \in Nat
  BY <1>1, <1>2, <1>3, <1>4 DEF AnArc, a
<1> QED
  BY <1>8, <1>9

\* If no transducer has a flag arc on a cycle without input, every lookup that the
\* clock does not cut short returns what it should.
THEOREM CompleteHolds ==
    ASSUME \A gr \in Graphs : FlagsLeadAhead(gr)
    PROVE  Spec => []Complete
<1>1. LookupInv /\ SearchInv /\ CallsFollow => ~BacksOut
  <2>1. SearchInv => FlagsLeadAhead(g)
    BY DEF SearchInv, Requested
  <2> QED
    BY <2>1, NeverBacksOut
<1> QED
  BY <1>1, SearchInvHolds, CallsFollowHolds, CompleteUnlessBackedOut, PTL
==============================================================================
