------------------------------ MODULE LoadsProofs ------------------------------
(***************************************************************************)
(* Theorems about Loads, for any documents, sources, callers, instances,   *)
(* depth cap and number of threads: what the parses go through, and which  *)
(* load owns a slot of the report store.                                   *)
(***************************************************************************)
EXTENDS LoadsProperties, SequenceFacts

(***************************************************************************)
(* The inductive invariant: the frames are well formed and every frame but *)
(* the running one awaits the parse above it.                              *)
(***************************************************************************)
Admitted(f) ==
    /\ ~IsCycle(Ancestors(f), Reference(f))
    /\ ~TooDeep(Ancestors(f))

GoodFrame ==
    {f \in Frame :
        /\ f.pc # "scan" => HasReference(f)
        /\ f.pc = "process" => f.parser \in Instances
        /\ f.pc \in {"mint", "get", "process"} => Admitted(f)
        /\ DistinctIn(Ancestors(f))
        /\ Len(Ancestors(f)) <= MaxDepth}

StackInv ==
    /\ stack \in [Callers -> Seq(GoodFrame)]
    /\ \A c \in Callers : \A i \in 1 .. Len(stack[c]) - 1 : stack[c][i].pc = "await"

SharedInv ==
    /\ outcome \in [Callers -> Outcomes]
    /\ calls \in [Callers -> 0 .. MaxCalls]
    /\ published \in Instances \cup {NoInstance}
    /\ deps \subseteq (Sources \cup {TOP}) \X Sources
    /\ threads \in Int
    /\ DOMAIN slots \subseteq Nat
    /\ \A k \in DOMAIN slots : slots[k] \in Errors
    /\ next \in Nat

IInv == StackInv /\ SharedInv

(***************************************************************************)
(* The three ways a step changes the stack of a caller.                    *)
(***************************************************************************)
LEMMA RunningIsGood ==
    ASSUME StackInv, NEW c \in Callers, ~Idle(c)
    PROVE  /\ Running(c) \in GoodFrame
           /\ Running(c) = stack[c][Len(stack[c])]
           /\ Len(stack[c]) \in Nat \ {0}
           /\ stack[c] \in Seq(GoodFrame)
           /\ stack[c] # <<>>
  BY FrontOf DEF StackInv, Idle, Running

LEMMA NewStackKeeps ==
    ASSUME StackInv, NEW c \in Callers, NEW u \in Seq(GoodFrame),
           \A i \in 1 .. Len(u) - 1 : u[i].pc = "await",
           stack' = [stack EXCEPT ![c] = u]
    PROVE  StackInv'
<1>1. stack' \in [Callers -> Seq(GoodFrame)]
  BY DEF StackInv
<1>2. ASSUME NEW d \in Callers
      PROVE  \A i \in 1 .. Len(stack'[d]) - 1 : stack'[d][i].pc = "await"
  <2>1. CASE d = c
    <3>1. stack'[d] = u
      BY <2>1 DEF StackInv
    <3>2. QED
      BY <3>1
  <2>2. CASE d # c
    <3>1. stack'[d] = stack[d]
      BY <2>2 DEF StackInv
    <3>2. QED
      BY <3>1 DEF StackInv
  <2>3. QED
    BY <2>1, <2>2
<1>3. QED
  BY <1>1, <1>2 DEF StackInv

LEMMA BecomeKeeps ==
    ASSUME StackInv, NEW c \in Callers, ~Idle(c), NEW g \in GoodFrame, Become(c, g)
    PROVE  StackInv'
<1> DEFINE t == Append(Front(stack[c]), g)
<1>1. /\ stack[c] \in Seq(GoodFrame)
      /\ stack[c] # <<>>
      /\ Len(stack[c]) \in Nat
  BY RunningIsGood
<1>2. /\ t \in Seq(GoodFrame)
      /\ Len(t) = Len(stack[c])
      /\ \A i \in 1 .. Len(stack[c]) - 1 : t[i] = stack[c][i]
  BY <1>1, NewTop
<1> HIDE DEF t
<1>3. stack' = [stack EXCEPT ![c] = t]
  BY DEF Become, t
<1>4. \A i \in 1 .. Len(t) - 1 : t[i].pc = "await"
  BY <1>1, <1>2 DEF StackInv
<1>5. QED
  BY <1>2, <1>3, <1>4, NewStackKeeps

LEMMA PushKeeps ==
    ASSUME StackInv, NEW c \in Callers, ~Idle(c),
           NEW g \in GoodFrame, g.pc = "await", NEW h \in GoodFrame,
           stack' = [stack EXCEPT ![c] = Append(Append(Front(@), g), h)]
    PROVE  StackInv'
<1> DEFINE t == Append(Front(stack[c]), g)
           u == Append(t, h)
<1>1. /\ stack[c] \in Seq(GoodFrame)
      /\ stack[c] # <<>>
      /\ Len(stack[c]) \in Nat \ {0}
  BY RunningIsGood
<1>2. /\ t \in Seq(GoodFrame)
      /\ Len(t) = Len(stack[c])
      /\ t[Len(stack[c])] = g
      /\ \A i \in 1 .. Len(stack[c]) - 1 : t[i] = stack[c][i]
  BY <1>1, NewTop
<1> HIDE DEF t
<1>3. /\ u \in Seq(GoodFrame)
      /\ Len(u) = Len(t) + 1
      /\ \A i \in 1 .. Len(t) : u[i] = t[i]
  BY <1>2, AppendTo
<1> HIDE DEF u
<1>4. stack' = [stack EXCEPT ![c] = u]
  BY DEF u, t
<1>5. \A i \in 1 .. Len(u) - 1 : u[i].pc = "await"
  <2>1. \A i \in 1 .. Len(stack[c]) - 1 : stack[c][i].pc = "await"
    BY DEF StackInv
  <2>2. QED
    BY <1>1, <1>2, <1>3, <2>1
<1>6. QED
  BY <1>3, <1>4, <1>5, NewStackKeeps

LEMMA PopKeeps ==
    ASSUME StackInv, NEW c \in Callers, Len(stack[c]) > 1, NEW g \in GoodFrame,
           stack' = [stack EXCEPT ![c] = Append(Front(Front(@)), g)]
    PROVE  StackInv'
<1> DEFINE t == Front(stack[c])
           u == Append(Front(t), g)
<1>1. /\ stack[c] \in Seq(GoodFrame)
      /\ stack[c] # <<>>
  BY EmptySeq DEF StackInv
<1>2. /\ t \in Seq(GoodFrame)
      /\ Len(t) = Len(stack[c]) - 1
      /\ \A i \in 1 .. Len(stack[c]) - 1 : t[i] = stack[c][i]
      /\ Len(stack[c]) \in Nat
  BY <1>1, FrontOf
<1> HIDE DEF t
<1>3. t # <<>>
  BY <1>2, EmptySeq
<1>4. /\ u \in Seq(GoodFrame)
      /\ Len(u) = Len(t)
      /\ \A i \in 1 .. Len(t) - 1 : u[i] = t[i]
  BY <1>2, <1>3, NewTop
<1> HIDE DEF u
<1>5. stack' = [stack EXCEPT ![c] = u]
  BY DEF u, t
<1>6. \A i \in 1 .. Len(u) - 1 : u[i].pc = "await"
  <2>1. \A i \in 1 .. Len(stack[c]) - 1 : stack[c][i].pc = "await"
    BY DEF StackInv
  <2>2. QED
    BY <1>2, <1>4, <2>1
<1>7. QED
  BY <1>4, <1>5, <1>6, NewStackKeeps

LEMMA AwaitingBelow ==
    ASSUME StackInv, NEW c \in Callers, Len(stack[c]) > 1
    PROVE  /\ Last(Front(stack[c])) \in GoodFrame
           /\ Last(Front(stack[c])).pc = "await"
<1>1. /\ stack[c] \in Seq(GoodFrame)
      /\ stack[c] # <<>>
  BY EmptySeq DEF StackInv
<1>2. /\ Front(stack[c]) \in Seq(GoodFrame)
      /\ Len(Front(stack[c])) = Len(stack[c]) - 1
      /\ \A i \in 1 .. Len(stack[c]) - 1 : Front(stack[c])[i] = stack[c][i]
      /\ Len(stack[c]) \in Nat
  BY <1>1, FrontOf
<1>3. Front(stack[c]) # <<>>
  BY <1>2, EmptySeq
<1>4. /\ Last(Front(stack[c])) \in GoodFrame
      /\ Last(Front(stack[c])) = Front(stack[c])[Len(Front(stack[c]))]
  BY <1>2, <1>3, FrontOf
<1>5. QED
  BY <1>2, <1>4 DEF StackInv

(***************************************************************************)
(* Frames: what a reference, a chain and an updated frame are.             *)
(***************************************************************************)
LEMMA ReferenceIsSource ==
    ASSUME NEW f \in Frame, HasReference(f)
    PROVE  Reference(f) \in Sources
<1>1. f.name \in Texts /\ f.at \in Nat \ {0}
  BY DEF Frame
<1>2. Refs[f.name] \in Seq(Sources)
  BY <1>1, GraphAssumption
<1>3. f.at \in 1 .. Len(Refs[f.name])
  BY <1>1, <1>2 DEF HasReference
<1>4. QED
  BY <1>2, <1>3, ElementOfSeq DEF Reference

LEMMA ChainIsSeq ==
    ASSUME NEW f \in Frame
    PROVE  Ancestors(f) \in Seq(Sources)
<1>1. f.parents \in Seq(Sources) /\ f.path \in Sources \cup {NoPath}
  BY DEF Frame
<1>2. QED
  BY <1>1, AppendTo DEF Ancestors, Chain

LEMMA StillGood ==
    ASSUME NEW f \in GoodFrame, NEW g \in Frame,
           g.name = f.name, g.at = f.at, g.path = f.path, g.parents = f.parents,
           HasReference(f),
           g.pc = "process" => g.parser \in Instances,
           g.pc \in {"mint", "get", "process"} => Admitted(f)
    PROVE  g \in GoodFrame
<1>1. Ancestors(g) = Ancestors(f) /\ Reference(g) = Reference(f)
  BY DEF Ancestors, Reference
<1>2. HasReference(g)
  BY DEF HasReference
<1>3. Admitted(f) => Admitted(g)
  BY <1>1 DEF Admitted
<1>4. QED
  BY <1>1, <1>2, <1>3 DEF GoodFrame

LEMMA SequencesOfSources ==
    ASSUME NEW r \in Sources
    PROVE  <<r>> \in Seq(Sources) /\ <<r>> \in Seq(Texts)
  BY DEF Texts

\* The loop of a cycle: the ancestors do not repeat, so the first one that
\* matches is the one that does.
LEMMA LoopIsSeq ==
    ASSUME NEW chain \in Seq(Sources), DistinctIn(chain), NEW r \in Sources,
           IsCycle(chain, r)
    PROVE  Loop(chain, r) \in Seq(Texts)
<1>1. DOMAIN chain = 1 .. Len(chain) /\ Len(chain) \in Nat
  BY LenProperties
<1>2. PICK i \in 1 .. Len(chain) : chain[i] = r
  BY <1>1 DEF IsCycle, ToSet
<1>3. \A j \in 1 .. i - 1 : chain[j] # r
  BY <1>1, <1>2 DEF DistinctIn
<1>4. FirstAt(chain, r) \in 1 .. Len(chain)
  BY <1>1, <1>2, <1>3 DEF FirstAt
<1> DEFINE n == FirstAt(chain, r)
<1>5. n \in Int /\ Len(chain) \in Int /\ \A j \in n .. Len(chain) : chain[j] \in Sources
  BY <1>1, <1>4, ElementOfSeq
<1> HIDE DEF n
<1>6. SubSeq(chain, n, Len(chain)) \in Seq(Sources)
  BY <1>5, SubSeqProperties
<1>7. Append(SubSeq(chain, n, Len(chain)), r) \in Seq(Sources)
  BY <1>6, AppendTo
<1>8. Append(SubSeq(chain, n, Len(chain)), r) \in Seq(Texts)
  BY <1>7, SeqMonotonic DEF Texts
<1>9. QED
  BY <1>8 DEF Loop, n

LEMMA FailingIsGood ==
    ASSUME NEW f \in GoodFrame, HasReference(f), NEW code \in Codes, NEW about \in Seq(Texts)
    PROVE  Failing(f, code, about) \in GoodFrame
<1>1. [code |-> code, about |-> about] \in Errors
  BY DEF Errors
<1>2. Failing(f, code, about) \in Frame
  BY <1>1 DEF Failing, GoodFrame, Frame, Places
<1> DEFINE g == Failing(f, code, about)
<1>3. /\ g.name = f.name /\ g.at = f.at /\ g.path = f.path /\ g.parents = f.parents
      /\ g.pc = "fail"
  BY DEF Failing, GoodFrame, Frame
<1> HIDE DEF g
<1>4. g \in GoodFrame
  BY <1>2, <1>3, StillGood DEF g
<1>5. QED
  BY <1>4 DEF g

\* What the processor makes of a nested result is a frame of the same load.
LEMMA ProcessedIsGood ==
    ASSUME NEW f \in GoodFrame, HasReference(f), NEW e \in Errors, NEW v \in Seq(Sources)
    PROVE  Processed(f, e, v) \in GoodFrame
<1> DEFINE r == Reference(f)
<1>1. f \in Frame /\ r \in Sources
  BY ReferenceIsSource DEF GoodFrame
<1>2. \A w \in Seq(Sources) :
        [f EXCEPT !.pc = "discard", !.value = @ \o <<r>> \o w] \in GoodFrame
  <2> SUFFICES ASSUME NEW w \in Seq(Sources)
               PROVE  [f EXCEPT !.pc = "discard", !.value = @ \o <<r>> \o w] \in GoodFrame
    OBVIOUS
  <2>1. f.value \in Seq(Sources)
    BY <1>1 DEF Frame
  <2>2. (f.value \o <<r>>) \o w \in Seq(Sources)
    BY <1>1, <2>1, SequencesOfSources, ConcatProperties
  <2> DEFINE g == [f EXCEPT !.pc = "discard", !.value = @ \o <<r>> \o w]
  <2>3. g \in Frame
    BY <1>1, <2>2 DEF Frame, Places
  <2>4. QED
    BY <1>1, <2>3, StillGood DEF Frame
<1>3. \A d \in Errors : [f EXCEPT !.pc = "take", !.error = d] \in GoodFrame
  <2> SUFFICES ASSUME NEW d \in Errors
               PROVE  [f EXCEPT !.pc = "take", !.error = d] \in GoodFrame
    OBVIOUS
  <2> DEFINE g == [f EXCEPT !.pc = "take", !.error = d]
  <2>1. g \in Frame
    BY <1>1 DEF Frame, Places
  <2>2. QED
    BY <1>1, <2>1, StillGood DEF Frame
<1>4. [f EXCEPT !.pc = "panic"] \in GoodFrame
  <2> DEFINE g == [f EXCEPT !.pc = "panic"]
  <2>1. g \in Frame
    BY <1>1 DEF Frame, Places
  <2>2. QED
    BY <1>1, <2>1, StillGood DEF Frame
<1>5. [code |-> "custom", about |-> <<r>>] \in Errors
  BY <1>1, SequencesOfSources DEF Errors, Codes
<1>6. <<>> \in Seq(Sources)
  OBVIOUS
<1>7. QED
  BY <1>2, <1>3, <1>4, <1>5, <1>6 DEF Processed

(***************************************************************************)
(* The child of an admitted reference: the chain grows by the reference,   *)
(* which is none of its ancestors, and stays within the cap.               *)
(***************************************************************************)
LEMMA GrownChain ==
    ASSUME NEW chain \in Seq(Sources), DistinctIn(chain), NEW r \in Sources,
           ~IsCycle(chain, r), ~TooDeep(chain)
    PROVE  /\ DistinctIn(Append(chain, r))
           /\ Len(Append(chain, r)) <= MaxDepth
           /\ Append(chain, r) \in Seq(Sources)
<1> DEFINE t == Append(chain, r)
<1>1. /\ DOMAIN chain = 1 .. Len(chain)
      /\ Len(chain) \in Nat
      /\ MaxDepth \in Nat
  BY LenProperties, GraphAssumption
<1>2. \A i \in 1 .. Len(chain) : chain[i] # r
  BY <1>1 DEF IsCycle, ToSet
<1>3. /\ t \in Seq(Sources)
      /\ Len(t) = Len(chain) + 1
      /\ t[Len(chain) + 1] = r
      /\ \A i \in 1 .. Len(chain) : t[i] = chain[i]
  BY AppendTo
<1> HIDE DEF t
<1>4. DOMAIN t = 1 .. Len(chain) + 1
  BY <1>3, LenProperties
<1>5. Len(t) <= MaxDepth
  BY <1>1, <1>3 DEF TooDeep
<1>6. DistinctIn(t)
  <2> SUFFICES ASSUME NEW i \in 1 .. Len(chain) + 1, NEW j \in 1 .. Len(chain) + 1,
                      t[i] = t[j]
               PROVE  i = j
    BY <1>4 DEF DistinctIn
  <2>1. CASE i \in 1 .. Len(chain) /\ j \in 1 .. Len(chain)
    BY <1>1, <1>3, <2>1 DEF DistinctIn
  <2>2. CASE i = Len(chain) + 1 \/ j = Len(chain) + 1
    BY <1>1, <1>2, <1>3, <2>2
  <2>3. QED
    BY <1>1, <2>1, <2>2
<1>7. QED
  BY <1>3, <1>5, <1>6 DEF t

LEMMA NewFrameIsFrame ==
    ASSUME NEW name \in Texts, NEW instance \in Instances,
           NEW path \in Sources \cup {NoPath}, NEW parents \in Seq(Sources),
           NEW ticket \in Nat \cup {NoTicket}, NEW segment \in BOOLEAN
    PROVE  NewFrame(name, instance, path, parents, ticket, segment) \in Frame
<1>1. NoError \in Errors /\ <<>> \in Seq(Sources)
  BY DEF NoError, Errors, Codes
<1>2. QED
  BY <1>1 DEF NewFrame, Frame, Places

LEMMA ChildIsGood ==
    ASSUME NEW f \in GoodFrame, f.pc = "process"
    PROVE  Child(f) \in GoodFrame
<1> DEFINE r == Reference(f)
           chain == Ancestors(f)
           h == Child(f)
<1>1. /\ f \in Frame /\ HasReference(f) /\ Admitted(f) /\ f.parser \in Instances
      /\ DistinctIn(chain) /\ Len(chain) <= MaxDepth
  BY DEF GoodFrame
<1>2. r \in Sources /\ chain \in Seq(Sources)
  BY <1>1, ReferenceIsSource, ChainIsSeq
<1>3. /\ r \in Texts /\ ChildPath(r) \in Sources \cup {NoPath}
      /\ f.minted \in Nat \cup {NoTicket} /\ NeedsThread(Len(chain)) \in BOOLEAN
  BY <1>1, <1>2 DEF Texts, ChildPath, Frame, NeedsThread
<1> HIDE DEF r, chain
<1>4. /\ h = NewFrame(r, f.parser, ChildPath(r), chain, f.minted, NeedsThread(Len(chain)))
      /\ ~IsCycle(chain, r) /\ ~TooDeep(chain)
  BY <1>1 DEF Child, r, chain, Admitted
<1>5. h \in Frame
  <2>1. NewFrame(r, f.parser, ChildPath(r), chain, f.minted, NeedsThread(Len(chain))) \in Frame
    BY <1>1, <1>2, <1>3, NewFrameIsFrame
  <2>2. QED
    BY <1>4, <2>1
<1>6. h.pc = "scan" /\ h.parents = chain /\ h.path = ChildPath(r)
  BY <1>4 DEF NewFrame
<1> HIDE DEF h
<1>7. Ancestors(h) = IF ChildPath(r) = NoPath THEN chain ELSE Append(chain, ChildPath(r))
  BY <1>6 DEF Ancestors, Chain
<1>8. DistinctIn(Ancestors(h)) /\ Len(Ancestors(h)) <= MaxDepth
  BY <1>1, <1>2, <1>4, <1>7, GrownChain DEF ChildPath
<1>9. h \in GoodFrame
  BY <1>5, <1>6, <1>8 DEF GoodFrame
<1>10. QED
  BY <1>9 DEF h

(***************************************************************************)
(* The inductive invariant holds initially and no step disturbs it.        *)
(***************************************************************************)
LEMMA InitEstablishes == Init => IInv
<1> SUFFICES ASSUME Init PROVE IInv
  OBVIOUS
<1>1. StackInv
  BY EmptySeq DEF Init, StackInv
<1>2. SharedInv
  BY LoadsAssumption DEF Init, ReportsInit, SharedInv, Outcomes
<1>3. QED
  BY <1>1, <1>2 DEF IInv

LEMMA StartKeeps ==
    ASSUME IInv, NEW c \in Callers, NEW d \in Documents, NEW base \in Bases,
           NEW i \in Instances, Start(c, d, base, i)
    PROVE  IInv'
<1> DEFINE f == NewFrame(d, i, base, <<>>, NoTicket, FALSE)
<1>1. f \in Frame
  <2>1. /\ d \in Texts /\ base \in Sources \cup {NoPath} /\ <<>> \in Seq(Sources)
        /\ NoTicket \in Nat \cup {NoTicket} /\ FALSE \in BOOLEAN
    BY GraphAssumption DEF Texts
  <2>2. QED
    BY <2>1, NewFrameIsFrame
<1>2. f.pc = "scan" /\ f.parents = <<>> /\ f.path = base
  BY DEF NewFrame
<1> HIDE DEF f
<1>3. DistinctIn(Ancestors(f)) /\ Len(Ancestors(f)) <= MaxDepth
  <2>1. CASE base = NoPath
    <3>1. Ancestors(f) = <<>>
      BY <1>2, <2>1 DEF Ancestors, Chain
    <3>2. QED
      BY <3>1, GraphAssumption DEF DistinctIn
  <2>2. CASE base # NoPath
    <3>1. Ancestors(f) = <<base>>
      BY <1>2, <2>2 DEF Ancestors, Chain
    <3>2. QED
      BY <3>1, GraphAssumption DEF DistinctIn
  <2>3. QED
    BY <2>1, <2>2
<1>4. f \in GoodFrame
  BY <1>1, <1>2, <1>3 DEF GoodFrame
<1>5. stack' = [stack EXCEPT ![c] = <<f>>]
  BY DEF Start, f
<1>6. <<f>> \in Seq(GoodFrame) /\ Len(<<f>>) = 1
  BY <1>4
<1>7. StackInv'
  BY <1>5, <1>6 DEF IInv, StackInv
<1>8. SharedInv'
  <2>1. calls' \in [Callers -> 0 .. MaxCalls]
    BY LoadsAssumption DEF Start, IInv, SharedInv
  <2>2. outcome' \in [Callers -> Outcomes]
    BY DEF Start, IInv, SharedInv, Outcomes
  <2>3. published' \in Instances \cup {NoInstance}
    BY DEF Start, PublishedBy, IInv, SharedInv
  <2>4. QED
    BY <2>1, <2>2, <2>3 DEF Start, IInv, SharedInv
<1>9. QED
  BY <1>7, <1>8 DEF IInv

LEMMA ReturnKeeps ==
    ASSUME IInv, NEW c \in Callers, ~Idle(c), NEW e \in Errors, Return(c, e)
    PROVE  /\ StackInv'
           /\ outcome' \in [Callers -> Outcomes]
           /\ threads' \in Int
           /\ UNCHANGED <<calls, published, deps, next>>
<1> USE DEF IInv
<1>1. Running(c) \in Frame /\ Running(c).value \in Seq(Sources)
  BY RunningIsGood DEF GoodFrame, Frame
<1> DEFINE value == IF e = NoError THEN Running(c).value ELSE <<>>
<1>2. value \in Seq(Sources)
  BY <1>1
<1> HIDE DEF value
<1>3. threads' \in Int /\ UNCHANGED <<calls, published, deps, next>>
  BY DEF Return, Joined, SharedInv
<1>4. CASE Len(stack[c]) = 1
  <2>1. /\ stack' = [stack EXCEPT ![c] = <<>>]
        /\ outcome' = [outcome EXCEPT ![c] =
              [name |-> Running(c).name, base |-> Running(c).path, error |-> e,
               value |-> value]]
    BY <1>4 DEF Return, value
  <2>2. StackInv'
    BY <2>1, EmptySeq DEF StackInv
  <2>3. [name |-> Running(c).name, base |-> Running(c).path, error |-> e, value |-> value]
            \in Outcomes
    BY <1>1, <1>2 DEF Outcomes, Frame
  <2>4. QED
    BY <1>3, <2>1, <2>2, <2>3 DEF SharedInv
<1>5. CASE Len(stack[c]) > 1
  <2> DEFINE p == Last(Front(stack[c]))
             g == Processed(p, e, value)
  <2>1. /\ stack' = [stack EXCEPT ![c] = Append(Front(Front(@)), g)]
        /\ UNCHANGED outcome
    <3>1. Len(stack[c]) \in Nat /\ Len(stack[c]) # 1
      BY <1>5, RunningIsGood
    <3>2. QED
      BY <3>1 DEF Return, value
  <2>2. p \in GoodFrame /\ p.pc = "await"
    BY <1>5, AwaitingBelow
  <2> HIDE DEF p
  <2>3. HasReference(p)
    BY <2>2 DEF GoodFrame
  <2>4. g \in GoodFrame
    BY <1>2, <2>2, <2>3, ProcessedIsGood
  <2> HIDE DEF g
  <2>5. StackInv'
    BY <1>5, <2>1, <2>4, PopKeeps
  <2>6. QED
    BY <1>3, <2>1, <2>5 DEF SharedInv
<1>6. QED
  BY <1>4, <1>5 DEF Return

\* The steps that only replace the running frame by a good one.
LEMMA RefusalKeeps ==
    ASSUME IInv, NEW c \in Callers, NotFound(c) \/ Cycle(c) \/ Depth(c)
    PROVE  StackInv'
<1> DEFINE f == Running(c)
           r == Reference(f)
<1> USE DEF IInv
<1>1. ~Idle(c) /\ f.pc = "scan" /\ HasReference(f)
  BY DEF NotFound, Cycle, Depth, At
<1>2. f \in GoodFrame /\ f \in Frame /\ r \in Sources
  BY <1>1, RunningIsGood, ReferenceIsSource DEF GoodFrame
<1>3. <<r>> \in Seq(Texts) /\ {"not_found", "cycle", "depth"} \subseteq Codes
  BY <1>2, SequencesOfSources DEF Codes
<1>4. CASE NotFound(c)
  <2>1. Become(c, Failing(f, "not_found", <<r>>))
    BY <1>4 DEF NotFound
  <2>2. QED
    BY <1>1, <1>2, <1>3, <2>1, FailingIsGood, BecomeKeeps
<1>5. CASE Cycle(c)
  <2>1. Become(c, Failing(f, "cycle", Loop(Ancestors(f), r))) /\ IsCycle(Ancestors(f), r)
    BY <1>5 DEF Cycle
  <2>2. Ancestors(f) \in Seq(Sources) /\ DistinctIn(Ancestors(f))
    BY <1>2, ChainIsSeq DEF GoodFrame
  <2>3. Loop(Ancestors(f), r) \in Seq(Texts)
    BY <1>2, <2>1, <2>2, LoopIsSeq
  <2>4. QED
    BY <1>1, <1>2, <1>3, <2>1, <2>3, FailingIsGood, BecomeKeeps
<1>6. CASE Depth(c)
  <2>1. Become(c, Failing(f, "depth", <<r>>))
    BY <1>6 DEF Depth
  <2>2. QED
    BY <1>1, <1>2, <1>3, <2>1, FailingIsGood, BecomeKeeps
<1>7. QED
  BY <1>4, <1>5, <1>6

LEMMA AdmitKeeps ==
    ASSUME IInv, NEW c \in Callers, Admit(c)
    PROVE  StackInv' /\ deps' \subseteq (Sources \cup {TOP}) \X Sources
<1> DEFINE f == Running(c)
           g == [f EXCEPT !.pc = "mint"]
<1> USE DEF IInv
<1>1. /\ ~Idle(c) /\ f.pc = "scan" /\ HasReference(f) /\ Admitted(f) /\ Become(c, g)
      /\ RecordDependency(Target(Ancestors(f)), Reference(f))
  BY DEF Admit, At, Admitted
<1>2. f \in GoodFrame /\ f \in Frame /\ Reference(f) \in Sources
  BY <1>1, RunningIsGood, ReferenceIsSource DEF GoodFrame
<1>3. g \in Frame
  BY <1>2 DEF Frame, Places
<1>4. /\ g.name = f.name /\ g.at = f.at /\ g.path = f.path /\ g.parents = f.parents
      /\ g.pc = "mint"
  BY <1>2 DEF Frame
<1>5. g \in GoodFrame
  BY <1>1, <1>2, <1>3, <1>4, StillGood
<1>6. StackInv'
  BY <1>1, <1>5, BecomeKeeps
<1>7. Target(Ancestors(f)) \in Sources \cup {TOP}
  <2>1. Ancestors(f) \in Seq(Sources)
    BY <1>2, ChainIsSeq
  <2>2. Ancestors(f) # <<>> => Last(Ancestors(f)) \in Sources
    BY <2>1, FrontOf
  <2>3. QED
    BY <2>2 DEF Target
<1>8. QED
  BY <1>1, <1>2, <1>6, <1>7 DEF SharedInv, RecordDependency

LEMMA MintKeeps ==
    ASSUME IInv, NEW c \in Callers, MintTicket(c)
    PROVE  StackInv' /\ next' \in Nat
<1> DEFINE f == Running(c)
           g == [f EXCEPT !.pc = "get", !.minted = Ticket]
<1> USE DEF IInv
<1>1. ~Idle(c) /\ f.pc = "mint" /\ Become(c, g) /\ next' = next + 1
  BY DEF MintTicket, At, Mint
<1>2. f \in GoodFrame /\ f \in Frame /\ HasReference(f) /\ Admitted(f)
  BY <1>1, RunningIsGood DEF GoodFrame
<1>3. g \in Frame
  BY <1>2 DEF Frame, Places, Ticket, SharedInv
<1>4. /\ g.name = f.name /\ g.at = f.at /\ g.path = f.path /\ g.parents = f.parents
      /\ g.pc = "get"
  BY <1>2 DEF Frame
<1>5. g \in GoodFrame
  BY <1>1, <1>2, <1>3, <1>4, StillGood
<1>6. QED
  BY <1>1, <1>5, BecomeKeeps DEF SharedInv

LEMMA GetKeeps ==
    ASSUME IInv, NEW c \in Callers, GetParser(c)
    PROVE  StackInv'
<1> DEFINE f == Running(c)
           g == [f EXCEPT !.pc = IF published = NoInstance THEN "unpublished" ELSE "process",
                          !.parser = published]
<1> USE DEF IInv
<1>1. ~Idle(c) /\ f.pc = "get" /\ Become(c, g)
  BY DEF GetParser, At
<1>2. f \in GoodFrame /\ f \in Frame /\ HasReference(f) /\ Admitted(f)
  BY <1>1, RunningIsGood DEF GoodFrame
<1>3. published \in Instances \cup {NoInstance}
  BY DEF SharedInv
<1>4. g \in Frame
  BY <1>2, <1>3 DEF Frame, Places
<1>5. /\ g.name = f.name /\ g.at = f.at /\ g.path = f.path /\ g.parents = f.parents
      /\ g.pc \in {"unpublished", "process"} /\ g.parser = published
      /\ g.pc = "process" => published # NoInstance
  BY <1>2 DEF Frame
<1>6. g \in GoodFrame
  BY <1>1, <1>2, <1>3, <1>4, <1>5, StillGood
<1>7. QED
  BY <1>1, <1>6, BecomeKeeps

LEMMA ProcessKeeps ==
    ASSUME IInv, NEW c \in Callers,
           ProcessText(c) \/ ParseHere(c) \/ ParseOnThread(c) \/ NoThread(c)
    PROVE  StackInv'
<1> DEFINE f == Running(c)
           r == Reference(f)
<1> USE DEF IInv
<1>1. ~Idle(c) /\ f.pc = "process"
  BY DEF ProcessText, ParseHere, ParseOnThread, NoThread, At
<1>2. f \in GoodFrame /\ f \in Frame /\ HasReference(f)
  BY <1>1, RunningIsGood DEF GoodFrame
<1>3. r \in Sources
  BY <1>2, ReferenceIsSource
<1>4. CASE ProcessText(c)
  <2> DEFINE g == [f EXCEPT !.pc = "discard", !.value = @ \o Unparsed(r)]
  <2>1. f.value \in Seq(Sources) /\ Unparsed(r) \in Seq(Sources)
    BY <1>2, <1>3, SequencesOfSources DEF Frame, Unparsed
  <2>2. f.value \o Unparsed(r) \in Seq(Sources)
    BY <2>1, ConcatProperties
  <2>3. g \in Frame
    BY <1>2, <2>2 DEF Frame, Places
  <2>4. /\ g.name = f.name /\ g.at = f.at /\ g.path = f.path /\ g.parents = f.parents
        /\ g.pc = "discard"
    BY <1>2 DEF Frame
  <2>5. g \in GoodFrame
    BY <1>2, <2>3, <2>4, StillGood
  <2>6. Become(c, g)
    BY <1>4 DEF ProcessText
  <2>7. QED
    BY <1>1, <2>5, <2>6, BecomeKeeps
<1>5. CASE ParseHere(c) \/ ParseOnThread(c)
  <2> DEFINE g == [f EXCEPT !.pc = "await"]
  <2>1. g \in Frame
    BY <1>2 DEF Frame, Places
  <2>2. /\ g.name = f.name /\ g.at = f.at /\ g.path = f.path /\ g.parents = f.parents
        /\ g.pc = "await"
    BY <1>2 DEF Frame
  <2>3. g \in GoodFrame
    BY <1>2, <2>1, <2>2, StillGood
  <2>4. Child(f) \in GoodFrame
    BY <1>1, <1>2, ChildIsGood
  <2>5. stack' = [stack EXCEPT ![c] = Append(Append(Front(@), g), Child(f))]
    BY <1>5 DEF ParseHere, ParseOnThread, Descend
  <2>6. QED
    BY <1>1, <2>2, <2>3, <2>4, <2>5, PushKeeps
<1>6. CASE NoThread(c)
  <2> DEFINE e == [code |-> "internal", about |-> <<r>>]
  <2>1. e \in Errors /\ <<>> \in Seq(Sources)
    BY <1>3, SequencesOfSources DEF Errors, Codes
  <2>2. Become(c, Processed(f, e, <<>>))
    BY <1>6 DEF NoThread
  <2> HIDE DEF e
  <2>3. Processed(f, e, <<>>) \in GoodFrame
    BY <1>2, <2>1, ProcessedIsGood
  <2>4. QED
    BY <1>1, <2>2, <2>3, BecomeKeeps
<1>7. QED
  BY <1>4, <1>5, <1>6

\* The slots: what is freed and what is recorded.
LEMMA SlotsFreed ==
    ASSUME SharedInv, NEW k, Release(k)
    PROVE  /\ DOMAIN slots' \subseteq Nat
           /\ \A j \in DOMAIN slots' : slots'[j] \in Errors
  BY DEF SharedInv, Release

LEMMA SlotRecorded ==
    ASSUME SharedInv, NEW k \in Nat, NEW e \in Errors, Record(k, e)
    PROVE  /\ DOMAIN slots' \subseteq Nat
           /\ \A j \in DOMAIN slots' : slots'[j] \in Errors
  BY DEF SharedInv, Record

LEMMA TakeKeeps ==
    ASSUME IInv, NEW c \in Callers, TakeReport(c)
    PROVE  /\ StackInv'
           /\ DOMAIN slots' \subseteq Nat
           /\ \A j \in DOMAIN slots' : slots'[j] \in Errors
<1> DEFINE f == Running(c)
           about == TakenAbout(f.minted, f.error.code, <<Reference(f)>>)
<1> USE DEF IInv
<1>1. /\ ~Idle(c) /\ f.pc = "take" /\ Release(f.minted)
      /\ Become(c, Failing(f, f.error.code, about))
  BY DEF TakeReport, At
<1>2. f \in GoodFrame /\ f \in Frame /\ HasReference(f)
  BY <1>1, RunningIsGood DEF GoodFrame
<1>3. f.error.code \in Codes /\ <<Reference(f)>> \in Seq(Texts)
  BY <1>2, ReferenceIsSource, SequencesOfSources DEF Frame, Errors
<1>4. about \in Seq(Texts)
  BY <1>3 DEF TakenAbout, SharedInv, Errors
<1> HIDE DEF about
<1>5. Failing(f, f.error.code, about) \in GoodFrame
  BY <1>2, <1>3, <1>4, FailingIsGood
<1>6. StackInv'
  BY <1>1, <1>5, BecomeKeeps
<1>7. QED
  BY <1>1, <1>6, SlotsFreed

LEMMA DiscardKeeps ==
    ASSUME IInv, NEW c \in Callers, DiscardReport(c)
    PROVE  /\ StackInv'
           /\ DOMAIN slots' \subseteq Nat
           /\ \A j \in DOMAIN slots' : slots'[j] \in Errors
<1> DEFINE f == Running(c)
           g == [f EXCEPT !.pc = "scan", !.at = @ + 1, !.minted = NoTicket,
                          !.parser = NoInstance]
<1> USE DEF IInv
<1>1. ~Idle(c) /\ f.pc = "discard" /\ Release(f.minted) /\ Become(c, g)
  BY DEF DiscardReport, Discard, At
<1>2. /\ f \in GoodFrame /\ f \in Frame
      /\ DistinctIn(Ancestors(f)) /\ Len(Ancestors(f)) <= MaxDepth
  BY <1>1, RunningIsGood DEF GoodFrame
<1>3. f.at \in Nat \ {0} /\ f.at + 1 \in Nat \ {0}
  BY <1>2 DEF Frame
<1>4. g \in Frame
  BY <1>2, <1>3 DEF Frame, Places
<1>5. g.pc = "scan" /\ g.path = f.path /\ g.parents = f.parents
  BY <1>2 DEF Frame
<1>6. Ancestors(g) = Ancestors(f)
  BY <1>5 DEF Ancestors
<1>7. g \in GoodFrame
  BY <1>2, <1>4, <1>5, <1>6 DEF GoodFrame
<1>8. StackInv'
  BY <1>1, <1>7, BecomeKeeps
<1>9. QED
  BY <1>1, <1>8, SlotsFreed

\* The steps that end a parse.
LEMMA EndKeeps ==
    ASSUME IInv, NEW c \in Callers, Finish(c) \/ Fail(c) \/ Abort(c)
    PROVE  IInv'
<1> DEFINE f == Running(c)
<1> USE DEF IInv
<1>1. ~Idle(c)
  BY DEF Finish, Fail, Abort, At
<1>2. f \in Frame
  BY <1>1, RunningIsGood DEF GoodFrame
<1>3. f.name \in Texts /\ f.error \in Errors /\ f.ticket \in Nat \cup {NoTicket}
  BY <1>2 DEF Frame
<1>4. \A code \in Codes : [code |-> code, about |-> <<f.name>>] \in Errors
  BY <1>3 DEF Errors
<1>5. NoError \in Errors /\ {"syntax", "panic", "internal"} \subseteq Codes
  BY DEF NoError, Errors, Codes
<1>6. CASE Finish(c)
  <2>1. PICK e \in Errors : Return(c, e)
    BY <1>4, <1>5, <1>6 DEF Finish
  <2>2. UNCHANGED slots
    BY <1>6 DEF Finish
  <2>3. QED
    BY <1>1, <2>1, <2>2, ReturnKeeps DEF SharedInv
<1>7. CASE Fail(c)
  <2>1. Return(c, f.error)
    BY <1>7 DEF Fail
  <2>2. /\ DOMAIN slots' \subseteq Nat
        /\ \A j \in DOMAIN slots' : slots'[j] \in Errors
    <3>1. CASE HasTicket(f)
      <4>1. f.ticket \in Nat /\ Record(f.ticket, f.error)
        BY <1>3, <1>7, <3>1 DEF Fail, HasTicket
      <4>2. QED
        BY <1>3, <4>1, SlotRecorded
    <3>2. CASE ~HasTicket(f)
      BY <1>7, <3>2 DEF Fail, SharedInv
    <3>3. QED
      BY <3>1, <3>2
  <2>3. QED
    BY <1>1, <1>3, <2>1, <2>2, ReturnKeeps DEF SharedInv
<1>8. CASE Abort(c)
  <2>1. PICK e \in Errors : Return(c, e)
    BY <1>4, <1>5, <1>8 DEF Abort
  <2>2. UNCHANGED slots
    BY <1>8 DEF Abort
  <2>3. QED
    BY <1>1, <2>1, <2>2, ReturnKeeps DEF SharedInv
<1>9. QED
  BY <1>6, <1>7, <1>8

LEMMA StepKeeps ==
    ASSUME IInv, [Next]_vars
    PROVE  IInv'
<1>1. CASE UNCHANGED vars
  BY <1>1 DEF vars, IInv, StackInv, SharedInv
<1>2. ASSUME NEW c \in Callers, NEW d \in Documents, NEW base \in Bases,
             NEW i \in Instances, Start(c, d, base, i)
      PROVE  IInv'
  BY <1>2, StartKeeps
<1>3. ASSUME NEW c \in Callers, Step(c)
      PROVE  IInv'
  <2>1. CASE NotFound(c) \/ Cycle(c) \/ Depth(c)
    <3>1. StackInv'
      BY <2>1, RefusalKeeps
    <3>2. QED
      BY <2>1, <3>1 DEF IInv, SharedInv, NotFound, Cycle, Depth
  <2>2. CASE Admit(c)
    <3>1. StackInv' /\ deps' \subseteq (Sources \cup {TOP}) \X Sources
      BY <2>2, AdmitKeeps
    <3>2. QED
      BY <2>2, <3>1 DEF IInv, SharedInv, Admit
  <2>3. CASE MintTicket(c)
    <3>1. StackInv' /\ next' \in Nat
      BY <2>3, MintKeeps
    <3>2. QED
      BY <2>3, <3>1 DEF IInv, SharedInv, MintTicket
  <2>4. CASE GetParser(c)
    <3>1. StackInv'
      BY <2>4, GetKeeps
    <3>2. QED
      BY <2>4, <3>1 DEF IInv, SharedInv, GetParser
  <2>5. CASE ProcessText(c) \/ ParseHere(c) \/ ParseOnThread(c) \/ NoThread(c)
    <3>1. StackInv'
      BY <2>5, ProcessKeeps
    <3>2. threads' \in Int /\ UNCHANGED <<outcome, calls, published, deps, slots, next>>
      BY <2>5 DEF IInv, SharedInv, ProcessText, ParseHere, ParseOnThread, NoThread, Descend
    <3>3. QED
      BY <3>1, <3>2 DEF IInv, SharedInv
  <2>6. CASE TakeReport(c)
    <3>1. /\ StackInv'
          /\ DOMAIN slots' \subseteq Nat
          /\ \A j \in DOMAIN slots' : slots'[j] \in Errors
      BY <2>6, TakeKeeps
    <3>2. QED
      BY <2>6, <3>1 DEF IInv, SharedInv, TakeReport
  <2>7. CASE DiscardReport(c)
    <3>1. /\ StackInv'
          /\ DOMAIN slots' \subseteq Nat
          /\ \A j \in DOMAIN slots' : slots'[j] \in Errors
      BY <2>7, DiscardKeeps
    <3>2. QED
      BY <2>7, <3>1 DEF IInv, SharedInv, DiscardReport
  <2>8. CASE Finish(c) \/ Fail(c) \/ Abort(c)
    BY <2>8, EndKeeps
  <2>9. QED
    BY <1>3, <2>1, <2>2, <2>3, <2>4, <2>5, <2>6, <2>7, <2>8 DEF Step
<1>4. CASE Finished
  BY <1>1, <1>4 DEF Finished
<1>5. QED
  BY <1>1, <1>2, <1>3, <1>4 DEF Next

THEOREM Invariance == Spec => []IInv
<1>1. Init => IInv
  BY InitEstablishes
<1>2. IInv /\ [Next]_vars => IInv'
  BY StepKeeps
<1>3. QED
  BY <1>1, <1>2, PTL DEF Spec

(***************************************************************************)
(* Type correctness.                                                       *)
(***************************************************************************)
THEOREM TypeCorrect == Spec => []TypeOK
<1>1. IInv => TypeOK
  <2> SUFFICES ASSUME IInv PROVE TypeOK
    OBVIOUS
  <2>1. GoodFrame \subseteq Frame
    BY DEF GoodFrame
  <2>2. \A c \in Callers : stack[c] \in Seq(Frame)
    BY <2>1, SeqMonotonic DEF IInv, StackInv
  <2>3. stack \in [Callers -> Seq(Frame)]
    BY <2>2 DEF IInv, StackInv
  <2>4. QED
    BY <2>3 DEF IInv, SharedInv, TypeOK
<1>2. QED
  BY <1>1, Invariance, PTL

\* Every frame of the stacks is a good one.
LEMMA FramesGood ==
    ASSUME IInv, NEW c \in Callers, NEW i \in DOMAIN stack[c]
    PROVE  stack[c][i] \in GoodFrame
<1>1. stack[c] \in Seq(GoodFrame)
  BY DEF IInv, StackInv
<1>2. QED
  BY <1>1, LenProperties, ElementOfSeq

(***************************************************************************)
(* No source is ever its own ancestor, whatever graph the sources form.    *)
(***************************************************************************)
THEOREM NoSelfAncestor == Spec => []AncestorsDistinct
<1>1. IInv => AncestorsDistinct
  BY FramesGood DEF AncestorsDistinct, GoodFrame
<1>2. QED
  BY <1>1, Invariance, PTL

(***************************************************************************)
(* No ancestor chain ever grows past max_depth.                            *)
(***************************************************************************)
THEOREM DepthCapHolds == Spec => []ChainCapped
<1>1. IInv => ChainCapped
  BY FramesGood DEF ChainCapped, GoodFrame
<1>2. QED
  BY <1>1, Invariance, PTL

(***************************************************************************)
(* What a step does to the stacks, and how the parses on a stack hang      *)
(* together: each was started by the one below it, for the reference that  *)
(* one is still at.                                                        *)
(***************************************************************************)
(***************************************************************************)
(* The five ways the stack of one caller changes.                          *)
(***************************************************************************)
Others(c) == \A d \in Callers : d # c => stack'[d] = stack[d]

\* The stack of c below the height n stays as it is.
SameBelow(c, n) == \A i \in 1 .. n - 1 : stack'[c][i] = stack[c][i]

Begins(c, h) ==
    /\ Others(c)
    /\ stack[c] = <<>>
    /\ Len(stack'[c]) = 1
    /\ stack'[c][1] = h

Replaces(c, g) ==
    /\ Others(c)
    /\ Len(stack[c]) > 0
    /\ Len(stack'[c]) = Len(stack[c])
    /\ stack'[c][Len(stack[c])] = g
    /\ SameBelow(c, Len(stack[c]))

Pushes(c, g, h) ==
    /\ Others(c)
    /\ Len(stack[c]) > 0
    /\ Len(stack'[c]) = Len(stack[c]) + 1
    /\ stack'[c][Len(stack[c])] = g
    /\ stack'[c][Len(stack[c]) + 1] = h
    /\ SameBelow(c, Len(stack[c]))

Pops(c, g) ==
    /\ Others(c)
    /\ Len(stack[c]) > 1
    /\ Len(stack'[c]) = Len(stack[c]) - 1
    /\ stack'[c][Len(stack[c]) - 1] = g
    /\ SameBelow(c, Len(stack[c]) - 1)

Clears(c) ==
    /\ Others(c)
    /\ Len(stack[c]) = 1
    /\ stack'[c] = <<>>

(***************************************************************************)
(* The parse a frame stands for, and the load it was started by.           *)
(***************************************************************************)
Same(g, f) ==
    /\ g.name = f.name /\ g.instance = f.instance /\ g.path = f.path
    /\ g.parents = f.parents /\ g.ticket = f.ticket /\ g.segment = f.segment

Bottom(f) ==
    /\ f.name \in Documents
    /\ f.path \in Bases
    /\ f.parents = <<>>
    /\ f.ticket = NoTicket
    /\ f.segment = FALSE

Link(f, h) ==
    /\ h.name = Reference(f)
    /\ Reparses(h.name)
    /\ h.path = ChildPath(h.name)
    /\ h.parents = Ancestors(f)
    /\ h.ticket = f.minted
    /\ h.segment = NeedsThread(Len(Ancestors(f)))
    /\ h.instance = f.parser

LinksOf(s) ==
    /\ Len(s) > 0 => Bottom(s[1])
    /\ \A i \in 1 .. Len(s) - 1 : Link(s[i], s[i + 1])

LinksInv == \A c \in Callers : LinksOf(stack[c])

(***************************************************************************)
(* From the actions to the five ways.                                      *)
(***************************************************************************)
LEMMA StackType ==
    ASSUME IInv, NEW c \in Callers
    PROVE  /\ stack[c] \in Seq(GoodFrame)
           /\ Len(stack[c]) \in Nat
           /\ DOMAIN stack[c] = 1 .. Len(stack[c])
           /\ \A i \in 1 .. Len(stack[c]) : stack[c][i] \in GoodFrame /\ stack[c][i] \in Frame
           /\ stack[c] = <<>> <=> Len(stack[c]) = 0
<1>1. stack[c] \in Seq(GoodFrame)
  BY DEF IInv, StackInv
<1>2. /\ Len(stack[c]) \in Nat
      /\ DOMAIN stack[c] = 1 .. Len(stack[c])
      /\ \A i \in 1 .. Len(stack[c]) : stack[c][i] \in GoodFrame
      /\ stack[c] = <<>> <=> Len(stack[c]) = 0
  BY <1>1, LenProperties, ElementOfSeq, EmptySeq
<1>3. QED
  BY <1>1, <1>2 DEF GoodFrame

LEMMA NewTopAndOver ==
    ASSUME NEW S, NEW s \in Seq(S), s # <<>>, NEW x \in S, NEW y \in S
    PROVE  /\ Len(Append(Append(Front(s), x), y)) = Len(s) + 1
           /\ Append(Append(Front(s), x), y)[Len(s)] = x
           /\ Append(Append(Front(s), x), y)[Len(s) + 1] = y
           /\ \A i \in 1 .. Len(s) - 1 : Append(Append(Front(s), x), y)[i] = s[i]
<1> DEFINE t == Append(Front(s), x)
           u == Append(t, y)
<1>1. /\ t \in Seq(S)
      /\ Len(t) = Len(s)
      /\ t[Len(s)] = x
      /\ \A i \in 1 .. Len(s) - 1 : t[i] = s[i]
  BY NewTop
<1> HIDE DEF t
<1>2. /\ Len(u) = Len(t) + 1
      /\ u[Len(t) + 1] = y
      /\ \A i \in 1 .. Len(t) : u[i] = t[i]
  BY <1>1, AppendTo
<1> HIDE DEF u
<1>3. Len(s) \in Nat \ {0}
  BY FrontOf
<1>4. /\ Len(u) = Len(s) + 1
      /\ u[Len(s)] = x
      /\ u[Len(s) + 1] = y
      /\ \A i \in 1 .. Len(s) - 1 : u[i] = s[i]
  BY <1>1, <1>2, <1>3
<1>5. QED
  BY <1>4 DEF t, u

LEMMA NewTopBelow ==
    ASSUME NEW S, NEW s \in Seq(S), Len(s) > 1, NEW x \in S
    PROVE  /\ Len(Append(Front(Front(s)), x)) = Len(s) - 1
           /\ Append(Front(Front(s)), x)[Len(s) - 1] = x
           /\ \A i \in 1 .. Len(s) - 2 : Append(Front(Front(s)), x)[i] = s[i]
<1> DEFINE t == Front(s)
           u == Append(Front(t), x)
<1>1. s # <<>> /\ Len(s) \in Nat
  BY EmptySeq
<1>2. /\ t \in Seq(S)
      /\ Len(t) = Len(s) - 1
      /\ \A i \in 1 .. Len(s) - 1 : t[i] = s[i]
  BY <1>1, FrontOf
<1> HIDE DEF t
<1>3. t # <<>>
  BY <1>1, <1>2, EmptySeq
<1>4. /\ Len(u) = Len(t)
      /\ u[Len(t)] = x
      /\ \A i \in 1 .. Len(t) - 1 : u[i] = t[i]
  BY <1>2, <1>3, NewTop
<1> HIDE DEF u
<1>5. /\ Len(u) = Len(s) - 1
      /\ u[Len(s) - 1] = x
      /\ \A i \in 1 .. Len(s) - 2 : u[i] = s[i]
  BY <1>1, <1>2, <1>4
<1>6. QED
  BY <1>5 DEF t, u

LEMMA BelowTop ==
    ASSUME NEW S, NEW s \in Seq(S), Len(s) > 1
    PROVE  Last(Front(s)) = s[Len(s) - 1] /\ s[Len(s) - 1] \in S
<1> DEFINE t == Front(s)
<1>1. s # <<>> /\ Len(s) \in Nat
  BY EmptySeq
<1>2. /\ t \in Seq(S)
      /\ Len(t) = Len(s) - 1
      /\ \A i \in 1 .. Len(s) - 1 : t[i] = s[i]
  BY <1>1, FrontOf
<1> HIDE DEF t
<1>3. t # <<>>
  BY <1>1, <1>2, EmptySeq
<1>4. Last(t) = t[Len(t)] /\ Last(t) \in S
  BY <1>2, <1>3, FrontOf
<1>5. QED
  BY <1>1, <1>2, <1>4 DEF t

LEMMA TopOf ==
    ASSUME IInv, NEW c \in Callers, ~Idle(c)
    PROVE  /\ Running(c) = stack[c][Len(stack[c])]
           /\ Len(stack[c]) \in Nat \ {0}
           /\ Running(c) \in GoodFrame /\ Running(c) \in Frame
<1>1. StackInv
  BY DEF IInv
<1>2. QED
  BY <1>1, RunningIsGood DEF GoodFrame

LEMMA Replacing ==
    ASSUME IInv, NEW c \in Callers, ~Idle(c), NEW g, Become(c, g)
    PROVE  Replaces(c, g)
<1> DEFINE s == stack[c]
<1>1. stack \in [Callers -> Seq(GoodFrame)] /\ s \in Seq(GoodFrame) /\ s # <<>>
  BY DEF IInv, StackInv, Idle
<1>2. stack'[c] = Append(Front(s), g) /\ Others(c)
  BY <1>1 DEF Become, Others
<1>3. Len(s) \in Nat /\ Len(s) > 0
  BY <1>1, FrontOf
<1> DEFINE T == GoodFrame \cup {g}
<1> HIDE DEF s
<1>t. s \in Seq(T) /\ g \in T
  BY <1>1, SeqMonotonic
<1> HIDE DEF T
<1>4. /\ Len(Append(Front(s), g)) = Len(s)
      /\ Append(Front(s), g)[Len(s)] = g
      /\ \A i \in 1 .. Len(s) - 1 : Append(Front(s), g)[i] = s[i]
  BY <1>1, <1>t, NewTop
<1>5. QED
  BY <1>2, <1>3, <1>4 DEF Replaces, SameBelow, s

LEMMA Pushing ==
    ASSUME IInv, NEW c \in Callers, ~Idle(c), Descend(c)
    PROVE  Pushes(c, [Running(c) EXCEPT !.pc = "await"], Child(Running(c)))
<1> DEFINE s == stack[c]
           u == stack'[c]
           g == [Running(c) EXCEPT !.pc = "await"]
           h == Child(Running(c))
<1>1. stack \in [Callers -> Seq(GoodFrame)] /\ s \in Seq(GoodFrame) /\ s # <<>>
  BY DEF IInv, StackInv, Idle
<1>2. u = Append(Append(Front(s), g), h) /\ Others(c)
  BY <1>1 DEF Descend, Others
<1>3. Len(s) \in Nat /\ Len(s) > 0
  BY <1>1, FrontOf
<1> DEFINE T == (GoodFrame \cup {g}) \cup {h}
<1> HIDE DEF s, u, g, h
<1>t. s \in Seq(T) /\ g \in T /\ h \in T
  BY <1>1, SeqMonotonic
<1> HIDE DEF T
<1>4. /\ Len(Append(Append(Front(s), g), h)) = Len(s) + 1
      /\ Append(Append(Front(s), g), h)[Len(s)] = g
      /\ Append(Append(Front(s), g), h)[Len(s) + 1] = h
      /\ \A i \in 1 .. Len(s) - 1 : Append(Append(Front(s), g), h)[i] = s[i]
  BY <1>1, <1>t, NewTopAndOver
<1>5. Pushes(c, g, h)
  BY <1>2, <1>3, <1>4 DEF Pushes, SameBelow, s, u
<1>6. QED
  BY <1>5 DEF g, h

\* What the parse below makes of the result of the running one.
Resumed(c, e) ==
    Processed(stack[c][Len(stack[c]) - 1], e, IF e = NoError THEN Running(c).value ELSE <<>>)

LEMMA Returning ==
    ASSUME IInv, NEW c \in Callers, ~Idle(c), NEW e, Return(c, e)
    PROVE  Clears(c) \/ Pops(c, Resumed(c, e))
<1> DEFINE s == stack[c]
           u == stack'[c]
           g == Resumed(c, e)
<1>1. /\ stack \in [Callers -> Seq(GoodFrame)] /\ s \in Seq(GoodFrame) /\ s # <<>>
  BY DEF IInv, StackInv, Idle
<1>n. Len(s) \in Nat /\ Len(s) # 0
  BY TopOf
<1>2. Len(s) = 1 \/ Len(s) > 1
  <2> DEFINE n == Len(s)
  <2>1. n \in Nat /\ n # 0
    BY <1>n
  <2> HIDE DEF n
  <2>2. n = 1 \/ n > 1
    BY <2>1
  <2>3. QED
    BY <2>2 DEF n
<1>3. CASE Len(s) = 1
  <2>1. Clears(c)
    BY <1>1, <1>3 DEF Return, Clears, Others
  <2>2. QED
    BY <2>1
<1>4. CASE Len(s) > 1
  <2>1. Last(Front(s)) = s[Len(s) - 1]
    BY <1>1, <1>4, BelowTop
  <2>2. stack' = [stack EXCEPT ![c] = Append(Front(Front(s)), g)]
    <3> DEFINE n == Len(s)
    <3>0. n \in Nat /\ n > 1
      BY <1>n, <1>4
    <3> HIDE DEF n
    <3>a. n # 1
      BY <3>0
    <3>1. Len(s) # 1
      BY <3>a DEF n
    <3>2. QED
      BY <2>1, <3>1 DEF Return, Resumed
  <2>3. u = Append(Front(Front(s)), g) /\ Others(c)
    BY <1>1, <2>2 DEF Others
  <2> DEFINE T == GoodFrame \cup {g}
  <2> HIDE DEF g, s, u
  <2>4. s \in Seq(T) /\ g \in T
    BY <1>1, SeqMonotonic
  <2> HIDE DEF T
  <2>5. /\ Len(Append(Front(Front(s)), g)) = Len(s) - 1
        /\ Append(Front(Front(s)), g)[Len(s) - 1] = g
        /\ \A i \in 1 .. Len(s) - 2 : Append(Front(Front(s)), g)[i] = s[i]
    BY <1>4, <2>4, NewTopBelow
  <2>6. Len(s) - 1 - 1 = Len(s) - 2
    BY <1>n
  <2>7. Pops(c, g)
    BY <1>4, <2>3, <2>5, <2>6 DEF Pops, SameBelow, s, u
  <2>8. QED
    BY <2>7 DEF g
<1>5. QED
  BY <1>2, <1>3, <1>4

(***************************************************************************)
(* The steps and the five ways.                                            *)
(***************************************************************************)
LEMMA ProcessedIsSame ==
    ASSUME NEW f \in Frame, NEW e, NEW v
    PROVE  /\ Same(Processed(f, e, v), f)
           /\ Processed(f, e, v).pc \in {"discard", "take", "panic"}
           /\ Processed(f, e, v).at = f.at
           /\ Processed(f, e, v).minted = f.minted
  BY DEF Processed, Same, Frame

LEMMA ChildIsLinked ==
    ASSUME NEW f \in Frame, Reparses(Reference(f))
    PROVE  /\ Link([f EXCEPT !.pc = "await"], Child(f))
           /\ Same([f EXCEPT !.pc = "await"], f)
<1> DEFINE g == [f EXCEPT !.pc = "await"]
           h == Child(f)
<1>1. /\ g.name = f.name /\ g.at = f.at /\ g.path = f.path /\ g.parents = f.parents
      /\ g.minted = f.minted /\ g.parser = f.parser /\ Same(g, f)
  BY DEF Frame, Same
<1>2. Reference(g) = Reference(f) /\ Ancestors(g) = Ancestors(f)
  BY <1>1 DEF Reference, Ancestors
<1>3. /\ h.name = Reference(f) /\ h.instance = f.parser /\ h.path = ChildPath(Reference(f))
      /\ h.parents = Ancestors(f) /\ h.ticket = f.minted
      /\ h.segment = NeedsThread(Len(Ancestors(f)))
  BY DEF Child, NewFrame
<1> HIDE DEF g, h
<1>4. Link(g, h)
  BY <1>1, <1>2, <1>3 DEF Link
<1>5. QED
  BY <1>1, <1>4 DEF g, h

\* A caller's parse starts.
Opens(c) ==
    \E h : /\ Begins(c, h)
           /\ Bottom(h) /\ h.pc = "scan"
           /\ published' = NoInstance => published = NoInstance /\ Refs[h.name] = <<>>
           /\ UNCHANGED threads

\* A load replaces the running frame by one of the same parse, and stops for
\* want of a parser only where none is published.
Advances(c) ==
    \E g : /\ Replaces(c, g)
           /\ Same(g, Running(c))
           /\ g.pc = "unpublished" => published = NoInstance /\ HasReference(Running(c))
           /\ UNCHANGED <<published, threads>>

Descends(c) ==
    \E g, h : /\ Pushes(c, g, h)
              /\ Same(g, Running(c))
              /\ Link(g, h)
              /\ HasReference(Running(c))
              /\ g.pc = "await" /\ h.pc = "scan"
              /\ threads' = IF h.segment THEN threads + 1 ELSE threads
              /\ UNCHANGED published

Resumes(c) ==
    \E g : /\ Pops(c, g)
           /\ Same(g, stack[c][Len(stack[c]) - 1])
           /\ g.pc # "unpublished"
           /\ Joined(Running(c))
           /\ UNCHANGED published

\* The outermost parse returns to its caller.
Closes(c) == Clears(c) /\ Joined(Running(c)) /\ UNCHANGED published

LEMMA Advancing ==
    ASSUME IInv, NEW c \in Callers,
           \/ NotFound(c) \/ Cycle(c) \/ Depth(c) \/ Admit(c) \/ MintTicket(c) \/ GetParser(c)
           \/ ProcessText(c) \/ NoThread(c) \/ TakeReport(c) \/ DiscardReport(c)
    PROVE  Advances(c)
<1> DEFINE f == Running(c)
<1>1. ~Idle(c)
  BY DEF NotFound, Cycle, Depth, Admit, MintTicket, GetParser, ProcessText, NoThread,
         TakeReport, DiscardReport, At
<1>2. f \in Frame /\ f \in GoodFrame
  BY <1>1, TopOf
<1>u. UNCHANGED <<published, threads>>
  BY DEF NotFound, Cycle, Depth, Admit, MintTicket, GetParser, ProcessText, NoThread,
         TakeReport, DiscardReport
<1>3. \A code, about : LET g == Failing(f, code, about) IN Same(g, f) /\ g.pc = "fail"
  BY <1>2 DEF Failing, Same, Frame
<1>4. CASE NotFound(c)
  <2>1. PICK g : Become(c, g) /\ Same(g, f) /\ g.pc # "unpublished"
    BY <1>3, <1>4 DEF NotFound
  <2>2. QED
    BY <1>1, <1>u, <2>1, Replacing DEF Advances
<1>5. CASE Cycle(c)
  <2>1. PICK g : Become(c, g) /\ Same(g, f) /\ g.pc # "unpublished"
    BY <1>3, <1>5 DEF Cycle
  <2>2. QED
    BY <1>1, <1>u, <2>1, Replacing DEF Advances
<1>6. CASE Depth(c)
  <2>1. PICK g : Become(c, g) /\ Same(g, f) /\ g.pc # "unpublished"
    BY <1>3, <1>6 DEF Depth
  <2>2. QED
    BY <1>1, <1>u, <2>1, Replacing DEF Advances
<1>7. CASE Admit(c)
  <2>1. PICK g : Become(c, g) /\ Same(g, f) /\ g.pc # "unpublished"
    BY <1>2, <1>7 DEF Admit, Same, Frame
  <2>2. QED
    BY <1>1, <1>u, <2>1, Replacing DEF Advances
<1>8. CASE MintTicket(c)
  <2> DEFINE g == [f EXCEPT !.pc = "get", !.minted = Ticket]
  <2>1. Become(c, g)
    BY <1>8 DEF MintTicket
  <2>2. Same(g, f) /\ g.pc # "unpublished"
    BY <1>2 DEF Same, Frame
  <2> HIDE DEF g
  <2>3. QED
    BY <1>1, <1>u, <2>1, <2>2, Replacing DEF Advances
<1>9. CASE GetParser(c)
  <2>1. HasReference(f)
    BY <1>2, <1>9 DEF GetParser, At, GoodFrame
  <2> DEFINE g == [f EXCEPT !.pc = IF published = NoInstance THEN "unpublished" ELSE "process",
                            !.parser = published]
  <2>2. Become(c, g)
    BY <1>9 DEF GetParser
  <2>3. Same(g, f) /\ (g.pc = "unpublished" => published = NoInstance)
    BY <1>2 DEF Same, Frame
  <2> HIDE DEF g
  <2>4. QED
    BY <1>1, <1>u, <2>1, <2>2, <2>3, Replacing DEF Advances
<1>10. CASE ProcessText(c)
  <2> DEFINE g == [f EXCEPT !.pc = "discard", !.value = @ \o Unparsed(Reference(f))]
  <2>1. Become(c, g)
    BY <1>10 DEF ProcessText
  <2>2. Same(g, f) /\ g.pc # "unpublished"
    BY <1>2 DEF Same, Frame
  <2> HIDE DEF g
  <2>3. QED
    BY <1>1, <1>u, <2>1, <2>2, Replacing DEF Advances
<1>11. CASE NoThread(c)
  <2>1. PICK g : Become(c, g) /\ Same(g, f) /\ g.pc # "unpublished"
    BY <1>2, <1>11, ProcessedIsSame DEF NoThread
  <2>2. QED
    BY <1>1, <1>u, <2>1, Replacing DEF Advances
<1>12. CASE TakeReport(c)
  <2>1. PICK g : Become(c, g) /\ Same(g, f) /\ g.pc # "unpublished"
    BY <1>3, <1>12 DEF TakeReport
  <2>2. QED
    BY <1>1, <1>u, <2>1, Replacing DEF Advances
<1>13. CASE DiscardReport(c)
  <2> DEFINE g == [f EXCEPT !.pc = "scan", !.at = @ + 1, !.minted = NoTicket,
                             !.parser = NoInstance]
  <2>1. Become(c, g)
    BY <1>13 DEF DiscardReport
  <2>2. Same(g, f) /\ g.pc # "unpublished"
    BY <1>2 DEF Same, Frame
  <2> HIDE DEF g
  <2>3. QED
    BY <1>1, <1>u, <2>1, <2>2, Replacing DEF Advances
<1>14. QED
  BY <1>4, <1>5, <1>6, <1>7, <1>8, <1>9, <1>10, <1>11, <1>12, <1>13

LEMMA Descending ==
    ASSUME IInv, NEW c \in Callers, ParseHere(c) \/ ParseOnThread(c)
    PROVE  Descends(c)
<1> DEFINE f == Running(c)
<1>1. ~Idle(c) /\ f.pc = "process" /\ Reparses(Reference(f)) /\ Descend(c)
  BY DEF ParseHere, ParseOnThread, At
<1>2. f \in Frame /\ f \in GoodFrame
  BY <1>1, TopOf
<1>3. HasReference(f)
  BY <1>1, <1>2 DEF GoodFrame
<1>4. Pushes(c, [f EXCEPT !.pc = "await"], Child(f))
  BY <1>1, Pushing
<1>5. Same([f EXCEPT !.pc = "await"], f) /\ Link([f EXCEPT !.pc = "await"], Child(f))
  BY <1>1, <1>2, ChildIsLinked
<1>6. [f EXCEPT !.pc = "await"].pc = "await" /\ Child(f).pc = "scan"
  BY <1>2 DEF Frame, Child, NewFrame
<1>7. /\ threads' = IF Child(f).segment THEN threads + 1 ELSE threads
      /\ UNCHANGED published
  BY DEF ParseHere, ParseOnThread, Descend
<1>8. QED
  BY <1>3, <1>4, <1>5, <1>6, <1>7 DEF Descends

LEMMA Ending ==
    ASSUME IInv, NEW c \in Callers, Finish(c) \/ Fail(c) \/ Abort(c)
    PROVE  Closes(c) \/ Resumes(c)
<1>1. ~Idle(c)
  BY DEF Finish, Fail, Abort, At
<1>2. PICK e : Return(c, e)
  BY DEF Finish, Fail, Abort
<1>r. Joined(Running(c)) /\ UNCHANGED published
  BY <1>2 DEF Return
<1>3. CASE Clears(c)
  BY <1>r, <1>3 DEF Closes
<1>4. CASE Pops(c, Resumed(c, e))
  <2> DEFINE p == stack[c][Len(stack[c]) - 1]
  <2>1. p \in Frame
    <3>1. stack[c] \in Seq(GoodFrame) /\ Len(stack[c]) > 1
      BY <1>4, StackType DEF Pops
    <3>2. QED
      BY <3>1, BelowTop DEF GoodFrame
  <2>2. Same(Resumed(c, e), p) /\ Resumed(c, e).pc # "unpublished"
    BY <2>1, ProcessedIsSame DEF Resumed
  <2>3. QED
    BY <1>r, <1>4, <2>2 DEF Resumes
<1>5. QED
  BY <1>1, <1>2, <1>3, <1>4, Returning

LEMMA Starting ==
    ASSUME IInv, NEW c \in Callers, NEW d \in Documents, NEW base \in Bases,
           NEW i \in Instances, Start(c, d, base, i)
    PROVE  Begins(c, NewFrame(d, i, base, <<>>, NoTicket, FALSE))
<1> DEFINE h == NewFrame(d, i, base, <<>>, NoTicket, FALSE)
<1> HIDE DEF h
<1>1. stack[c] = <<>> /\ stack' = [stack EXCEPT ![c] = <<h>>]
  BY DEF Start, Idle, h
<1>2. stack \in [Callers -> Seq(GoodFrame)]
  BY DEF IInv, StackInv
<1>3. stack'[c] = <<h>> /\ Others(c)
  BY <1>1, <1>2 DEF Others
<1>4. Begins(c, h)
  BY <1>1, <1>3 DEF Begins
<1>5. QED
  BY <1>4 DEF h

LEMMA Opening ==
    ASSUME IInv, NEW c \in Callers, NEW d \in Documents, NEW base \in Bases,
           NEW i \in Instances, Start(c, d, base, i)
    PROVE  Opens(c)
<1> DEFINE h == NewFrame(d, i, base, <<>>, NoTicket, FALSE)
<1>1. Begins(c, h)
  BY Starting
<1>2. Bottom(h) /\ h.pc = "scan" /\ h.name = d
  BY DEF Bottom, NewFrame
<1> HIDE DEF h
<1>3. published' = NoInstance => published = NoInstance /\ Refs[h.name] = <<>>
  BY <1>2, LoadsAssumption DEF Start, PublishedBy
<1>4. UNCHANGED threads
  BY DEF Start
<1>5. QED
  BY <1>1, <1>2, <1>3, <1>4 DEF Opens

LEMMA StepShapes ==
    ASSUME IInv, [Next]_vars
    PROVE  \/ UNCHANGED <<stack, published, threads>>
           \/ \E c \in Callers : \/ Opens(c) \/ Advances(c) \/ Descends(c)
                                 \/ Resumes(c) \/ Closes(c)
<1>1. CASE UNCHANGED vars \/ Finished
  BY <1>1 DEF vars, Finished
<1>2. ASSUME NEW c \in Callers, NEW d \in Documents, NEW base \in Bases,
             NEW i \in Instances, Start(c, d, base, i)
      PROVE  Opens(c)
  BY <1>2, Opening
<1>3. ASSUME NEW c \in Callers, Step(c)
      PROVE  Advances(c) \/ Descends(c) \/ Resumes(c) \/ Closes(c)
  BY <1>3, Advancing, Descending, Ending DEF Step
<1>4. QED
  BY <1>1, <1>2, <1>3 DEF Next

(***************************************************************************)
(* A set the frames of all the stacks are in: it is enough to know that    *)
(* the frames a step writes are in it.                                     *)
(***************************************************************************)
FramesIn(S) == \A c \in Callers : \A i \in 1 .. Len(stack[c]) : stack[c][i] \in S

NextFramesIn(S) == \A c \in Callers : \A i \in 1 .. Len(stack'[c]) : stack'[c][i] \in S

LEMMA FramesOfOne ==
    ASSUME NEW S, FramesIn(S), NEW c \in Callers, Others(c),
           \A i \in 1 .. Len(stack'[c]) : stack'[c][i] \in S
    PROVE  NextFramesIn(S)
<1> SUFFICES ASSUME NEW d \in Callers, NEW i \in 1 .. Len(stack'[d])
             PROVE  stack'[d][i] \in S
  BY DEF NextFramesIn
<1>1. CASE d = c
  BY <1>1
<1>2. CASE d # c
  <2>1. stack'[d] = stack[d]
    BY <1>2 DEF Others
  <2>2. QED
    BY <2>1 DEF FramesIn
<1>3. QED
  BY <1>1, <1>2

LEMMA FramesReplaced ==
    ASSUME IInv, NEW S, FramesIn(S), NEW c \in Callers, NEW g \in S, Replaces(c, g)
    PROVE  NextFramesIn(S)
<1> DEFINE n == Len(stack[c])
<1>1. n \in Nat /\ \A i \in 1 .. n : stack[c][i] \in S
  BY StackType DEF FramesIn
<1>2. Len(stack'[c]) = n /\ stack'[c][n] = g /\ \A i \in 1 .. n - 1 : stack'[c][i] = stack[c][i]
  BY DEF Replaces, SameBelow
<1> HIDE DEF n
<1>3. \A i \in 1 .. n : stack'[c][i] \in S
  BY <1>1, <1>2
<1>4. QED
  BY <1>2, <1>3, FramesOfOne DEF Replaces

LEMMA FramesPushed ==
    ASSUME IInv, NEW S, FramesIn(S), NEW c \in Callers, NEW g \in S, NEW h \in S,
           Pushes(c, g, h)
    PROVE  NextFramesIn(S)
<1> DEFINE n == Len(stack[c])
<1>1. n \in Nat /\ \A i \in 1 .. n : stack[c][i] \in S
  BY StackType DEF FramesIn
<1>2. /\ Len(stack'[c]) = n + 1 /\ stack'[c][n] = g /\ stack'[c][n + 1] = h
      /\ \A i \in 1 .. n - 1 : stack'[c][i] = stack[c][i]
  BY DEF Pushes, SameBelow
<1> HIDE DEF n
<1>3. \A i \in 1 .. n + 1 : stack'[c][i] \in S
  BY <1>1, <1>2
<1>4. QED
  BY <1>2, <1>3, FramesOfOne DEF Pushes

LEMMA FramesPopped ==
    ASSUME IInv, NEW S, FramesIn(S), NEW c \in Callers, NEW g \in S, Pops(c, g)
    PROVE  NextFramesIn(S)
<1> DEFINE n == Len(stack[c])
<1>1. n \in Nat /\ \A i \in 1 .. n : stack[c][i] \in S
  BY StackType DEF FramesIn
<1>2. /\ Len(stack'[c]) = n - 1 /\ stack'[c][n - 1] = g
      /\ \A i \in 1 .. n - 1 - 1 : stack'[c][i] = stack[c][i]
  BY DEF Pops, SameBelow
<1> HIDE DEF n
<1>3. \A i \in 1 .. n - 1 : stack'[c][i] \in S
  BY <1>1, <1>2
<1>4. QED
  BY <1>2, <1>3, FramesOfOne DEF Pops

LEMMA FramesBegun ==
    ASSUME IInv, NEW S, FramesIn(S), NEW c \in Callers, NEW h \in S, Begins(c, h)
    PROVE  NextFramesIn(S)
<1>1. \A i \in 1 .. Len(stack'[c]) : stack'[c][i] \in S
  BY DEF Begins
<1>2. QED
  BY <1>1, FramesOfOne DEF Begins

LEMMA FramesCleared ==
    ASSUME IInv, NEW S, FramesIn(S), NEW c \in Callers, Clears(c)
    PROVE  NextFramesIn(S)
<1>1. \A i \in 1 .. Len(stack'[c]) : stack'[c][i] \in S
  BY EmptySeq DEF Clears
<1>2. QED
  BY <1>1, FramesOfOne DEF Clears

\* The frames a step writes are good ones.
LEMMA NewFramesType ==
    ASSUME IInv, IInv', NEW c \in Callers
    PROVE  /\ \A g : Replaces(c, g) \/ Pops(c, g) \/ Begins(c, g) => g \in GoodFrame
           /\ \A g, h : Pushes(c, g, h) => g \in GoodFrame /\ h \in GoodFrame
<1> DEFINE n == Len(stack[c])
<1>1. /\ n \in Nat /\ Len(stack'[c]) \in Nat
      /\ \A i \in 1 .. Len(stack'[c]) : stack'[c][i] \in GoodFrame
  <2>1. stack'[c] \in Seq(GoodFrame)
    BY DEF IInv, StackInv
  <2>2. QED
    BY <2>1, StackType, LenProperties, ElementOfSeq
<1>2. ASSUME NEW g, Replaces(c, g) PROVE g \in GoodFrame
  <2>1. n > 0 /\ Len(stack'[c]) = n /\ stack'[c][n] = g
    BY <1>2 DEF Replaces
  <2> HIDE DEF n
  <2>2. QED
    BY <1>1, <2>1
<1>3. ASSUME NEW g, Pops(c, g) PROVE g \in GoodFrame
  <2>1. n > 1 /\ Len(stack'[c]) = n - 1 /\ stack'[c][n - 1] = g
    BY <1>3 DEF Pops
  <2> HIDE DEF n
  <2>2. QED
    BY <1>1, <2>1
<1>4. ASSUME NEW g, Begins(c, g) PROVE g \in GoodFrame
  BY <1>1, <1>4 DEF Begins
<1>5. ASSUME NEW g, NEW h, Pushes(c, g, h) PROVE g \in GoodFrame /\ h \in GoodFrame
  <2>1. n > 0 /\ Len(stack'[c]) = n + 1 /\ stack'[c][n] = g /\ stack'[c][n + 1] = h
    BY <1>5 DEF Pushes
  <2> HIDE DEF n
  <2>2. QED
    BY <1>1, <2>1
<1>6. QED
  BY <1>2, <1>3, <1>4, <1>5

(***************************************************************************)
(* The parses of a stack stay linked.                                      *)
(***************************************************************************)
LEMMA SameLink ==
    ASSUME NEW f, NEW g, NEW h, Same(g, h), Link(f, h)
    PROVE  Link(f, g)
  BY DEF Same, Link

LEMMA SameBottom ==
    ASSUME NEW g, NEW h, Same(g, h), Bottom(h)
    PROVE  Bottom(g)
  BY DEF Same, Bottom

LEMMA LinksAdvance ==
    ASSUME IInv, NEW c \in Callers, LinksOf(stack[c]), Advances(c)
    PROVE  LinksOf(stack'[c])
<1>1. PICK g : Replaces(c, g) /\ Same(g, Running(c))
  BY DEF Advances
<1> DEFINE s == stack[c]
           u == stack'[c]
           n == Len(stack[c])
<1>2. n \in Nat /\ n > 0 /\ Running(c) = s[n]
  BY <1>1, StackType, TopOf DEF Replaces, Idle
<1>3. Len(u) = n /\ u[n] = g /\ \A i \in 1 .. n - 1 : u[i] = s[i]
  BY <1>1 DEF Replaces, SameBelow
<1>4. Len(s) = n /\ LinksOf(s) /\ Same(g, s[n])
  BY <1>1, <1>2
<1> HIDE DEF s, u, n
<1>5. Bottom(s[1]) /\ \A i \in 1 .. n - 1 : Link(s[i], s[i + 1])
  BY <1>2, <1>4 DEF LinksOf
<1>6. Bottom(u[1])
  <2>1. CASE n = 1
    BY <1>3, <1>4, <1>5, <2>1, SameBottom
  <2>2. CASE n # 1
    BY <1>2, <1>3, <1>5, <2>2
  <2>3. QED
    BY <2>1, <2>2
<1>7. ASSUME NEW i \in 1 .. n - 1
      PROVE  Link(u[i], u[i + 1])
  <2>1. Link(s[i], s[i + 1]) /\ u[i] = s[i]
    BY <1>3, <1>5
  <2>2. CASE i = n - 1
    BY <1>2, <1>3, <1>4, <2>1, <2>2, SameLink
  <2>3. CASE i # n - 1
    <3>1. i + 1 \in 1 .. n - 1
      BY <1>2, <2>3
    <3>2. QED
      BY <1>3, <2>1, <3>1
  <2>4. QED
    BY <2>2, <2>3
<1>8. LinksOf(u)
  BY <1>3, <1>6, <1>7 DEF LinksOf
<1>9. QED
  BY <1>8 DEF u

LEMMA LinksDescend ==
    ASSUME IInv, NEW c \in Callers, LinksOf(stack[c]), Descends(c)
    PROVE  LinksOf(stack'[c])
<1>1. PICK g, h : Pushes(c, g, h) /\ Same(g, Running(c)) /\ Link(g, h)
  BY DEF Descends
<1> DEFINE s == stack[c]
           u == stack'[c]
           n == Len(stack[c])
<1>2. n \in Nat /\ n > 0 /\ Running(c) = s[n]
  BY <1>1, StackType, TopOf DEF Pushes, Idle
<1>3. Len(u) = n + 1 /\ u[n] = g /\ u[n + 1] = h /\ \A i \in 1 .. n - 1 : u[i] = s[i]
  BY <1>1 DEF Pushes, SameBelow
<1>4. Len(s) = n /\ LinksOf(s) /\ Same(g, s[n])
  BY <1>1, <1>2
<1> HIDE DEF s, u, n
<1>5. Bottom(s[1]) /\ \A i \in 1 .. n - 1 : Link(s[i], s[i + 1])
  BY <1>2, <1>4 DEF LinksOf
<1>6. Bottom(u[1])
  <2>1. CASE n = 1
    BY <1>3, <1>4, <1>5, <2>1, SameBottom
  <2>2. CASE n # 1
    BY <1>2, <1>3, <1>5, <2>2
  <2>3. QED
    BY <2>1, <2>2
<1>7. ASSUME NEW i \in 1 .. n
      PROVE  Link(u[i], u[i + 1])
  <2>1. CASE i = n
    BY <1>1, <1>3, <2>1
  <2>2. CASE i # n
    <3>1. i \in 1 .. n - 1
      BY <1>2, <2>2
    <3>2. Link(s[i], s[i + 1]) /\ u[i] = s[i]
      BY <1>3, <1>5, <3>1
    <3>3. CASE i = n - 1
      BY <1>2, <1>3, <1>4, <3>2, <3>3, SameLink
    <3>4. CASE i # n - 1
      <4>1. i + 1 \in 1 .. n - 1
        BY <1>2, <3>1, <3>4
      <4>2. QED
        BY <1>3, <3>2, <4>1
    <3>5. QED
      BY <3>3, <3>4
  <2>3. QED
    BY <2>1, <2>2
<1>8. Len(u) > 0 /\ \A i \in 1 .. Len(u) - 1 : Link(u[i], u[i + 1])
  BY <1>2, <1>3, <1>7
<1>9. LinksOf(u)
  BY <1>6, <1>8 DEF LinksOf
<1>10. QED
  BY <1>9 DEF u

LEMMA LinksResume ==
    ASSUME IInv, NEW c \in Callers, LinksOf(stack[c]), Resumes(c)
    PROVE  LinksOf(stack'[c])
<1>1. PICK g : Pops(c, g) /\ Same(g, stack[c][Len(stack[c]) - 1])
  BY DEF Resumes
<1> DEFINE s == stack[c]
           u == stack'[c]
           n == Len(stack[c]) - 1
<1>2. Len(s) \in Nat /\ Len(s) > 1
  BY <1>1, StackType DEF Pops
<1>3. Len(u) = n /\ u[n] = g /\ \A i \in 1 .. n - 1 : u[i] = s[i]
  BY <1>1 DEF Pops, SameBelow
<1>4. n = Len(s) - 1 /\ LinksOf(s) /\ Same(g, s[n])
  BY <1>1
<1> HIDE DEF s, u, n
<1>5. n \in Nat /\ n > 0 /\ Len(s) = n + 1
  BY <1>2, <1>4
<1>6. Bottom(s[1]) /\ \A i \in 1 .. n : Link(s[i], s[i + 1])
  BY <1>4, <1>5 DEF LinksOf
<1>7. Bottom(u[1])
  <2>1. CASE n = 1
    BY <1>3, <1>4, <1>6, <2>1, SameBottom
  <2>2. CASE n # 1
    BY <1>3, <1>5, <1>6, <2>2
  <2>3. QED
    BY <2>1, <2>2
<1>8. ASSUME NEW i \in 1 .. n - 1
      PROVE  Link(u[i], u[i + 1])
  <2>1. Link(s[i], s[i + 1]) /\ u[i] = s[i]
    BY <1>3, <1>5, <1>6
  <2>2. CASE i = n - 1
    BY <1>3, <1>4, <1>5, <2>1, <2>2, SameLink
  <2>3. CASE i # n - 1
    <3>1. i + 1 \in 1 .. n - 1
      BY <1>5, <2>3
    <3>2. QED
      BY <1>3, <2>1, <3>1
  <2>4. QED
    BY <2>2, <2>3
<1>9. LinksOf(u)
  BY <1>3, <1>7, <1>8 DEF LinksOf
<1>10. QED
  BY <1>9 DEF u

LEMMA LinksKept ==
    ASSUME IInv, LinksInv, [Next]_vars
    PROVE  LinksInv'
<1>1. CASE UNCHANGED stack
  BY <1>1 DEF LinksInv
<1>2. ASSUME NEW c \in Callers, LinksOf(stack'[c]), Others(c)
      PROVE  LinksInv'
  <2> SUFFICES ASSUME NEW d \in Callers PROVE LinksOf(stack'[d])
    BY DEF LinksInv
  <2>1. CASE d = c
    BY <1>2, <2>1
  <2>2. CASE d # c
    <3>1. stack'[d] = stack[d]
      BY <1>2, <2>2 DEF Others
    <3>2. QED
      BY <3>1 DEF LinksInv
  <2>3. QED
    BY <2>1, <2>2
<1>3. ASSUME NEW c \in Callers, Opens(c)
      PROVE  LinksOf(stack'[c]) /\ Others(c)
  BY <1>3 DEF Opens, Begins, LinksOf
<1>4. ASSUME NEW c \in Callers, Closes(c)
      PROVE  LinksOf(stack'[c]) /\ Others(c)
  BY <1>4, EmptySeq DEF Closes, Clears, LinksOf
<1>5. ASSUME NEW c \in Callers, Advances(c) \/ Descends(c) \/ Resumes(c)
      PROVE  LinksOf(stack'[c]) /\ Others(c)
  <2>1. LinksOf(stack[c])
    BY DEF LinksInv
  <2>2. Others(c)
    BY <1>5 DEF Advances, Descends, Resumes, Replaces, Pushes, Pops
  <2>3. QED
    BY <1>5, <2>1, <2>2, LinksAdvance, LinksDescend, LinksResume
<1>6. QED
  BY <1>1, <1>2, <1>3, <1>4, <1>5, StepShapes

(***************************************************************************)
(* Every nested parse works on the reference its parent is at: its text is *)
(* that source, its chain the parent's, its report slot the one the parent *)
(* minted for it (child_meta and Processor::run).                          *)
(***************************************************************************)
THEOREM ParsesLinked == Spec => []LinksInv
<1>1. Init => LinksInv
  BY EmptySeq DEF Init, LinksInv, LinksOf
<1>2. IInv /\ LinksInv /\ [Next]_vars => LinksInv'
  BY LinksKept
<1>3. QED
  BY <1>1, <1>2, Invariance, PTL DEF Spec

(***************************************************************************)
(* A parse below another and the ancestor chains of the two.               *)
(***************************************************************************)

\* Every source a processor re-parses has a full path.  jsonic_processor sees
\* to it itself; a callback of with_processor has it from the resolver.
FullPaths == \A r \in Sources : Reparses(r) => r \in Named

\* A frame below another, with what the invariant says of the two.
LEMMA LinkedFrames ==
    ASSUME IInv, LinksInv, NEW c \in Callers, NEW i \in 1 .. Len(stack[c]) - 1
    PROVE  /\ i \in 1 .. Len(stack[c]) /\ i + 1 \in 1 .. Len(stack[c])
           /\ stack[c][i] \in GoodFrame /\ stack[c][i] \in Frame
           /\ stack[c][i + 1] \in GoodFrame /\ stack[c][i + 1] \in Frame
           /\ stack[c][i].pc = "await" /\ HasReference(stack[c][i])
           /\ Link(stack[c][i], stack[c][i + 1])
<1>1. i \in 1 .. Len(stack[c]) /\ i + 1 \in 1 .. Len(stack[c])
  <2> DEFINE n == Len(stack[c])
  <2>1. n \in Nat /\ i \in 1 .. n - 1
    BY StackType
  <2> HIDE DEF n
  <2>2. i \in 1 .. n /\ i + 1 \in 1 .. n
    BY <2>1
  <2>3. QED
    BY <2>2 DEF n
<1>2. /\ stack[c][i] \in GoodFrame /\ stack[c][i] \in Frame
      /\ stack[c][i + 1] \in GoodFrame /\ stack[c][i + 1] \in Frame
  BY <1>1, StackType
<1>3. stack[c][i].pc = "await" /\ Link(stack[c][i], stack[c][i + 1])
  BY DEF IInv, StackInv, LinksInv, LinksOf
<1>4. HasReference(stack[c][i])
  BY <1>2, <1>3 DEF GoodFrame
<1>5. QED
  BY <1>1, <1>2, <1>3, <1>4

LEMMA LinkedChain ==
    ASSUME FullPaths, NEW f \in Frame, NEW h \in Frame, HasReference(f), Link(f, h)
    PROVE  /\ h.name \in Sources /\ h.path = h.name
           /\ Ancestors(h) = Append(Ancestors(f), h.name)
           /\ Ancestors(f) \in Seq(Sources)
           /\ Len(Ancestors(h)) = Len(Ancestors(f)) + 1
<1>1. h.name \in Sources
  BY ReferenceIsSource DEF Link
<1>2. h.path = h.name /\ h.name # NoPath
  BY <1>1, GraphAssumption DEF Link, FullPaths, ChildPath
<1>3. h.parents = Ancestors(f) /\ Ancestors(f) \in Seq(Sources)
  BY ChainIsSeq DEF Link
<1>4. Ancestors(h) = Append(h.parents, h.name)
  BY <1>2 DEF Ancestors, Chain
<1>5. Ancestors(h) = Append(Ancestors(f), h.name)
  BY <1>3, <1>4
<1>6. Len(Append(Ancestors(f), h.name)) = Len(Ancestors(f)) + 1
  BY <1>1, <1>3, AppendTo
<1>7. QED
  BY <1>1, <1>2, <1>3, <1>5, <1>6
(***************************************************************************)
(* The inductive invariant: a frame holds a ticket from the moment it mints*)
(* one, no two frames hold the same, and a slot holds a report only while  *)
(* the load it was recorded for is over and has not picked it up.          *)
(***************************************************************************)
Ticketed == {"get", "process", "await", "take", "discard", "panic", "unpublished"}

Reported == {"take", "discard", "panic"}

TicketFrames(sl, nx) ==
    {f \in GoodFrame :
        /\ f.pc \in {"scan", "mint"} => f.minted = NoTicket
        /\ f.pc \in Ticketed => f.minted \in Nat
        /\ f.minted \in Nat => f.minted < nx
        /\ f.minted \in DOMAIN sl => f.pc \in Reported
        /\ f.minted \in DOMAIN sl /\ f.pc = "take" =>
              sl[f.minted] = f.error \/ f.error.code = "custom"
        /\ f.pc = "panic" => Processing[Reference(f)] = "panicking"}

DistinctTickets ==
    \A c, d \in Callers : \A i \in 1 .. Len(stack[c]), j \in 1 .. Len(stack[d]) :
        stack[c][i].minted = stack[d][j].minted /\ stack[c][i].minted # NoTicket
            => c = d /\ i = j

TicketsInv ==
    /\ FramesIn(TicketFrames(slots, next))
    /\ DistinctTickets
    /\ \A k \in DOMAIN slots : k < next

(***************************************************************************)
(* The tickets stay distinct when each frame of the caller that moves      *)
(* keeps its ticket, has none, or is the one that got a fresh one.         *)
(***************************************************************************)
KeepsTicket(c, i) ==
    i \in 1 .. Len(stack[c]) /\ stack'[c][i].minted = stack[c][i].minted

Unused(k) == \A d \in Callers : \A j \in 1 .. Len(stack[d]) : stack[d][j].minted # k

LEMMA DistinctKept ==
    ASSUME DistinctTickets, NEW c \in Callers, Others(c), NEW t \in Nat,
           \A i \in 1 .. Len(stack'[c]) :
               \/ KeepsTicket(c, i)
               \/ stack'[c][i].minted = NoTicket
               \/ i = t /\ Unused(stack'[c][i].minted)
    PROVE  DistinctTickets'
<1> DEFINE Fresh(d, i) == d = c /\ i = t /\ Unused(stack'[d][i].minted)
<1>1. ASSUME NEW d \in Callers, NEW i \in 1 .. Len(stack'[d])
      PROVE  KeepsTicket(d, i) \/ stack'[d][i].minted = NoTicket \/ Fresh(d, i)
  <2>1. CASE d = c
    BY <2>1
  <2>2. CASE d # c
    <3>1. stack'[d] = stack[d]
      BY <2>2 DEF Others
    <3>2. QED
      BY <3>1 DEF KeepsTicket
  <2>3. QED
    BY <2>1, <2>2
<1>2. ASSUME NEW d \in Callers, NEW e \in Callers, NEW i \in 1 .. Len(stack'[d]),
             NEW j \in 1 .. Len(stack'[e]),
             stack'[d][i].minted = stack'[e][j].minted, stack'[d][i].minted # NoTicket
      PROVE  d = e /\ i = j
  <2>1. CASE KeepsTicket(d, i) /\ KeepsTicket(e, j)
    <3>1. i \in 1 .. Len(stack[d]) /\ j \in 1 .. Len(stack[e])
      BY <2>1 DEF KeepsTicket
    <3>2. stack[d][i].minted = stack[e][j].minted /\ stack[d][i].minted # NoTicket
      BY <1>2, <2>1 DEF KeepsTicket
    <3>3. QED
      BY <3>1, <3>2 DEF DistinctTickets
  <2>2. CASE KeepsTicket(d, i) /\ Fresh(e, j)
    BY <1>2, <2>2 DEF KeepsTicket, Unused
  <2>3. CASE Fresh(d, i) /\ KeepsTicket(e, j)
    BY <1>2, <2>3 DEF KeepsTicket, Unused
  <2>4. CASE Fresh(d, i) /\ Fresh(e, j)
    BY <2>4
  <2> HIDE DEF Fresh
  <2>5. KeepsTicket(d, i) \/ Fresh(d, i)
    BY <1>1, <1>2
  <2>6. KeepsTicket(e, j) \/ Fresh(e, j)
    BY <1>1, <1>2
  <2>7. QED
    BY <2>1, <2>2, <2>3, <2>4, <2>5, <2>6
<1>3. QED
  BY <1>2 DEF DistinctTickets

LEMMA TicketsReplaced ==
    ASSUME IInv, DistinctTickets, NEW c \in Callers, NEW g, Replaces(c, g),
           \/ g.minted = stack[c][Len(stack[c])].minted
           \/ g.minted = NoTicket
           \/ Unused(g.minted)
    PROVE  DistinctTickets'
<1> DEFINE n == Len(stack[c])
<1>1. n \in Nat /\ n > 0
  BY StackType DEF Replaces
<1>2. /\ Others(c) /\ Len(stack'[c]) = n /\ stack'[c][n] = g
      /\ \A i \in 1 .. n - 1 : stack'[c][i] = stack[c][i]
  BY DEF Replaces, SameBelow
<1>3. g.minted = stack[c][n].minted \/ g.minted = NoTicket \/ Unused(g.minted)
  OBVIOUS
<1>4. \A i : KeepsTicket(c, i) <=> i \in 1 .. n /\ stack'[c][i].minted = stack[c][i].minted
  BY DEF KeepsTicket
<1> HIDE DEF n
<1>5. \A i \in 1 .. n : \/ KeepsTicket(c, i)
                        \/ stack'[c][i].minted = NoTicket
                        \/ i = n /\ Unused(stack'[c][i].minted)
  BY <1>1, <1>2, <1>3, <1>4
<1>6. QED
  BY <1>1, <1>2, <1>5, DistinctKept

LEMMA TicketsPushed ==
    ASSUME IInv, DistinctTickets, NEW c \in Callers, NEW g, NEW h, Pushes(c, g, h),
           g.minted = stack[c][Len(stack[c])].minted, h.minted = NoTicket
    PROVE  DistinctTickets'
<1> DEFINE n == Len(stack[c])
<1>1. n \in Nat /\ n > 0
  BY StackType DEF Pushes
<1>2. /\ Others(c) /\ Len(stack'[c]) = n + 1 /\ stack'[c][n] = g /\ stack'[c][n + 1] = h
      /\ \A i \in 1 .. n - 1 : stack'[c][i] = stack[c][i]
  BY DEF Pushes, SameBelow
<1>3. g.minted = stack[c][n].minted
  OBVIOUS
<1>4. \A i : KeepsTicket(c, i) <=> i \in 1 .. n /\ stack'[c][i].minted = stack[c][i].minted
  BY DEF KeepsTicket
<1> HIDE DEF n
<1>5. \A i \in 1 .. n + 1 : KeepsTicket(c, i) \/ stack'[c][i].minted = NoTicket
  BY <1>1, <1>2, <1>3, <1>4
<1>6. QED
  BY <1>1, <1>2, <1>5, DistinctKept

LEMMA TicketsPopped ==
    ASSUME IInv, DistinctTickets, NEW c \in Callers, NEW g, Pops(c, g),
           g.minted = stack[c][Len(stack[c]) - 1].minted
    PROVE  DistinctTickets'
<1> DEFINE n == Len(stack[c])
<1>1. n \in Nat /\ n > 1
  BY StackType DEF Pops
<1>2. /\ Others(c) /\ Len(stack'[c]) = n - 1 /\ stack'[c][n - 1] = g
      /\ \A i \in 1 .. n - 1 - 1 : stack'[c][i] = stack[c][i]
  BY DEF Pops, SameBelow
<1>3. g.minted = stack[c][n - 1].minted
  OBVIOUS
<1>4. \A i : KeepsTicket(c, i) <=> i \in 1 .. n /\ stack'[c][i].minted = stack[c][i].minted
  BY DEF KeepsTicket
<1> HIDE DEF n
<1>5. \A i \in 1 .. n - 1 : KeepsTicket(c, i)
  BY <1>1, <1>2, <1>3, <1>4
<1>6. QED
  BY <1>1, <1>2, <1>5, DistinctKept

LEMMA TicketsCleared ==
    ASSUME IInv, DistinctTickets, NEW c \in Callers, Clears(c)
    PROVE  DistinctTickets'
<1>1. Others(c) /\ Len(stack'[c]) = 0
  BY EmptySeq DEF Clears
<1>2. QED
  BY <1>1, DistinctKept

LEMMA TicketsBegun ==
    ASSUME IInv, DistinctTickets, NEW c \in Callers, NEW h, Begins(c, h), h.minted = NoTicket
    PROVE  DistinctTickets'
<1>1. Others(c) /\ \A i \in 1 .. Len(stack'[c]) : stack'[c][i].minted = NoTicket
  BY DEF Begins
<1>2. QED
  BY <1>1, DistinctKept

(***************************************************************************)
(* The frames a step leaves behind.                                        *)
(***************************************************************************)
\* The same frames with more tickets minted and slots freed.
LEMMA FewerSlots ==
    ASSUME NEW sl, NEW nx \in Nat, NEW tl, NEW ny \in Nat, nx <= ny,
           DOMAIN tl \subseteq DOMAIN sl, \A k \in DOMAIN tl : tl[k] = sl[k]
    PROVE  TicketFrames(sl, nx) \subseteq TicketFrames(tl, ny)
<1> SUFFICES ASSUME NEW f \in TicketFrames(sl, nx)
             PROVE  f \in TicketFrames(tl, ny)
  OBVIOUS
<1>1. f.minted \in Nat => f.minted < ny
  BY DEF TicketFrames
<1>2. QED
  BY <1>1 DEF TicketFrames

\* A load goes on with the ticket it has, and no report under it.
LEMMA StillTicketed ==
    ASSUME NEW sl, NEW nx \in Nat, NEW f \in TicketFrames(sl, nx), NEW g \in GoodFrame,
           f.pc \notin Reported, g.minted = f.minted, g.pc # "panic",
           g.pc \in {"scan", "mint"} => f.minted = NoTicket,
           g.pc \in Ticketed => f.minted \in Nat
    PROVE  g \in TicketFrames(sl, nx)
  BY DEF TicketFrames

LEMMA ProcessedIsTicketed ==
    ASSUME NEW sl, NEW nx \in Nat, NEW f \in GoodFrame, f.minted \in Nat, f.minted < nx,
           NEW e, NEW v, Processed(f, e, v) \in GoodFrame,
           f.minted \in DOMAIN sl => sl[f.minted] = e
    PROVE  Processed(f, e, v) \in TicketFrames(sl, nx)
<1> DEFINE g == Processed(f, e, v)
<1>1. f \in Frame
  BY DEF GoodFrame
<1>2. g.minted = f.minted /\ g.pc \in Reported /\ g.name = f.name /\ g.at = f.at
  BY <1>1, ProcessedIsSame DEF Same, Reported
<1>3. Reference(g) = Reference(f)
  BY <1>2 DEF Reference
<1>4. g.pc = "take" => g.error = e \/ g.error.code = "custom"
  BY <1>1 DEF Processed, Frame
<1>5. g.pc = "panic" => Processing[Reference(f)] = "panicking"
  BY <1>1 DEF Processed, Frame
<1> HIDE DEF g
<1>6. g \in GoodFrame
  BY DEF g
<1>7. g.pc \notin {"scan", "mint"}
  BY <1>2 DEF Reported
<1>8. g \in TicketFrames(sl, nx)
  BY <1>2, <1>3, <1>4, <1>5, <1>6, <1>7 DEF TicketFrames
<1>9. QED
  BY <1>8 DEF g

\* Only the frames that stay need be in the set.
LEMMA FramesPoppedTo ==
    ASSUME IInv, NEW S, NEW c \in Callers, NEW g \in S, Pops(c, g),
           \A d \in Callers : \A i \in 1 .. Len(stack[d]) :
               d # c \/ i < Len(stack[c]) - 1 => stack[d][i] \in S
    PROVE  NextFramesIn(S)
<1> DEFINE n == Len(stack[c])
<1>1. n \in Nat /\ \A i \in 1 .. n : i < n - 1 => stack[c][i] \in S
  BY StackType
<1>2. /\ Len(stack'[c]) = n - 1 /\ stack'[c][n - 1] = g
      /\ \A i \in 1 .. n - 1 - 1 : stack'[c][i] = stack[c][i]
  BY DEF Pops, SameBelow
<1>3. \A d \in Callers : d # c => stack'[d] = stack[d] /\ \A i \in 1 .. Len(stack[d]) : stack[d][i] \in S
  BY DEF Pops, Others
<1> HIDE DEF n
<1>4. \A i \in 1 .. n - 1 : stack'[c][i] \in S
  BY <1>1, <1>2
<1>5. QED
  BY <1>2, <1>3, <1>4 DEF NextFramesIn

(***************************************************************************)
(* Each step keeps the invariant.                                          *)
(***************************************************************************)
NextTickets ==
    /\ NextFramesIn(TicketFrames(slots', next'))
    /\ DistinctTickets'
    /\ \A k \in DOMAIN slots' : k < next'

\* The running frame moves on with its ticket.
LEMMA TicketCarried ==
    ASSUME IInv, IInv', TicketsInv, NEW c \in Callers, ~Idle(c),
           NEW g \in TicketFrames(slots, next), Become(c, g), g.minted = Running(c).minted,
           UNCHANGED <<slots, next>>
    PROVE  NextTickets
<1>1. Replaces(c, g) /\ Running(c) = stack[c][Len(stack[c])]
  BY Replacing, TopOf
<1>2. NextFramesIn(TicketFrames(slots, next))
  BY <1>1, FramesReplaced DEF TicketsInv
<1>3. DistinctTickets'
  BY <1>1, TicketsReplaced DEF TicketsInv
<1>4. QED
  BY <1>2, <1>3 DEF NextTickets, TicketsInv

LEMMA TicketsAdvance ==
    ASSUME IInv, IInv', TicketsInv, NEW c \in Callers,
           \/ NotFound(c) \/ Cycle(c) \/ Depth(c) \/ Admit(c) \/ GetParser(c)
           \/ ProcessText(c) \/ NoThread(c)
    PROVE  NextTickets
<1> DEFINE f == Running(c)
           S == TicketFrames(slots, next)
<1>1. ~Idle(c) /\ UNCHANGED <<slots, next>> /\ f.pc \in {"scan", "get", "process"}
  BY DEF NotFound, Cycle, Depth, Admit, GetParser, ProcessText, NoThread, At
<1>2. f \in Frame /\ f \in GoodFrame /\ f \in S /\ next \in Nat
  BY <1>1, TopOf DEF TicketsInv, FramesIn, IInv, SharedInv
<1>3. \A g : Become(c, g) => g \in GoodFrame
  BY <1>1, Replacing, NewFramesType
<1>4. CASE NotFound(c) \/ Cycle(c) \/ Depth(c)
  <2>1. PICK code, about : Become(c, Failing(f, code, about))
    BY <1>4 DEF NotFound, Cycle, Depth
  <2> DEFINE g == Failing(f, code, about)
  <2>2. g.minted = f.minted /\ g.pc = "fail" /\ g \in GoodFrame
    BY <1>2, <1>3, <2>1 DEF Failing, Frame
  <2> HIDE DEF g
  <2>3. g \in S
    BY <1>1, <1>2, <2>2, StillTicketed DEF Ticketed, Reported
  <2>4. QED
    BY <1>1, <2>1, <2>2, <2>3, TicketCarried DEF g
<1>5. CASE Admit(c)
  <2> DEFINE g == [f EXCEPT !.pc = "mint"]
  <2>1. Become(c, g) /\ f.pc = "scan"
    BY <1>5 DEF Admit, At
  <2>2. g.minted = f.minted /\ g.pc = "mint" /\ g \in GoodFrame /\ f.minted = NoTicket
    BY <1>2, <1>3, <2>1 DEF Frame, TicketFrames
  <2> HIDE DEF g
  <2>3. g \in S
    BY <1>1, <1>2, <2>2, StillTicketed DEF Ticketed, Reported
  <2>4. QED
    BY <1>1, <2>1, <2>2, <2>3, TicketCarried
<1>6. CASE GetParser(c)
  <2> DEFINE g == [f EXCEPT !.pc = IF published = NoInstance THEN "unpublished" ELSE "process",
                            !.parser = published]
  <2>1. Become(c, g) /\ f.pc = "get"
    BY <1>6 DEF GetParser, At
  <2>2. /\ g.minted = f.minted /\ g.pc \in {"unpublished", "process"} /\ g \in GoodFrame
        /\ f.minted \in Nat
    BY <1>2, <1>3, <2>1 DEF Frame, TicketFrames, Ticketed
  <2> HIDE DEF g
  <2>3. g \in S
    BY <1>1, <1>2, <2>2, StillTicketed DEF Ticketed, Reported
  <2>4. QED
    BY <1>1, <2>1, <2>2, <2>3, TicketCarried
<1>7. CASE ProcessText(c)
  <2> DEFINE g == [f EXCEPT !.pc = "discard", !.value = @ \o Unparsed(Reference(f))]
  <2>1. Become(c, g) /\ f.pc = "process"
    BY <1>7 DEF ProcessText, At
  <2>2. g.minted = f.minted /\ g.pc = "discard" /\ g \in GoodFrame /\ f.minted \in Nat
    BY <1>2, <1>3, <2>1 DEF Frame, TicketFrames, Ticketed
  <2> HIDE DEF g
  <2>3. g \in S
    BY <1>1, <1>2, <2>2, StillTicketed DEF Ticketed, Reported
  <2>4. QED
    BY <1>1, <2>1, <2>2, <2>3, TicketCarried
<1>8. CASE NoThread(c)
  <2>1. PICK e : Become(c, Processed(f, e, <<>>)) /\ f.pc = "process"
    BY <1>8 DEF NoThread, At
  <2>2. f.minted \in Nat /\ f.minted < next /\ f.minted \notin DOMAIN slots
    BY <1>2, <2>1 DEF TicketFrames, Ticketed, Reported
  <2>3. Processed(f, e, <<>>) \in GoodFrame /\ Processed(f, e, <<>>).minted = f.minted
    BY <1>2, <1>3, <2>1, ProcessedIsSame
  <2>4. Processed(f, e, <<>>) \in S
    BY <1>2, <2>2, <2>3, ProcessedIsTicketed
  <2>5. QED
    BY <1>1, <2>1, <2>3, <2>4, TicketCarried
<1>9. QED
  BY <1>4, <1>5, <1>6, <1>7, <1>8

LEMMA TicketsMint ==
    ASSUME IInv, IInv', TicketsInv, NEW c \in Callers, MintTicket(c)
    PROVE  NextTickets
<1> DEFINE f == Running(c)
           g == [f EXCEPT !.pc = "get", !.minted = Ticket]
           S == TicketFrames(slots, next + 1)
<1>1. ~Idle(c) /\ Become(c, g) /\ next' = next + 1 /\ UNCHANGED slots
  BY DEF MintTicket, Mint, At
<1>2. f \in Frame /\ next \in Nat /\ next + 1 \in Nat /\ next <= next + 1 /\ next < next + 1
  BY <1>1, TopOf DEF IInv, SharedInv
<1>3. Replaces(c, g) /\ g \in GoodFrame
  BY <1>1, Replacing, NewFramesType
<1>4. TicketFrames(slots, next) \subseteq S
  BY <1>2, FewerSlots
<1>5. g.pc = "get" /\ g.minted = next
  BY <1>2 DEF Frame, Ticket
<1> HIDE DEF g
<1>6. next \notin DOMAIN slots
  BY <1>2 DEF TicketsInv
<1>7. g \in S
  BY <1>2, <1>3, <1>5, <1>6 DEF TicketFrames
<1>8. FramesIn(S)
  BY <1>4 DEF TicketsInv, FramesIn
<1> HIDE DEF S
<1>9. NextFramesIn(S)
  BY <1>3, <1>7, <1>8, FramesReplaced
<1>10. Unused(next)
  <2> SUFFICES ASSUME NEW d \in Callers, NEW j \in 1 .. Len(stack[d]), stack[d][j].minted = next
               PROVE  FALSE
    BY DEF Unused
  <2>1. stack[d][j] \in TicketFrames(slots, next)
    BY DEF TicketsInv, FramesIn
  <2>2. next < next
    BY <1>2, <2>1 DEF TicketFrames
  <2>3. QED
    BY <1>2, <2>2
<1>11. DistinctTickets'
  BY <1>3, <1>5, <1>10, TicketsReplaced DEF TicketsInv
<1>12. \A k \in DOMAIN slots : k < next + 1
  BY <1>2 DEF TicketsInv, IInv, SharedInv
<1>13. QED
  BY <1>1, <1>9, <1>11, <1>12 DEF NextTickets, S

\* The load is over: its ticket is freed.
LEMMA TicketsReleased ==
    ASSUME IInv, IInv', TicketsInv, NEW c \in Callers, ~Idle(c),
           NEW g \in GoodFrame, Become(c, g), Release(Running(c).minted), UNCHANGED next,
           \/ g.pc = "fail" /\ g.minted = Running(c).minted
           \/ g.pc = "scan" /\ g.minted = NoTicket
    PROVE  NextTickets
<1> DEFINE f == Running(c)
           S == TicketFrames(slots', next)
<1>1. f \in TicketFrames(slots, next) /\ f = stack[c][Len(stack[c])] /\ next \in Nat
  BY TopOf DEF TicketsInv, FramesIn, IInv, SharedInv
<1>2. /\ DOMAIN slots' = DOMAIN slots \ {f.minted}
      /\ \A k \in DOMAIN slots' : slots'[k] = slots[k]
  BY DEF Release
<1>3. TicketFrames(slots, next) \subseteq S
  BY <1>1, <1>2, FewerSlots
<1>4. DOMAIN slots' \subseteq Nat /\ NoTicket \notin Nat
  BY DEF IInv, SharedInv, NoTicket
<1>5. g \in S
  BY <1>1, <1>2, <1>4 DEF TicketFrames, Ticketed, Reported
<1>6. FramesIn(S)
  BY <1>3 DEF TicketsInv, FramesIn
<1> HIDE DEF S
<1>7. Replaces(c, g)
  BY Replacing
<1>8. NextFramesIn(S)
  BY <1>5, <1>6, <1>7, FramesReplaced
<1>9. DistinctTickets'
  BY <1>1, <1>7, TicketsReplaced DEF TicketsInv
<1>10. QED
  BY <1>2, <1>8, <1>9 DEF NextTickets, TicketsInv, S

LEMMA TicketsFinished ==
    ASSUME IInv, IInv', TicketsInv, NEW c \in Callers, TakeReport(c) \/ DiscardReport(c)
    PROVE  NextTickets
<1> DEFINE f == Running(c)
<1>1. ~Idle(c) /\ Release(f.minted) /\ UNCHANGED next
  BY DEF TakeReport, DiscardReport, Discard, At
<1>2. f \in Frame /\ \A g : Become(c, g) => g \in GoodFrame
  BY <1>1, TopOf, Replacing, NewFramesType
<1>3. CASE TakeReport(c)
  <2>1. PICK code, about : Become(c, Failing(f, code, about))
    BY <1>3 DEF TakeReport
  <2> DEFINE g == Failing(f, code, about)
  <2>2. g \in GoodFrame /\ g.pc = "fail" /\ g.minted = f.minted
    BY <1>2, <2>1 DEF Failing, Frame
  <2> HIDE DEF g
  <2>3. QED
    BY <1>1, <2>1, <2>2, TicketsReleased DEF g
<1>4. CASE DiscardReport(c)
  <2> DEFINE g == [f EXCEPT !.pc = "scan", !.at = @ + 1, !.minted = NoTicket,
                            !.parser = NoInstance]
  <2>1. Become(c, g)
    BY <1>4 DEF DiscardReport
  <2>2. g \in GoodFrame /\ g.pc = "scan" /\ g.minted = NoTicket
    BY <1>2, <2>1 DEF Frame
  <2> HIDE DEF g
  <2>3. QED
    BY <1>1, <2>1, <2>2, TicketsReleased
<1>5. QED
  BY <1>3, <1>4

LEMMA NewParseIsTicketed ==
    ASSUME NEW sl, NEW nx, DOMAIN sl \subseteq Nat, NEW h \in GoodFrame, h.pc = "scan",
           h.minted = NoTicket
    PROVE  h \in TicketFrames(sl, nx)
<1>1. NoTicket \notin Nat
  BY DEF NoTicket
<1>2. QED
  BY <1>1 DEF TicketFrames, Ticketed

LEMMA TicketsDescend ==
    ASSUME IInv, IInv', TicketsInv, NEW c \in Callers, ParseHere(c) \/ ParseOnThread(c)
    PROVE  NextTickets
<1> DEFINE f == Running(c)
           g == [f EXCEPT !.pc = "await"]
           h == Child(f)
           S == TicketFrames(slots, next)
<1>1. ~Idle(c) /\ f.pc = "process" /\ Descend(c) /\ UNCHANGED <<slots, next>>
  BY DEF ParseHere, ParseOnThread, At, Descend
<1>2. /\ f \in Frame /\ f \in S /\ f = stack[c][Len(stack[c])] /\ next \in Nat
      /\ DOMAIN slots \subseteq Nat
  BY <1>1, TopOf DEF TicketsInv, FramesIn, IInv, SharedInv
<1>3. Pushes(c, g, h) /\ g \in GoodFrame /\ h \in GoodFrame
  BY <1>1, Pushing, NewFramesType
<1>4. g.minted = f.minted /\ g.pc = "await" /\ f.minted \in Nat
  BY <1>1, <1>2 DEF Frame, TicketFrames, Ticketed
<1>5. h.minted = NoTicket /\ h.pc = "scan"
  BY DEF Child, NewFrame
<1> HIDE DEF g, h
<1>6. g \in S
  BY <1>1, <1>2, <1>3, <1>4, StillTicketed DEF Reported, Ticketed
<1>7. h \in S
  BY <1>2, <1>3, <1>5, NewParseIsTicketed
<1>8. NextFramesIn(S)
  BY <1>3, <1>6, <1>7, FramesPushed DEF TicketsInv
<1>9. DistinctTickets'
  BY <1>2, <1>3, <1>4, <1>5, TicketsPushed DEF TicketsInv
<1>10. QED
  BY <1>1, <1>8, <1>9 DEF NextTickets, TicketsInv

LEMMA TicketsStart ==
    ASSUME IInv, IInv', TicketsInv, NEW c \in Callers, NEW d \in Documents, NEW base \in Bases,
           NEW i \in Instances, Start(c, d, base, i)
    PROVE  NextTickets
<1> DEFINE h == NewFrame(d, i, base, <<>>, NoTicket, FALSE)
           S == TicketFrames(slots, next)
<1>1. Begins(c, h) /\ UNCHANGED <<slots, next>>
  BY Starting DEF Start
<1>2. h \in GoodFrame /\ h.pc = "scan" /\ h.minted = NoTicket
  BY <1>1, NewFramesType DEF NewFrame
<1>3. DOMAIN slots \subseteq Nat
  BY DEF IInv, SharedInv
<1> HIDE DEF h
<1>4. h \in S
  BY <1>2, <1>3, NewParseIsTicketed
<1>5. NextFramesIn(S)
  BY <1>1, <1>4, FramesBegun DEF TicketsInv
<1>6. DistinctTickets'
  BY <1>1, <1>2, TicketsBegun DEF TicketsInv
<1>7. QED
  BY <1>1, <1>5, <1>6 DEF NextTickets, TicketsInv

\* The frame the running one returns to: it awaits, with no report yet.
LEMMA AwaitingParent ==
    ASSUME IInv, LinksInv, TicketsInv, NEW c \in Callers, ~Idle(c), Len(stack[c]) > 1
    PROVE  LET p == stack[c][Len(stack[c]) - 1] IN
           /\ Len(stack[c]) - 1 \in 1 .. Len(stack[c])
           /\ p \in GoodFrame /\ p \in Frame /\ HasReference(p)
           /\ p \in TicketFrames(slots, next)
           /\ p.pc = "await"
           /\ p.minted \in Nat /\ p.minted < next /\ p.minted \notin DOMAIN slots
           /\ Running(c).ticket = p.minted
<1> DEFINE n == Len(stack[c])
           p == stack[c][n - 1]
<1>1. n \in Nat /\ n > 1 /\ Running(c) = stack[c][n]
  BY TopOf
<1>2. n - 1 \in 1 .. n - 1 /\ n - 1 \in 1 .. n /\ (n - 1) + 1 = n
  <2> HIDE DEF n
  <2>1. QED
    BY <1>1
<1>3. /\ p \in GoodFrame /\ p \in Frame /\ p.pc = "await" /\ HasReference(p)
      /\ Link(p, stack[c][(n - 1) + 1])
  BY <1>2, LinkedFrames
<1>4. Running(c).ticket = p.minted
  BY <1>1, <1>2, <1>3 DEF Link
<1>5. p \in TicketFrames(slots, next)
  BY <1>2 DEF TicketsInv, FramesIn
<1>6. p.minted \in Nat /\ p.minted < next /\ p.minted \notin DOMAIN slots
  BY <1>3, <1>5 DEF TicketFrames, Ticketed, Reported
<1>7. QED
  BY <1>2, <1>3, <1>4, <1>5, <1>6

LEMMA TicketsReturn ==
    ASSUME IInv, IInv', LinksInv, TicketsInv, NEW c \in Callers, ~Idle(c), NEW e, Return(c, e),
           UNCHANGED slots
    PROVE  NextTickets
<1> DEFINE n == Len(stack[c])
           p == stack[c][n - 1]
           S == TicketFrames(slots, next)
<1>1. UNCHANGED next /\ next \in Nat
  BY DEF Return, IInv, SharedInv
<1>2. CASE Clears(c)
  <2>1. NextFramesIn(S) /\ DistinctTickets'
    BY <1>2, FramesCleared, TicketsCleared DEF TicketsInv
  <2>2. QED
    BY <1>1, <2>1 DEF NextTickets, TicketsInv
<1>3. CASE Pops(c, Resumed(c, e))
  <2> DEFINE g == Resumed(c, e)
  <2>1. /\ p \in GoodFrame /\ p \in Frame
        /\ p.minted \in Nat /\ p.minted < next /\ p.minted \notin DOMAIN slots
    BY <1>3, AwaitingParent DEF Pops
  <2>2. g \in GoodFrame
    BY <1>3, NewFramesType
  <2>3. g \in S /\ g.minted = p.minted
    BY <1>1, <2>1, <2>2, ProcessedIsTicketed, ProcessedIsSame DEF Resumed
  <2> HIDE DEF g, S
  <2>4. NextFramesIn(S)
    BY <1>3, <2>3, FramesPopped DEF TicketsInv, S, g
  <2>5. DistinctTickets'
    BY <1>3, <2>3, TicketsPopped DEF TicketsInv, g
  <2>6. QED
    BY <1>1, <2>4, <2>5 DEF NextTickets, TicketsInv, S
<1>4. QED
  BY <1>2, <1>3, Returning

\* A failure is recorded under the ticket of the load that awaits it.
LEMMA TicketsRecord ==
    ASSUME IInv, IInv', LinksInv, TicketsInv, NEW c \in Callers, ~Idle(c),
           HasTicket(Running(c)), Record(Running(c).ticket, Running(c).error),
           Return(c, Running(c).error)
    PROVE  NextTickets
<1> DEFINE n == Len(stack[c])
           f == Running(c)
           p == stack[c][n - 1]
           g == Resumed(c, f.error)
           S == TicketFrames(slots', next)
<1>1. UNCHANGED next /\ next \in Nat
  BY DEF Return, IInv, SharedInv
<1>2. Len(stack[c]) # 1
  <2> SUFFICES ASSUME Len(stack[c]) = 1 PROVE FALSE
    OBVIOUS
  <2>1. f = stack[c][1] /\ Len(stack[c]) > 0
    BY TopOf
  <2>2. f.ticket = NoTicket
    BY <2>1 DEF LinksInv, LinksOf, Bottom
  <2>3. QED
    BY <2>2 DEF HasTicket
<1>3. Pops(c, g)
  BY <1>2, Returning DEF Clears
<1>4. /\ n - 1 \in 1 .. n
      /\ p \in GoodFrame /\ p \in Frame
      /\ p.minted \in Nat /\ p.minted < next
      /\ f.ticket = p.minted
  BY <1>3, AwaitingParent DEF Pops
<1>5. /\ DOMAIN slots' = DOMAIN slots \cup {p.minted}
      /\ slots'[p.minted] = f.error
      /\ \A k \in DOMAIN slots : k # p.minted => slots'[k] = slots[k]
  BY <1>4 DEF Record
<1>6. g \in GoodFrame
  BY <1>3, NewFramesType
<1>7. g \in S /\ g.minted = p.minted
  BY <1>1, <1>4, <1>5, <1>6, ProcessedIsTicketed, ProcessedIsSame DEF Resumed
<1>8. ASSUME NEW d \in Callers, NEW i \in 1 .. Len(stack[d]), d # c \/ i < n - 1
      PROVE  stack[d][i] \in S
  <2> DEFINE q == stack[d][i]
  <2>1. q \in TicketFrames(slots, next)
    BY DEF TicketsInv, FramesIn
  <2>2. d # c \/ i # n - 1
    <3>1. n \in Nat /\ i \in Nat
      BY StackType
    <3> HIDE DEF n
    <3>2. QED
      BY <1>8, <3>1
  <2>3. q.minted # p.minted
    BY <1>4, <2>2 DEF TicketsInv, DistinctTickets, NoTicket
  <2> HIDE DEF q, p
  <2>4. q \in S
    BY <1>5, <2>1, <2>3 DEF TicketFrames
  <2>5. QED
    BY <2>4 DEF q
<1>9. NextFramesIn(S)
  <2> HIDE DEF g, S
  <2>1. QED
    BY <1>3, <1>7, <1>8, FramesPoppedTo
<1>10. DistinctTickets'
  <2> HIDE DEF g
  <2>1. QED
    BY <1>3, <1>7, TicketsPopped DEF TicketsInv
<1>11. \A k \in DOMAIN slots' : k < next
  BY <1>4, <1>5 DEF TicketsInv
<1>12. QED
  BY <1>1, <1>9, <1>10, <1>11 DEF NextTickets

LEMMA TicketsEnd ==
    ASSUME IInv, IInv', LinksInv, TicketsInv, NEW c \in Callers, Finish(c) \/ Fail(c) \/ Abort(c)
    PROVE  NextTickets
<1>1. ~Idle(c)
  BY DEF Finish, Fail, Abort, At
<1>2. CASE Finish(c) \/ Abort(c)
  BY <1>1, <1>2, TicketsReturn DEF Finish, Abort
<1>3. CASE Fail(c)
  BY <1>1, <1>3, TicketsReturn, TicketsRecord DEF Fail
<1>4. QED
  BY <1>2, <1>3

LEMMA TicketsKept ==
    ASSUME IInv, IInv', LinksInv, TicketsInv, [Next]_vars
    PROVE  TicketsInv'
<1>1. CASE UNCHANGED <<stack, slots, next>>
  BY <1>1 DEF TicketsInv, FramesIn, TicketFrames, DistinctTickets
<1>2. ASSUME NEW c \in Callers, NEW d \in Documents, NEW base \in Bases,
             NEW i \in Instances, Start(c, d, base, i)
      PROVE  NextTickets
  BY <1>2, TicketsStart
<1>3. ASSUME NEW c \in Callers, Step(c)
      PROVE  NextTickets
  BY <1>3, TicketsAdvance, TicketsMint, TicketsFinished, TicketsDescend, TicketsEnd DEF Step
<1>4. NextTickets => TicketsInv'
  BY DEF NextTickets, NextFramesIn, TicketsInv, FramesIn, TicketFrames
<1>5. QED
  BY <1>1, <1>2, <1>3, <1>4 DEF Next, vars, Finished

(***************************************************************************)
(* The tickets are unique and the reports accounted for, at every moment   *)
(* and for any number of concurrent parses.                                *)
(***************************************************************************)
THEOREM TicketsUnique == Spec => []TicketsInv
<1>1. Init => TicketsInv
  BY EmptySeq DEF Init, ReportsInit, TicketsInv, FramesIn, DistinctTickets
<1>2. IInv /\ IInv' /\ LinksInv /\ TicketsInv /\ [Next]_vars => TicketsInv'
  BY TicketsKept
<1>3. QED
  BY <1>1, <1>2, Invariance, ParsesLinked, PTL DEF Spec

(***************************************************************************)
(* A load that failed picks up its own report and nobody else's, however   *)
(* many parses of the instance fail at the same time.                      *)
(***************************************************************************)
THEOREM LoadsTakeTheirOwn == Spec => []TakesOwnReport
<1>1. IInv /\ TicketsInv => TakesOwnReport
  <2> SUFFICES ASSUME IInv, TicketsInv, NEW c \in Callers, NEW i \in DOMAIN stack[c],
                      stack[c][i].pc = "take", stack[c][i].minted \in DOMAIN slots
               PROVE  LET f == stack[c][i] IN
                      slots[f.minted].about = f.error.about \/ f.error.code = "custom"
    BY DEF TakesOwnReport
  <2>1. stack[c][i] \in TicketFrames(slots, next)
    BY StackType DEF TicketsInv, FramesIn
  <2>2. QED
    BY <2>1 DEF TicketFrames
<1>2. QED
  BY <1>1, TicketsUnique, Invariance, PTL

(***************************************************************************)
(* What a step does to the slots that hold a report.                       *)
(***************************************************************************)
Touched(k) == k \notin DOMAIN slots' \/ slots'[k] # slots[k]

Movers == {c \in Callers : stack'[c] # stack[c]}

OwnerTouches == \A k \in DOMAIN slots : Touched(k) => {c \in Callers : Holds(c, k)} = Movers

\* A frame that has its report waiting is the only one to hold its ticket.
LEMMA HeldOnce ==
    ASSUME IInv, TicketsInv, NEW c \in Callers, ~Idle(c), Running(c).minted \in DOMAIN slots
    PROVE  {d \in Callers : Holds(d, Running(c).minted)} = {c}
<1> DEFINE f == Running(c)
           n == Len(stack[c])
<1>1. n \in 1 .. n /\ f = stack[c][n] /\ f \in TicketFrames(slots, next)
  BY TopOf DEF TicketsInv, FramesIn
<1>2. f.pc \in Reported /\ f.minted # NoTicket
  BY <1>1 DEF TicketFrames, IInv, SharedInv, NoTicket
<1>3. Holds(c, f.minted)
  BY <1>1, <1>2, StackType DEF Holds, Reported
<1>4. ASSUME NEW d \in Callers, Holds(d, f.minted)
      PROVE  d = c
  <2>1. PICK i \in 1 .. Len(stack[d]) : stack[d][i].minted = f.minted
    BY <1>4, StackType DEF Holds
  <2>2. QED
    BY <1>1, <1>2, <2>1 DEF TicketsInv, DistinctTickets
<1>5. QED
  BY <1>3, <1>4

LEMMA OwnerReleases ==
    ASSUME IInv, TicketsInv, NEW c \in Callers, ~Idle(c), NEW g, Become(c, g),
           Release(Running(c).minted), g.pc # Running(c).pc
    PROVE  OwnerTouches
<1> DEFINE f == Running(c)
<1> SUFFICES ASSUME NEW k \in DOMAIN slots, Touched(k)
             PROVE  {d \in Callers : Holds(d, k)} = Movers
  BY DEF OwnerTouches
<1>1. k = f.minted
  BY DEF Release, Touched
<1>2. stack'[c] # stack[c] /\ \A d \in Callers : d # c => stack'[d] = stack[d]
  <2>1. f = stack[c][Len(stack[c])]
    BY TopOf
  <2>2. stack'[c][Len(stack[c])] = g /\ Others(c)
    BY Replacing DEF Replaces
  <2>3. QED
    BY <2>1, <2>2 DEF Others
<1>3. Movers = {c}
  BY <1>2 DEF Movers
<1>4. QED
  BY <1>1, <1>3, HeldOnce

\* A load that awaits has no report yet, so recording one changes no other.
LEMMA RecordTouchesNone ==
    ASSUME IInv, LinksInv, TicketsInv, NEW c \in Callers, ~Idle(c),
           HasTicket(Running(c)), Record(Running(c).ticket, Running(c).error)
    PROVE  OwnerTouches
<1> DEFINE n == Len(stack[c])
           f == Running(c)
<1>1. f = stack[c][n] /\ n \in Nat /\ n > 0
  BY TopOf
<1>2. n # 1
  <2> SUFFICES ASSUME n = 1 PROVE FALSE
    OBVIOUS
  <2>1. f.ticket = NoTicket
    BY <1>1 DEF LinksInv, LinksOf, Bottom
  <2>2. QED
    BY <2>1 DEF HasTicket
<1>3. n > 1
  <2> HIDE DEF n
  <2>1. QED
    BY <1>1, <1>2
<1>4. f.ticket \notin DOMAIN slots
  BY <1>3, AwaitingParent
<1>5. \A k \in DOMAIN slots : ~Touched(k)
  BY <1>4 DEF Record, Touched
<1>6. QED
  BY <1>5 DEF OwnerTouches

LEMMA OwnersTouch == IInv /\ LinksInv /\ TicketsInv /\ [Next]_vars => [OwnerTouches]_vars
<1> SUFFICES ASSUME IInv, LinksInv, TicketsInv, Next PROVE OwnerTouches
  BY DEF OwnerTouches
<1>1. CASE UNCHANGED slots
  BY <1>1 DEF OwnerTouches, Touched
<1>2. ASSUME NEW c \in Callers, TakeReport(c) PROVE OwnerTouches
  <2> DEFINE f == Running(c)
  <2>1. ~Idle(c) /\ f.pc = "take" /\ Release(f.minted) /\ f \in Frame
    BY <1>2, TopOf DEF TakeReport, At
  <2>2. PICK code, about : Become(c, Failing(f, code, about))
    BY <1>2 DEF TakeReport
  <2> DEFINE g == Failing(f, code, about)
  <2>3. g.pc = "fail"
    BY <2>1 DEF Failing, Frame
  <2> HIDE DEF g
  <2>4. QED
    BY <2>1, <2>2, <2>3, OwnerReleases DEF g
<1>3. ASSUME NEW c \in Callers, DiscardReport(c) PROVE OwnerTouches
  <2> DEFINE f == Running(c)
             g == [f EXCEPT !.pc = "scan", !.at = @ + 1, !.minted = NoTicket,
                            !.parser = NoInstance]
  <2>1. ~Idle(c) /\ f.pc = "discard" /\ Release(f.minted) /\ f \in Frame /\ Become(c, g)
    BY <1>3, TopOf DEF DiscardReport, Discard, At
  <2>2. g.pc = "scan"
    BY <2>1 DEF Frame
  <2> HIDE DEF g
  <2>3. QED
    BY <2>1, <2>2, OwnerReleases
<1>4. ASSUME NEW c \in Callers, Fail(c) PROVE OwnerTouches
  <2>1. ~Idle(c)
    BY <1>4 DEF Fail, At
  <2>2. CASE HasTicket(Running(c)) /\ Record(Running(c).ticket, Running(c).error)
    BY <2>1, <2>2, RecordTouchesNone
  <2>3. QED
    BY <1>1, <1>4, <2>2 DEF Fail
<1>5. ASSUME NEW c \in Callers, Step(c) PROVE OwnerTouches
  <2>1. CASE \/ NotFound(c) \/ Cycle(c) \/ Depth(c) \/ Admit(c) \/ MintTicket(c) \/ GetParser(c)
             \/ ProcessText(c) \/ NoThread(c) \/ Finish(c) \/ Abort(c)
    BY <1>1, <2>1 DEF NotFound, Cycle, Depth, Admit, MintTicket, GetParser, ProcessText, NoThread,
                      Finish, Abort
  <2>2. CASE ParseHere(c) \/ ParseOnThread(c)
    BY <1>1, <2>2 DEF ParseHere, ParseOnThread, Descend
  <2>3. QED
    BY <1>2, <1>3, <1>4, <1>5, <2>1, <2>2 DEF Step
<1>6. QED
  BY <1>1, <1>5 DEF Next, Start, Finished, vars

(***************************************************************************)
(* A report waiting in its slot is rewritten or freed by nobody but the    *)
(* one caller whose load it belongs to, whatever the others do meanwhile.  *)
(***************************************************************************)
THEOREM ReportsAreLeftAlone == Spec => OnlyOwnerTouchesSlot
<1>1. IInv /\ LinksInv /\ TicketsInv /\ [Next]_vars => [OwnerTouches]_vars
  BY OwnersTouch
<1>2. QED
  BY <1>1, TicketsUnique, ParsesLinked, Invariance, PTL
     DEF Spec, OnlyOwnerTouchesSlot, OwnerTouches, Touched, Movers

(***************************************************************************)
(* A recorded report has a frame that holds its ticket, where no processor *)
(* panics: the unwinding of one passes the take by and leaves the slot     *)
(* behind (the run "panic").                                               *)
(***************************************************************************)
NoPanics == \A r \in Sources : Processing[r] # "panicking"

OwnedInv ==
    \A k \in DOMAIN slots : \E c \in Callers : \E i \in 1 .. Len(stack[c]) :
        stack[c][i].minted = k

\* Where the frame of c that held k is after the step.
OwnedBy(c, k) ==
    \/ \E i \in 1 .. Len(stack'[c]) : stack'[c][i].minted = k
    \/ k \in DOMAIN slots /\ \A i \in 1 .. Len(stack[c]) : stack[c][i].minted # k

LEMMA OwnedKept ==
    ASSUME OwnedInv, NEW c \in Callers, Others(c), \A k \in DOMAIN slots' : OwnedBy(c, k)
    PROVE  OwnedInv'
<1> SUFFICES ASSUME NEW k \in DOMAIN slots'
             PROVE  \E d \in Callers : \E i \in 1 .. Len(stack'[d]) : stack'[d][i].minted = k
  BY DEF OwnedInv
<1>1. CASE \E i \in 1 .. Len(stack'[c]) : stack'[c][i].minted = k
  BY <1>1
<1>2. CASE k \in DOMAIN slots /\ \A i \in 1 .. Len(stack[c]) : stack[c][i].minted # k
  <2>1. PICK d \in Callers : \E i \in 1 .. Len(stack[d]) : stack[d][i].minted = k
    BY <1>2 DEF OwnedInv
  <2>2. d # c
    BY <1>2, <2>1
  <2>3. stack'[d] = stack[d]
    BY <2>2 DEF Others
  <2>4. QED
    BY <2>1, <2>3
<1>3. QED
  BY <1>1, <1>2 DEF OwnedBy

\* The running frame keeps its ticket, or its ticket has no report.
LEMMA OwnedReplaced ==
    ASSUME IInv, OwnedInv, NEW c \in Callers, ~Idle(c), NEW g, Become(c, g),
           DOMAIN slots' \subseteq DOMAIN slots,
           g.minted = Running(c).minted \/ Running(c).minted \notin DOMAIN slots'
    PROVE  OwnedInv'
<1> DEFINE n == Len(stack[c])
<1>1. n \in Nat /\ n > 0 /\ Running(c) = stack[c][n]
  BY TopOf
<1>2. /\ Others(c) /\ Len(stack'[c]) = n /\ stack'[c][n] = g
      /\ \A i \in 1 .. n - 1 : stack'[c][i] = stack[c][i]
  BY Replacing DEF Replaces, SameBelow
<1> HIDE DEF n
<1>3. ASSUME NEW k \in DOMAIN slots', NEW i \in 1 .. n, stack[c][i].minted = k
      PROVE  stack'[c][i].minted = k
  <2>1. CASE i \in 1 .. n - 1
    BY <1>2, <1>3, <2>1
  <2>2. CASE i = n
    BY <1>1, <1>2, <1>3, <2>2
  <2>3. i \in 1 .. n - 1 \/ i = n
    BY <1>1
  <2>4. QED
    BY <2>1, <2>2, <2>3
<1>4. \A k \in DOMAIN slots' : OwnedBy(c, k)
  BY <1>2, <1>3 DEF OwnedBy, n
<1>5. QED
  BY <1>2, <1>4, OwnedKept

LEMMA OwnedPushed ==
    ASSUME IInv, OwnedInv, NEW c \in Callers, NEW g, NEW h, Pushes(c, g, h),
           g.minted = stack[c][Len(stack[c])].minted, UNCHANGED slots
    PROVE  OwnedInv'
<1> DEFINE n == Len(stack[c])
<1>1. n \in Nat /\ n > 0
  BY StackType DEF Pushes
<1>2. /\ Others(c) /\ Len(stack'[c]) = n + 1 /\ stack'[c][n] = g
      /\ \A i \in 1 .. n - 1 : stack'[c][i] = stack[c][i]
  BY DEF Pushes, SameBelow
<1>3. g.minted = stack[c][n].minted
  OBVIOUS
<1> HIDE DEF n
<1>4. \A i \in 1 .. n : i \in 1 .. n + 1 /\ stack'[c][i].minted = stack[c][i].minted
  BY <1>1, <1>2, <1>3
<1>5. \A k \in DOMAIN slots' : OwnedBy(c, k)
  BY <1>2, <1>4 DEF OwnedBy, n
<1>6. QED
  BY <1>2, <1>5, OwnedKept

\* The frame that goes has no report under its ticket.
LEMMA OwnedPopped ==
    ASSUME IInv, OwnedInv, NEW c \in Callers, NEW g, Pops(c, g),
           g.minted = stack[c][Len(stack[c]) - 1].minted,
           stack[c][Len(stack[c])].minted \notin DOMAIN slots',
           DOMAIN slots' \subseteq DOMAIN slots \cup {g.minted}
    PROVE  OwnedInv'
<1> DEFINE n == Len(stack[c])
<1>1. n \in Nat /\ n > 1
  BY StackType DEF Pops
<1>2. /\ Others(c) /\ Len(stack'[c]) = n - 1 /\ stack'[c][n - 1] = g
      /\ \A i \in 1 .. n - 1 - 1 : stack'[c][i] = stack[c][i]
  BY DEF Pops, SameBelow
<1>3. /\ g.minted = stack[c][n - 1].minted
      /\ stack[c][n].minted \notin DOMAIN slots'
  OBVIOUS
<1> HIDE DEF n
<1>4. n - 1 \in 1 .. n - 1 /\ \A i \in 1 .. n : i \in 1 .. n - 1 - 1 \/ i = n - 1 \/ i = n
  BY <1>1
<1>5. \A i \in 1 .. n - 1 : stack'[c][i].minted = stack[c][i].minted
  BY <1>1, <1>2, <1>3
<1>6. \A i \in 1 .. n : i \in 1 .. n - 1 \/ i = n
  BY <1>1
<1>7. ASSUME NEW k \in DOMAIN slots'
      PROVE  OwnedBy(c, k)
  <2>1. CASE k = g.minted
    BY <1>2, <1>4, <2>1 DEF OwnedBy
  <2>2. CASE k \in DOMAIN slots
    <3>1. ASSUME NEW i \in 1 .. n, stack[c][i].minted = k
          PROVE  i \in 1 .. n - 1 /\ stack'[c][i].minted = k
      BY <1>3, <1>5, <1>6, <3>1
    <3>2. QED
      BY <1>2, <2>2, <3>1 DEF OwnedBy, n
  <2>3. QED
    BY <2>1, <2>2
<1>8. QED
  BY <1>2, <1>7, OwnedKept

LEMMA OwnedCleared ==
    ASSUME IInv, OwnedInv, NEW c \in Callers, Clears(c),
           stack[c][Len(stack[c])].minted \notin DOMAIN slots', UNCHANGED slots
    PROVE  OwnedInv'
<1>1. Others(c) /\ Len(stack[c]) = 1
  BY DEF Clears
<1>2. \A i \in 1 .. 1 : i = 1
  OBVIOUS
<1>3. \A k \in DOMAIN slots' : OwnedBy(c, k)
  BY <1>1, <1>2 DEF OwnedBy
<1>4. QED
  BY <1>1, <1>3, OwnedKept

(***************************************************************************)
(* A parse that ends holds no report, unless it panicked.                  *)
(***************************************************************************)
LEMMA EndsWithoutReport ==
    ASSUME NoPanics, IInv, TicketsInv, NEW c \in Callers, ~Idle(c),
           Running(c).pc \in {"scan", "fail", "panic", "unpublished"}
    PROVE  /\ Running(c) = stack[c][Len(stack[c])]
           /\ Running(c).minted \notin DOMAIN slots
<1> DEFINE f == Running(c)
<1>1. f = stack[c][Len(stack[c])] /\ f \in GoodFrame /\ f \in Frame /\ f \in TicketFrames(slots, next)
  BY TopOf DEF TicketsInv, FramesIn
<1>2. f.pc # "panic"
  <2> SUFFICES ASSUME f.pc = "panic" PROVE FALSE
    OBVIOUS
  <2>1. HasReference(f) /\ Processing[Reference(f)] = "panicking"
    BY <1>1 DEF GoodFrame, TicketFrames
  <2>2. Reference(f) \in Sources
    BY <1>1, <2>1, ReferenceIsSource
  <2>3. QED
    BY <2>1, <2>2 DEF NoPanics
<1>3. f.minted \notin DOMAIN slots
  BY <1>1, <1>2 DEF TicketFrames, Reported
<1>4. QED
  BY <1>1, <1>3

LEMMA OwnedReturn ==
    ASSUME NoPanics, IInv, LinksInv, TicketsInv, OwnedInv, NEW c \in Callers, ~Idle(c),
           Running(c).pc \in {"scan", "fail", "panic", "unpublished"},
           NEW e, Return(c, e),
           \/ UNCHANGED slots
           \/ HasTicket(Running(c)) /\ Record(Running(c).ticket, e)
    PROVE  OwnedInv'
<1> DEFINE n == Len(stack[c])
           f == Running(c)
           p == stack[c][n - 1]
           g == Resumed(c, e)
<1>1. f = stack[c][n] /\ f.minted \notin DOMAIN slots
  BY EndsWithoutReport
<1>2. CASE Clears(c)
  <2>1. f.ticket = NoTicket
    BY <1>1, <1>2 DEF Clears, LinksInv, LinksOf, Bottom
  <2>2. UNCHANGED slots
    BY <2>1 DEF HasTicket
  <2>3. QED
    BY <1>1, <1>2, <2>2, OwnedCleared
<1>3. CASE Pops(c, g)
  <2>1. /\ p \in Frame /\ p.minted \in Nat /\ p.minted \notin DOMAIN slots
        /\ f.ticket = p.minted /\ n - 1 \in 1 .. n
    BY <1>3, AwaitingParent DEF Pops
  <2>2. g.minted = p.minted
    BY <2>1, ProcessedIsSame DEF Resumed
  <2>3. DOMAIN slots' \subseteq DOMAIN slots \cup {p.minted}
    BY <2>1 DEF Record
  <2>4. f.minted # p.minted
    <3>1. n \in Nat /\ n > 1
      BY <1>3, StackType DEF Pops
    <3>2. n \in 1 .. n /\ n - 1 # n
      <4> HIDE DEF n
      <4>1. QED
        BY <3>1
    <3>3. QED
      BY <1>1, <2>1, <3>2 DEF TicketsInv, DistinctTickets, NoTicket
  <2> HIDE DEF g
  <2>5. QED
    BY <1>1, <1>3, <2>2, <2>3, <2>4, OwnedPopped
<1>4. QED
  BY <1>2, <1>3, Returning

LEMMA OwnedAdvance ==
    ASSUME IInv, TicketsInv, OwnedInv, NEW c \in Callers,
           \/ NotFound(c) \/ Cycle(c) \/ Depth(c) \/ Admit(c) \/ MintTicket(c) \/ GetParser(c)
           \/ ProcessText(c) \/ NoThread(c) \/ TakeReport(c) \/ DiscardReport(c)
    PROVE  OwnedInv'
<1> DEFINE f == Running(c)
<1>1. ~Idle(c)
  BY DEF NotFound, Cycle, Depth, Admit, MintTicket, GetParser, ProcessText, NoThread,
         TakeReport, DiscardReport, At
<1>2. f \in Frame /\ f \in TicketFrames(slots, next)
  BY <1>1, TopOf DEF TicketsInv, FramesIn
<1>3. CASE NotFound(c) \/ Cycle(c) \/ Depth(c)
  <2>1. PICK code, about : Become(c, Failing(f, code, about)) /\ UNCHANGED slots
    BY <1>3 DEF NotFound, Cycle, Depth
  <2> DEFINE g == Failing(f, code, about)
  <2>2. g.minted = f.minted
    BY <1>2 DEF Failing, Frame
  <2> HIDE DEF g
  <2>3. QED
    BY <1>1, <2>1, <2>2, OwnedReplaced DEF g
<1>4. CASE Admit(c) \/ GetParser(c) \/ ProcessText(c)
  <2>1. PICK g \in {[f EXCEPT !.pc = "mint"],
                    [f EXCEPT !.pc = IF published = NoInstance THEN "unpublished" ELSE "process",
                              !.parser = published],
                    [f EXCEPT !.pc = "discard", !.value = @ \o Unparsed(Reference(f))]} :
            Become(c, g) /\ UNCHANGED slots
    BY <1>4 DEF Admit, GetParser, ProcessText
  <2>2. g.minted = f.minted
    BY <1>2, <2>1 DEF Frame
  <2>3. QED
    BY <1>1, <2>1, <2>2, OwnedReplaced
<1>5. CASE MintTicket(c)
  <2> DEFINE g == [f EXCEPT !.pc = "get", !.minted = Ticket]
  <2>1. Become(c, g) /\ UNCHANGED slots /\ f.pc = "mint"
    BY <1>5 DEF MintTicket, At
  <2>2. f.minted \notin DOMAIN slots
    BY <1>2, <2>1 DEF TicketFrames, Reported
  <2> HIDE DEF g
  <2>3. QED
    BY <1>1, <2>1, <2>2, OwnedReplaced
<1>6. CASE NoThread(c)
  <2>1. PICK e : Become(c, Processed(f, e, <<>>)) /\ UNCHANGED slots
    BY <1>6 DEF NoThread
  <2>2. Processed(f, e, <<>>).minted = f.minted
    BY <1>2, ProcessedIsSame
  <2>3. QED
    BY <1>1, <2>1, <2>2, OwnedReplaced
<1>7. CASE TakeReport(c) \/ DiscardReport(c)
  <2>1. PICK g : Become(c, g)
    BY <1>7 DEF TakeReport, DiscardReport
  <2>2. DOMAIN slots' = DOMAIN slots \ {f.minted}
    BY <1>7 DEF TakeReport, DiscardReport, Discard, Release
  <2>3. QED
    BY <1>1, <2>1, <2>2, OwnedReplaced
<1>8. QED
  BY <1>3, <1>4, <1>5, <1>6, <1>7

LEMMA StepOwned ==
    ASSUME NoPanics, IInv, LinksInv, TicketsInv, OwnedInv, [Next]_vars
    PROVE  OwnedInv'
<1>1. CASE UNCHANGED <<stack, slots>>
  BY <1>1 DEF OwnedInv
<1>2. ASSUME NEW c \in Callers, NEW d \in Documents, NEW base \in Bases,
             NEW i \in Instances, Start(c, d, base, i)
      PROVE  OwnedInv'
  <2>1. Others(c) /\ stack[c] = <<>> /\ UNCHANGED slots
    BY <1>2, Starting DEF Start, Begins
  <2>2. \A k \in DOMAIN slots' : OwnedBy(c, k)
    BY <2>1, EmptySeq DEF OwnedBy
  <2>3. QED
    BY <2>1, <2>2, OwnedKept
<1>3. ASSUME NEW c \in Callers, ParseHere(c) \/ ParseOnThread(c)
      PROVE  OwnedInv'
  <2> DEFINE g == [Running(c) EXCEPT !.pc = "await"]
             h == Child(Running(c))
  <2>1. ~Idle(c) /\ Descend(c) /\ UNCHANGED slots
    BY <1>3 DEF ParseHere, ParseOnThread, At, Descend
  <2>2. Running(c) \in Frame /\ Running(c) = stack[c][Len(stack[c])]
    BY <2>1, TopOf
  <2>3. Pushes(c, g, h) /\ g.minted = stack[c][Len(stack[c])].minted
    BY <2>1, <2>2, Pushing DEF Frame
  <2> HIDE DEF g, h
  <2>4. QED
    BY <2>1, <2>3, OwnedPushed
<1>4. ASSUME NEW c \in Callers, Finish(c) \/ Fail(c) \/ Abort(c)
      PROVE  OwnedInv'
  <2>1. ~Idle(c) /\ Running(c).pc \in {"scan", "fail", "panic", "unpublished"}
    BY <1>4 DEF Finish, Fail, Abort, At
  <2>2. \E e : /\ Return(c, e)
               /\ \/ UNCHANGED slots
                  \/ HasTicket(Running(c)) /\ Record(Running(c).ticket, e)
    BY <1>4 DEF Finish, Fail, Abort
  <2>3. QED
    BY <2>1, <2>2, OwnedReturn
<1>5. ASSUME NEW c \in Callers, Step(c)
      PROVE  OwnedInv'
  BY <1>3, <1>4, <1>5, OwnedAdvance DEF Step
<1>6. QED
  BY <1>1, <1>2, <1>5 DEF Next, vars, Finished

(***************************************************************************)
(* No report outlives the load it was recorded for, where no processor     *)
(* panics: the store holds nothing once every parse has returned.          *)
(***************************************************************************)
THEOREM ReportsAreOwned ==
    ASSUME NoPanics
    PROVE  Spec => []SlotsOwned
<1>1. Init => OwnedInv
  BY DEF Init, ReportsInit, OwnedInv
<1>2. IInv /\ LinksInv /\ TicketsInv /\ OwnedInv /\ [Next]_vars => OwnedInv'
  BY StepOwned
<1>3. IInv /\ TicketsInv /\ OwnedInv => SlotsOwned
  <2> SUFFICES ASSUME IInv, TicketsInv, OwnedInv, NEW k \in DOMAIN slots
               PROVE  \E c \in Callers : Holds(c, k)
    BY DEF SlotsOwned
  <2>0. PICK c \in Callers : \E i \in 1 .. Len(stack[c]) : stack[c][i].minted = k
    BY DEF OwnedInv
  <2>1. PICK i \in 1 .. Len(stack[c]) : stack[c][i].minted = k
    BY <2>0
  <2>2. i \in DOMAIN stack[c] /\ stack[c][i] \in TicketFrames(slots, next)
    BY StackType DEF TicketsInv, FramesIn
  <2>3. QED
    BY <2>1, <2>2 DEF TicketFrames, Reported, Holds
<1>4. QED
  BY <1>1, <1>2, <1>3, TicketsUnique, ParsesLinked, Invariance, PTL DEF Spec
================================================================================
