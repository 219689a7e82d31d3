----------------------------- MODULE HandlesProofs -----------------------------
(***************************************************************************)
(* What the registry keeps to with any number of threads, grammars, inputs *)
(* and parsers.                                                            *)
(***************************************************************************)
EXTENDS HandlesProperties, FiniteSetTheorems, SequenceTheorems, TLAPS

(***************************************************************************)
(* The inductive invariant: a call's text is of the kind its place reads,  *)
(* the instance it looked up exists, handles name instances that exist,    *)
(* the mutexes are held by the calls that parse, and the calls underway    *)
(* leave room for the parsers they build.                                  *)
(***************************************************************************)
SoundCall(r) ==
    /\ r \in CallRecord
    /\ r.at \in {"build", "register"} => r.text \in Grammars
    /\ r.at = "register" => r.text \in Installable
    /\ r.at \in {"lookup", "lock", "parse", "unlock"} => r.text \in Inputs
    /\ r.at \in {"lock", "parse", "unlock"} => r.instance \in 1 .. Len(instances)

CallsInv == call \in [Callers -> CallRecord] /\ \A c \in Callers : SoundCall(call[c])

TableInv ==
    /\ nextID \in Nat
    /\ instances \in Seq(Instance)
    /\ DOMAIN loaded \subseteq 1 .. nextID
    /\ \A h \in DOMAIN loaded : loaded[h] \in 1 .. Len(instances)

RoomInv == nextID + Cardinality(Underway) <= MaxHandles

IInv == CallsInv /\ TableInv /\ RoomInv /\ HeldByUser

LEMMA UnderwayFinite == IsFiniteSet(Underway) /\ Cardinality(Underway) \in Nat
<1>1. Underway \in SUBSET Callers
  BY DEF Underway
<1>2. QED
  BY <1>1, HandlesAssumption, FS_Subset, FS_CardinalityType

LEMMA HandlesFit ==
    ASSUME IInv
    PROVE  /\ 0 \in Handles /\ 1 .. nextID \subseteq Handles /\ nextID \in Handles
           /\ Underway # {} => nextID + 1 \in Handles
<1>1. nextID <= MaxHandles
  BY UnderwayFinite, HandlesAssumption DEF IInv, TableInv, RoomInv
<1>2. Underway # {} => nextID + 1 <= MaxHandles
  <2>1. Underway # {} => Cardinality(Underway) # 0
    BY UnderwayFinite, FS_EmptySet
  <2>2. QED
    BY <2>1, UnderwayFinite, HandlesAssumption DEF IInv, TableInv, RoomInv
<1>3. QED
  BY <1>1, <1>2, HandlesAssumption DEF IInv, TableInv, Handles

LEMMA RestingIsSound ==
    ASSUME NEW kind \in Kinds, NEW h \in Handles, 0 \in Handles
    PROVE  /\ SoundCall(Resting(Reply(kind, h)))
           /\ Resting(Reply(kind, h)).at = "rest"
<1> DEFINE r == Resting(Reply(kind, h))
<1>1. r = [at |-> "rest", handle |-> 0, text |-> NoText, instance |-> 0,
           reply |-> [kind |-> kind, handle |-> h]]
  BY DEF Resting, Reply, Call, NoReply
<1> HIDE DEF r
<1>2. r \in CallRecord /\ r.at = "rest"
  BY <1>1 DEF CallRecord, Places
<1>3. SoundCall(r)
  BY <1>2 DEF SoundCall
<1>4. QED
  BY <1>2, <1>3 DEF r

(***************************************************************************)
(* A step of c that leaves the instances as they are, and does not move c  *)
(* into or out of a parse.                                                 *)
(***************************************************************************)
LEMMA CallMoves ==
    ASSUME IInv, NEW c \in Callers, NEW r, SoundCall(r),
           call' = [call EXCEPT ![c] = r], instances' = instances,
           (call[c].at \in {"parse", "unlock"}) <=> (r.at \in {"parse", "unlock"}),
           r.at \in {"parse", "unlock"} => r.instance = call[c].instance
    PROVE  CallsInv' /\ HeldByUser'
<1>1. \A d \in Callers : call'[d] = IF d = c THEN r ELSE call[d]
  BY DEF IInv, CallsInv
<1>2. CallsInv'
  <2>1. call' \in [Callers -> CallRecord]
    BY DEF IInv, CallsInv, SoundCall
  <2>2. ASSUME NEW d \in Callers PROVE SoundCall(call[d])'
    BY <1>1 DEF IInv, CallsInv, SoundCall
  <2>3. QED
    BY <2>1, <2>2 DEF CallsInv
<1>3. HeldByUser'
  <2>1. ASSUME NEW i \in DOMAIN instances, NEW d \in Callers
        PROVE  Using(d, i)' <=> Using(d, i)
    BY <1>1 DEF Using
  <2>2. QED
    BY <2>1 DEF IInv, HeldByUser
<1>4. QED
  BY <1>2, <1>3

(***************************************************************************)
(* What a step does to the number of the calls underway.                   *)
(***************************************************************************)
LEMMA UnderwayMoves ==
    ASSUME IInv, NEW c \in Callers, NEW r, call' = [call EXCEPT ![c] = r]
    PROVE  /\ r.at \in {"build", "register"} =>
                 Cardinality(Underway') <= Cardinality(Underway) + 1
           /\ r.at \notin {"build", "register"} \/ c \in Underway =>
                 Cardinality(Underway') <= Cardinality(Underway)
           /\ r.at \notin {"build", "register"} /\ c \in Underway =>
                 Cardinality(Underway') = Cardinality(Underway) - 1
           /\ Cardinality(Underway') \in Nat
<1>1. \A d \in Callers : call'[d] = IF d = c THEN r ELSE call[d]
  BY DEF IInv, CallsInv
<1>2. Underway' = IF r.at \in {"build", "register"} THEN Underway \cup {c} ELSE Underway \ {c}
  BY <1>1 DEF Underway
<1>3. /\ IsFiniteSet(Underway \cup {c}) /\ IsFiniteSet(Underway \ {c})
      /\ Cardinality(Underway \cup {c}) =
            IF c \in Underway THEN Cardinality(Underway) ELSE Cardinality(Underway) + 1
      /\ Cardinality(Underway \ {c}) =
            IF c \in Underway THEN Cardinality(Underway) - 1 ELSE Cardinality(Underway)
  BY UnderwayFinite, FS_AddElement, FS_RemoveElement
<1>4. QED
  BY <1>2, <1>3, UnderwayFinite, FS_CardinalityType

LEMMA StartingIsSound ==
    ASSUME NEW at \in {"build", "lookup", "free"}, NEW h \in Handles, NEW text,
           at = "build" => text \in Grammars,
           at = "lookup" => text \in Inputs,
           at = "free" => text = NoText,
           0 \in Handles
    PROVE  SoundCall(Call(at, h, text)) /\ Call(at, h, text).at = at
<1> DEFINE r == Call(at, h, text)
<1>1. r = [at |-> at, handle |-> h, text |-> text, instance |-> 0,
           reply |-> [kind |-> "none", handle |-> 0]]
  BY DEF Call, NoReply, Reply
<1> HIDE DEF r
<1>2. r \in CallRecord /\ r.at = at /\ r.text = text
  BY <1>1 DEF CallRecord, Places, Kinds
<1>3. QED
  BY <1>2 DEF SoundCall, r

\* A call that goes on at another place, with what it has.
LEMMA GoingIsSound ==
    ASSUME IInv, NEW c \in Callers, NEW place \in Places,
           /\ place \in {"build", "register"} => call[c].text \in Grammars
           /\ place = "register" => call[c].text \in Installable
           /\ place \in {"lookup", "lock", "parse", "unlock"} => call[c].text \in Inputs
           /\ place \in {"lock", "parse", "unlock"} =>
                 call[c].instance \in 1 .. Len(instances)
    PROVE  /\ SoundCall([call[c] EXCEPT !.at = place])
           /\ [call[c] EXCEPT !.at = place].at = place
           /\ [call[c] EXCEPT !.at = place].instance = call[c].instance
<1>1. call[c] \in CallRecord
  BY DEF IInv, CallsInv
<1>2. QED
  BY <1>1 DEF SoundCall, CallRecord

(***************************************************************************)
(* The steps that touch nothing but the call of c.                         *)
(***************************************************************************)
LEMMA CallGrammarKeeps ==
    ASSUME IInv, NEW c \in Callers, NEW g \in Grammars, CallGrammar(c, g)
    PROVE  IInv'
<1> DEFINE r == IF g \in Unreadable THEN Resting(Reply("usage", 0)) ELSE Call("build", 0, g)
<1>1. /\ SoundCall(r)
      /\ r.at \in {"rest", "build"}
  BY HandlesFit, RestingIsSound, StartingIsSound DEF Kinds
<1>2. At(c, "rest") /\ call' = [call EXCEPT ![c] = r]
  BY DEF CallGrammar, Begin
<1> HIDE DEF r
<1>3. UNCHANGED <<nextID, loaded, instances>>
  BY DEF CallGrammar
<1>4. CallsInv' /\ HeldByUser'
  BY <1>1, <1>2, <1>3, CallMoves DEF At
<1>5. TableInv'
  BY <1>3 DEF IInv, TableInv
<1>6. RoomInv'
  <2>1. Cardinality(Underway') <= Cardinality(Underway) + 1 /\ Cardinality(Underway') \in Nat
    <3>1. CASE r.at = "build"
      BY <1>2, <3>1, UnderwayMoves
    <3>2. CASE r.at = "rest"
      <4>1. Cardinality(Underway') <= Cardinality(Underway) /\ Cardinality(Underway') \in Nat
        BY <1>2, <3>2, UnderwayMoves
      <4>2. QED
        BY <4>1, UnderwayFinite
    <3>3. QED
      BY <1>1, <3>1, <3>2
  <2>2. nextID + Cardinality(Underway) < MaxHandles
    BY DEF CallGrammar, Room
  <2>3. QED
    BY <1>3, <2>1, <2>2, UnderwayFinite, HandlesAssumption DEF RoomInv, IInv, TableInv
<1>7. QED
  BY <1>4, <1>5, <1>6 DEF IInv

\* The others leave the calls underway as they are, or fewer.
LEMMA QuietKeeps ==
    ASSUME IInv, NEW c \in Callers, NEW r, SoundCall(r),
           call' = [call EXCEPT ![c] = r], UNCHANGED <<nextID, loaded, instances>>,
           (call[c].at \in {"parse", "unlock"}) <=> (r.at \in {"parse", "unlock"}),
           r.at \in {"parse", "unlock"} => r.instance = call[c].instance,
           r.at \in {"build", "register"} => call[c].at \in {"build", "register"}
    PROVE  IInv'
<1>1. CallsInv' /\ HeldByUser'
  BY CallMoves
<1>2. TableInv'
  BY DEF IInv, TableInv
<1>3. RoomInv'
  <2>1. Cardinality(Underway') <= Cardinality(Underway) /\ Cardinality(Underway') \in Nat
    BY UnderwayMoves DEF Underway
  <2>2. QED
    BY <2>1, UnderwayFinite, HandlesAssumption DEF RoomInv, IInv, TableInv
<1>4. QED
  BY <1>1, <1>2, <1>3 DEF IInv

LEMMA BuildKeeps ==
    ASSUME IInv, NEW c \in Callers, Build(c)
    PROVE  IInv'
<1>1. At(c, "build") /\ call[c].text \in Grammars /\ UNCHANGED <<nextID, loaded, instances>>
  BY DEF Build, At, IInv, CallsInv, SoundCall
<1>2. CASE call[c].text \in Installable /\ Go(c, "register")
  <2> DEFINE r == [call[c] EXCEPT !.at = "register"]
  <2>1. SoundCall(r) /\ r.at = "register"
    BY <1>1, <1>2, GoingIsSound DEF Places
  <2>2. call' = [call EXCEPT ![c] = r]
    BY <1>2 DEF Go
  <2> HIDE DEF r
  <2>3. QED
    BY <1>1, <2>1, <2>2, QuietKeeps DEF At
<1>3. CASE Answer(c, "grammar")
  <2> DEFINE r == Resting(Reply("grammar", 0))
  <2>1. SoundCall(r) /\ r.at = "rest"
    BY HandlesFit, RestingIsSound DEF Kinds
  <2>2. call' = [call EXCEPT ![c] = r]
    BY <1>3 DEF Answer
  <2> HIDE DEF r
  <2>3. QED
    BY <1>1, <2>1, <2>2, QuietKeeps DEF At
<1>4. QED
  BY <1>2, <1>3 DEF Build

LEMMA CallParseKeeps ==
    ASSUME IInv, NEW c \in Callers, NEW h \in Handles, NEW src \in Inputs, CallParse(c, h, src)
    PROVE  IInv'
<1> DEFINE r == IF src \in Unreadable THEN Resting(Reply("usage", 0)) ELSE Call("lookup", h, src)
<1>1. /\ SoundCall(r)
      /\ r.at \in {"rest", "lookup"}
  BY HandlesFit, RestingIsSound, StartingIsSound DEF Kinds
<1>2. /\ At(c, "rest") /\ call' = [call EXCEPT ![c] = r]
      /\ UNCHANGED <<nextID, loaded, instances>>
  BY DEF CallParse, Begin
<1> HIDE DEF r
<1>3. QED
  BY <1>1, <1>2, QuietKeeps DEF At

LEMMA CallFreeKeeps ==
    ASSUME IInv, NEW c \in Callers, NEW h \in Handles, CallFree(c, h)
    PROVE  IInv'
<1> DEFINE r == Call("free", h, NoText)
<1>1. SoundCall(r) /\ r.at = "free"
  BY HandlesFit, StartingIsSound
<1>2. /\ At(c, "rest") /\ call' = [call EXCEPT ![c] = r]
      /\ UNCHANGED <<nextID, loaded, instances>>
  BY DEF CallFree, Begin
<1> HIDE DEF r
<1>3. QED
  BY <1>1, <1>2, QuietKeeps DEF At

(***************************************************************************)
(* The steps that read or write the registry and the instances.            *)
(***************************************************************************)
LEMMA LookupKeeps ==
    ASSUME IInv, NEW c \in Callers, Lookup(c)
    PROVE  IInv'
<1>1. /\ At(c, "lookup") /\ call[c] \in CallRecord /\ call[c].text \in Inputs
      /\ UNCHANGED <<nextID, loaded, instances>>
  BY DEF Lookup, At, IInv, CallsInv, SoundCall
<1>2. CASE Answer(c, "unknown")
  <2> DEFINE r == Resting(Reply("unknown", 0))
  <2>1. SoundCall(r) /\ r.at = "rest"
    BY HandlesFit, RestingIsSound DEF Kinds
  <2>2. call' = [call EXCEPT ![c] = r]
    BY <1>2 DEF Answer
  <2> HIDE DEF r
  <2>3. QED
    BY <1>1, <2>1, <2>2, QuietKeeps DEF At
<1>3. ASSUME call[c].handle \in DOMAIN loaded,
             call' = [call EXCEPT ![c].at = "lock", ![c].instance = loaded[call[c].handle]]
      PROVE  IInv'
  <2> DEFINE i == loaded[call[c].handle]
             r == [call[c] EXCEPT !.at = "lock", !.instance = i]
  <2>1. i \in 1 .. Len(instances) /\ i \in Nat
    BY <1>3 DEF IInv, TableInv
  <2> HIDE DEF i
  <2>2. r \in CallRecord /\ r.at = "lock" /\ r.text \in Inputs
        /\ r.instance \in 1 .. Len(instances)
    BY <1>1, <2>1 DEF CallRecord, Places
  <2>3. SoundCall(r)
    BY <2>2 DEF SoundCall
  <2>4. call' = [call EXCEPT ![c] = r]
    BY <1>3 DEF i
  <2> HIDE DEF r
  <2>5. QED
    BY <1>1, <2>2, <2>3, <2>4, QuietKeeps DEF At
<1>4. QED
  BY <1>2, <1>3 DEF Lookup

LEMMA ParseKeeps ==
    ASSUME IInv, NEW c \in Callers, Parse(c)
    PROVE  IInv'
<1> DEFINE r == [call[c] EXCEPT !.at = "unlock"]
<1>1. /\ At(c, "parse") /\ call[c].text \in Inputs
      /\ call[c].instance \in 1 .. Len(instances)
      /\ UNCHANGED <<nextID, loaded, instances>>
  BY DEF Parse, At, IInv, CallsInv, SoundCall
<1>2. SoundCall(r) /\ r.at = "unlock" /\ r.instance = call[c].instance
  BY <1>1, GoingIsSound DEF Places
<1>3. call' = [call EXCEPT ![c] = r]
  BY DEF Parse, Go
<1> HIDE DEF r
<1>4. QED
  BY <1>1, <1>2, <1>3, QuietKeeps DEF At

\* A step that changes who holds the mutex of one instance.
LEMMA HolderMoves ==
    ASSUME IInv, NEW i \in 1 .. Len(instances), NEW who \in Callers \cup {Nobody},
           instances' = [instances EXCEPT ![i].holder = who],
           UNCHANGED <<nextID, loaded>>
    PROVE  /\ TableInv' /\ Len(instances') = Len(instances)
           /\ \A j \in 1 .. Len(instances) :
                 instances'[j].holder = IF j = i THEN who ELSE instances[j].holder
           /\ \A j \in 1 .. Len(instances) : instances'[j].grammar = instances[j].grammar
<1> DEFINE e == [instances[i] EXCEPT !.holder = who]
<1>1. instances \in Seq(Instance) /\ instances[i] \in Instance
  BY ElementOfSeq DEF IInv, TableInv
<1>2. e \in Instance /\ e.holder = who /\ e.grammar = instances[i].grammar
  BY <1>1 DEF Instance
<1>3. instances' = [instances EXCEPT ![i] = e]
  OBVIOUS
<1> HIDE DEF e
<1>4. /\ instances' \in Seq(Instance) /\ Len(instances') = Len(instances)
      /\ \A j \in 1 .. Len(instances) : instances'[j] = IF j = i THEN e ELSE instances[j]
  BY <1>1, <1>2, <1>3, ExceptSeq
<1>5. TableInv'
  BY <1>4 DEF IInv, TableInv
<1>6. QED
  BY <1>2, <1>4, <1>5

LEMMA LockKeeps ==
    ASSUME IInv, NEW c \in Callers, Lock(c)
    PROVE  IInv'
<1> DEFINE i == call[c].instance
           r == [call[c] EXCEPT !.at = "parse"]
<1>1. /\ At(c, "lock") /\ call[c].text \in Inputs /\ i \in 1 .. Len(instances)
      /\ UNCHANGED <<nextID, loaded>>
  BY DEF Lock, At, IInv, CallsInv, SoundCall
<1>2. SoundCall(r) /\ r.at = "parse" /\ r.instance = i
  BY <1>1, GoingIsSound DEF Places
<1>3. call' = [call EXCEPT ![c] = r]
  BY DEF Lock, Go
<1>4. /\ instances[i].holder = Nobody /\ c \in Callers \cup {Nobody}
      /\ instances' = [instances EXCEPT ![i].holder = c]
  BY DEF Lock, Unheld, Held
<1> HIDE DEF r
<1>5. /\ TableInv' /\ Len(instances') = Len(instances)
      /\ \A j \in 1 .. Len(instances) :
            instances'[j].holder = IF j = i THEN c ELSE instances[j].holder
  BY <1>1, <1>4, HolderMoves
<1>6. \A d \in Callers : call'[d] = IF d = c THEN r ELSE call[d]
  BY <1>3 DEF IInv, CallsInv
<1>7. CallsInv'
  BY <1>2, <1>5, <1>6, <1>3 DEF IInv, CallsInv, SoundCall
<1>8. HeldByUser'
  <2>1. DOMAIN instances' = 1 .. Len(instances) /\ DOMAIN instances = 1 .. Len(instances)
    BY <1>5 DEF TableInv, IInv
  <2>2. ASSUME NEW j \in 1 .. Len(instances), NEW d \in Callers
        PROVE  instances'[j].holder = d <=> Using(d, j)'
    <3>1. instances[j].holder = d <=> Using(d, j)
      BY <2>1 DEF IInv, HeldByUser
    <3>2. CASE d = c
      BY <1>1, <1>2, <1>4, <1>5, <1>6, <3>1, <3>2 DEF Using, At
    <3>3. CASE d # c
      BY <1>4, <1>5, <1>6, <3>1, <3>3, HandlesAssumption DEF Using
    <3>4. QED
      BY <3>2, <3>3
  <2>3. QED
    BY <2>1, <2>2 DEF HeldByUser
<1>9. RoomInv'
  <2>1. Cardinality(Underway') <= Cardinality(Underway) /\ Cardinality(Underway') \in Nat
    BY <1>2, <1>3, UnderwayMoves
  <2>2. QED
    BY <1>1, <2>1, UnderwayFinite, HandlesAssumption DEF RoomInv, IInv, TableInv
<1>10. QED
  BY <1>5, <1>7, <1>8, <1>9 DEF IInv

LEMMA UnlockKeeps ==
    ASSUME IInv, NEW c \in Callers, Unlock(c)
    PROVE  IInv'
<1> DEFINE i == call[c].instance
           kind == Answered(Outcome(c))
           r == Resting(Reply(kind, 0))
<1>1. /\ At(c, "unlock") /\ call[c].text \in Inputs /\ i \in 1 .. Len(instances)
      /\ UNCHANGED <<nextID, loaded>>
  BY DEF Unlock, At, IInv, CallsInv, SoundCall
<1>2. kind \in Kinds
  <2>1. instances[i].grammar \in Grammars
    <3>1. instances \in Seq(Instance)
      BY DEF IInv, TableInv
    <3>2. instances[i] \in Instance
      BY <1>1, <3>1, ElementOfSeq
    <3>3. QED
      BY <3>2 DEF Instance
  <2>2. Outcome(c) = Verdict[<<instances[i].grammar, call[c].text>>]
    BY DEF Outcome, Held
  <2> HIDE DEF i
  <2>3. Outcome(c) \in Verdicts
    BY <1>1, <2>1, <2>2, HandlesAssumption
  <2>4. QED
    BY <2>3 DEF Answered, Verdicts, Kinds
<1> HIDE DEF kind
<1>3. SoundCall(r) /\ r.at = "rest"
  BY <1>2, HandlesFit, RestingIsSound
<1>4. /\ call' = [call EXCEPT ![c] = r]
      /\ instances' = [instances EXCEPT ![i].holder = Nobody]
  BY DEF Unlock, Answer, Released, kind
<1> HIDE DEF r
<1>5. /\ TableInv' /\ Len(instances') = Len(instances)
      /\ \A j \in 1 .. Len(instances) :
            instances'[j].holder = IF j = i THEN Nobody ELSE instances[j].holder
  BY <1>1, <1>4, HolderMoves
<1>6. \A d \in Callers : call'[d] = IF d = c THEN r ELSE call[d]
  BY <1>4 DEF IInv, CallsInv
<1>7. CallsInv'
  BY <1>3, <1>4, <1>5, <1>6 DEF IInv, CallsInv, SoundCall
<1>8. HeldByUser'
  <2>1. DOMAIN instances' = 1 .. Len(instances) /\ DOMAIN instances = 1 .. Len(instances)
    BY <1>5 DEF TableInv, IInv
  <2>2. instances[i].holder = c
    BY <1>1, <2>1 DEF IInv, HeldByUser, Using, At
  <2>3. ASSUME NEW j \in 1 .. Len(instances), NEW d \in Callers
        PROVE  instances'[j].holder = d <=> Using(d, j)'
    <3>1. instances[j].holder = d <=> Using(d, j)
      BY <2>1 DEF IInv, HeldByUser
    <3>2. CASE d = c
      BY <1>1, <1>3, <1>5, <1>6, <3>1, <3>2, HandlesAssumption DEF Using, At
    <3>3. CASE d # c
      BY <2>2, <1>5, <1>6, <3>1, <3>3, HandlesAssumption DEF Using
    <3>4. QED
      BY <3>2, <3>3
  <2>4. QED
    BY <2>1, <2>3 DEF HeldByUser
<1>9. RoomInv'
  <2>1. Cardinality(Underway') <= Cardinality(Underway) /\ Cardinality(Underway') \in Nat
    BY <1>3, <1>4, UnderwayMoves
  <2>2. QED
    BY <1>1, <2>1, UnderwayFinite, HandlesAssumption DEF RoomInv, IInv, TableInv
<1>10. QED
  BY <1>5, <1>7, <1>8, <1>9 DEF IInv

LEMMA RegisterKeeps ==
    ASSUME IInv, NEW c \in Callers, Register(c)
    PROVE  IInv'
<1> DEFINE e == [grammar |-> call[c].text, holder |-> Nobody]
           n == nextID + 1
           r == Resting(Reply("handle", n))
<1>1. At(c, "register") /\ e \in Instance /\ c \in Underway
  BY DEF Register, At, IInv, CallsInv, SoundCall, Instance, Underway
<1>2. /\ nextID' = n /\ instances' = Append(instances, e)
      /\ loaded' = [h \in DOMAIN loaded \cup {n} |->
                        IF h = n THEN Len(instances) + 1 ELSE loaded[h]]
      /\ call' = [call EXCEPT ![c] = r]
  BY DEF Register, Fresh
<1> HIDE DEF e
<1>3. n \in Handles /\ n \in Nat /\ nextID \in Nat
  BY <1>1, HandlesFit DEF IInv, TableInv
<1>4. SoundCall(r) /\ r.at = "rest"
  BY <1>3, HandlesFit, RestingIsSound DEF Kinds
<1> HIDE DEF r
<1>5. /\ instances \in Seq(Instance) /\ Len(instances) \in Nat
      /\ instances' \in Seq(Instance) /\ Len(instances') = Len(instances) + 1
      /\ \A j \in 1 .. Len(instances) : instances'[j] = instances[j]
      /\ instances'[Len(instances) + 1] = e
      /\ DOMAIN instances' = 1 .. Len(instances) + 1
  BY <1>1, <1>2, AppendProperties, LenProperties DEF IInv, TableInv
<1>6. \A d \in Callers : call'[d] = IF d = c THEN r ELSE call[d]
  BY <1>2 DEF IInv, CallsInv
<1>7. CallsInv'
  <2>1. call' \in [Callers -> CallRecord]
    BY <1>2, <1>4 DEF IInv, CallsInv, SoundCall
  <2>2. ASSUME NEW d \in Callers PROVE SoundCall(call[d])'
    BY <1>4, <1>5, <1>6 DEF IInv, CallsInv, SoundCall
  <2>3. QED
    BY <2>1, <2>2 DEF CallsInv
<1>8. TableInv'
  <2>1. DOMAIN loaded' \subseteq 1 .. nextID'
    BY <1>2, <1>3 DEF IInv, TableInv
  <2>2. ASSUME NEW h \in DOMAIN loaded' PROVE loaded'[h] \in 1 .. Len(instances')
    BY <1>2, <1>5 DEF IInv, TableInv
  <2>3. QED
    BY <1>2, <1>3, <1>5, <2>1, <2>2 DEF TableInv
<1>9. HeldByUser'
  <2>1. DOMAIN instances = 1 .. Len(instances)
    BY <1>5
  <2>2. ASSUME NEW j \in 1 .. Len(instances), NEW d \in Callers
        PROVE  instances'[j].holder = d <=> Using(d, j)'
    <3>1. instances[j].holder = d <=> Using(d, j)
      BY <2>1 DEF IInv, HeldByUser
    <3>2. QED
      BY <1>1, <1>4, <1>5, <1>6, <3>1 DEF Using, At
  <2>3. ASSUME NEW j \in {Len(instances) + 1}, NEW d \in Callers
        PROVE  instances'[j].holder = d <=> Using(d, j)'
    <3>1. instances'[j].holder # d
      BY <1>5, HandlesAssumption DEF e
    <3>2. ~Using(d, j)'
      BY <1>4, <1>5, <1>6 DEF Using, IInv, CallsInv, SoundCall
    <3>3. QED
      BY <3>1, <3>2
  <2>4. ASSUME NEW j \in DOMAIN instances', NEW d \in Callers
        PROVE  instances'[j].holder = d <=> Using(d, j)'
    <3>1. j \in 1 .. Len(instances) \/ j = Len(instances) + 1
      BY <1>5
    <3>2. CASE j \in 1 .. Len(instances)
      BY <2>2, <3>2
    <3>3. CASE j = Len(instances) + 1
      BY <2>3, <3>3
    <3>4. QED
      BY <3>1, <3>2, <3>3
  <2>5. QED
    BY <2>4 DEF HeldByUser
<1>10. RoomInv'
  <2>1. Cardinality(Underway') = Cardinality(Underway) - 1
    BY <1>1, <1>2, <1>4, UnderwayMoves
  <2>2. QED
    BY <1>2, <1>3, <2>1, UnderwayFinite, HandlesAssumption DEF RoomInv, IInv
<1>11. QED
  BY <1>7, <1>8, <1>9, <1>10 DEF IInv

LEMMA FreeKeeps ==
    ASSUME IInv, NEW c \in Callers, FreeGrammar(c)
    PROVE  IInv'
<1> DEFINE r == Resting(Reply("none", 0))
<1>1. SoundCall(r) /\ r.at = "rest"
  BY HandlesFit, RestingIsSound DEF Kinds
<1>2. /\ At(c, "free") /\ call' = [call EXCEPT ![c] = r]
      /\ loaded' = [h \in DOMAIN loaded \ {call[c].handle} |-> loaded[h]]
      /\ UNCHANGED <<nextID, instances>>
  BY DEF FreeGrammar, NoReply
<1> HIDE DEF r
<1>3. CallsInv' /\ HeldByUser'
  BY <1>1, <1>2, CallMoves DEF At
<1>4. TableInv'
  BY <1>2 DEF IInv, TableInv
<1>5. RoomInv'
  <2>1. Cardinality(Underway') <= Cardinality(Underway) /\ Cardinality(Underway') \in Nat
    BY <1>1, <1>2, UnderwayMoves
  <2>2. QED
    BY <1>2, <2>1, UnderwayFinite, HandlesAssumption DEF RoomInv, IInv, TableInv
<1>6. QED
  BY <1>3, <1>4, <1>5 DEF IInv

LEMMA StartEstablishes == Init => IInv
<1> SUFFICES ASSUME Init PROVE IInv
  OBVIOUS
<1>1. \A c \in Callers : call[c] = Resting(Reply("none", 0))
  BY DEF Init, NoReply
<1>2. 0 \in Handles
  BY HandlesAssumption DEF Handles
<1>3. SoundCall(Resting(Reply("none", 0))) /\ Resting(Reply("none", 0)).at = "rest"
  BY <1>2, RestingIsSound DEF Kinds
<1>4. CallsInv
  BY <1>1, <1>3 DEF Init, CallsInv, SoundCall, NoReply
<1>5. TableInv
  BY EmptySeq DEF Init, TableInv
<1>6. RoomInv
  <2>1. Underway = {}
    BY <1>1, <1>3 DEF Underway
  <2>2. QED
    BY <2>1, FS_EmptySet, HandlesAssumption DEF Init, RoomInv
<1>7. HeldByUser
  BY DEF Init, HeldByUser
<1>8. QED
  BY <1>4, <1>5, <1>6, <1>7 DEF IInv

LEMMA NextKeeps == IInv /\ [Next]_vars => IInv'
<1> SUFFICES ASSUME IInv, [Next]_vars PROVE IInv'
  OBVIOUS
<1>1. CASE UNCHANGED vars
  BY <1>1 DEF vars, IInv, CallsInv, SoundCall, TableInv, RoomInv, Underway, HeldByUser, Using
<1>2. ASSUME NEW c \in Callers, Calls(c) PROVE IInv'
  BY <1>2, CallGrammarKeeps, CallParseKeeps, CallFreeKeeps DEF Calls
<1>3. ASSUME NEW c \in Callers, Advance(c) PROVE IInv'
  BY <1>3, BuildKeeps, RegisterKeeps, LookupKeeps, UnlockKeeps, FreeKeeps DEF Advance
<1>4. QED
  BY <1>1, <1>2, <1>3, LockKeeps, ParseKeeps DEF Next

(***************************************************************************)
(* The registry's invariant holds always.                                  *)
(***************************************************************************)
THEOREM RegistryInvariance == Spec => []IInv
  BY StartEstablishes, NextKeeps, PTL DEF Spec

(***************************************************************************)
(* Every state is well typed, whatever the foreign program does.           *)
(***************************************************************************)
THEOREM RegistryTypeCorrect == Spec => []TypeOK
<1>1. IInv => TypeOK
  <2> SUFFICES ASSUME IInv PROVE TypeOK
    OBVIOUS
  <2>1. nextID \in Handles
    BY HandlesFit
  <2>2. DOMAIN instances = 1 .. Len(instances)
    BY LenProperties DEF IInv, TableInv
  <2>3. QED
    BY <2>1, <2>2 DEF IInv, CallsInv, TableInv, SoundCall, TypeOK
<1>2. QED
  BY <1>1, RegistryInvariance, PTL

(***************************************************************************)
(* Every mutex is held by exactly the call that uses its engine.           *)
(***************************************************************************)
THEOREM LocksFollowCalls == Spec => []HeldByUser
<1>1. IInv => HeldByUser
  BY DEF IInv
<1>2. QED
  BY <1>1, RegistryInvariance, PTL

(***************************************************************************)
(* No engine ever runs two parses at once, with any number of threads and  *)
(* whatever they free meanwhile.                                           *)
(***************************************************************************)
THEOREM EnginesAreExclusive == Spec => []OneParseAtATime
<1>1. IInv => OneParseAtATime
  BY DEF IInv, HeldByUser, OneParseAtATime
<1>2. QED
  BY <1>1, RegistryInvariance, PTL

(***************************************************************************)
(* What a step does to the handles issued before it.                       *)
(***************************************************************************)
NamesKept ==
    \A h \in 1 .. nextID : h \in DOMAIN loaded' => h \in DOMAIN loaded /\ loaded'[h] = loaded[h]

LEMMA StepKeepsNames == IInv /\ [Next]_vars => NamesKept
<1> SUFFICES ASSUME IInv, [Next]_vars, NEW h \in 1 .. nextID, h \in DOMAIN loaded'
             PROVE  h \in DOMAIN loaded /\ loaded'[h] = loaded[h]
  BY DEF NamesKept
<1>1. nextID \in Nat /\ h # nextID + 1
  BY DEF IInv, TableInv
<1>2. CASE UNCHANGED loaded
  BY <1>2
<1>3. ASSUME NEW c \in Callers, Register(c) PROVE h \in DOMAIN loaded /\ loaded'[h] = loaded[h]
  BY <1>1, <1>3 DEF Register, Fresh
<1>4. ASSUME NEW c \in Callers, FreeGrammar(c) PROVE h \in DOMAIN loaded /\ loaded'[h] = loaded[h]
  BY <1>4 DEF FreeGrammar
<1>5. ASSUME NEW c \in Callers, Calls(c) PROVE UNCHANGED loaded
  BY <1>5 DEF Calls, CallGrammar, CallParse, CallFree
<1>6. ASSUME NEW c \in Callers, Build(c) \/ Lookup(c) \/ Unlock(c) \/ Lock(c) \/ Parse(c)
      PROVE  UNCHANGED loaded
  BY <1>6 DEF Build, Lookup, Unlock, Lock, Parse
<1>7. QED
  BY <1>2, <1>3, <1>4, <1>5, <1>6 DEF Next, Advance, vars

(***************************************************************************)
(* A handle never comes to name another parser, and a freed one names none *)
(* ever after.                                                             *)
(***************************************************************************)
THEOREM HandlesAreStable == Spec => HandleNamesOneParser
<1>1. IInv /\ [Next]_vars => [NamesKept]_vars
  BY StepKeepsNames
<1>2. QED
  BY <1>1, RegistryInvariance, PTL DEF Spec, HandleNamesOneParser, NamesKept

(***************************************************************************)
(* The refinement: what the service of HandleService sees of a step.       *)
(***************************************************************************)
\* No engine turns into one of another grammar.
GrammarsKept ==
    \A j \in 1 .. Len(instances) : instances'[j].grammar = instances[j].grammar

\* A step of the call of c, which asks `ask` afterwards.
AsksNow(c, ask) == Asked' = [Asked EXCEPT ![c] = ask]

LEMMA StepOfOne ==
    ASSUME IInv, NEW c \in Callers, NEW r, call' = [call EXCEPT ![c] = r], GrammarsKept
    PROVE  AsksNow(c, AskedBy(c)') /\ call'[c] = r
<1>1. call'[c] = r /\ \A d \in Callers : d # c => call'[d] = call[d]
  BY DEF IInv, CallsInv
<1>2. ASSUME NEW d \in Callers, d # c
      PROVE  AskedBy(d)' = AskedBy(d)
  <2>1. CASE Decided(d)
    <3>1. call[d].instance \in 1 .. Len(instances)
      BY <2>1 DEF Decided, IInv, CallsInv, SoundCall
    <3>2. Outcome(d)' = Outcome(d)
      BY <1>1, <1>2, <3>1 DEF Outcome, Held, GrammarsKept
    <3>3. QED
      BY <1>1, <1>2, <3>2 DEF AskedBy, Decided
  <2>2. CASE ~Decided(d)
    BY <1>1, <1>2, <2>2 DEF AskedBy, Decided
  <2>3. QED
    BY <2>1, <2>2
<1>3. QED
  BY <1>1, <1>2 DEF AsksNow, Asked

\* What a call that is not decided yet asks after a step: one that has ended,
\* one that has started, and one that is on its way.
LEMMA Undecided ==
    ASSUME NEW c, ~Decided(c)'
    PROVE  AskedBy(c)' = [op |-> OperationAt[call'[c].at], handle |-> call'[c].handle,
                          text |-> call'[c].text, decided |-> FALSE, reply |-> call'[c].reply]
<1>1. Decided(c)' = FALSE
  BY DEF Decided
<1>2. QED
  BY <1>1, Zenon DEF AskedBy

LEMMA UndecidedNow ==
    ASSUME NEW c, ~Decided(c)
    PROVE  AskedBy(c) = [op |-> OperationAt[call[c].at], handle |-> call[c].handle,
                         text |-> call[c].text, decided |-> FALSE, reply |-> call[c].reply]
<1>1. Decided(c) = FALSE
  BY DEF Decided
<1>2. QED
  BY <1>1, Zenon DEF AskedBy

\* The same for a parse that has looked its instance up.
LEMMA Undone ==
    ASSUME NEW c, Decided(c)'
    PROVE  AskedBy(c)' = [op |-> "parse", handle |-> call'[c].handle,
                          text |-> call'[c].text, decided |-> TRUE,
                          reply |-> Reply(Answered(Outcome(c)'), 0)]
<1>1. Decided(c)' = TRUE /\ OperationAt[call'[c].at] = "parse"
  BY DEF Decided, OperationAt
<1>2. QED
  BY <1>1, Zenon DEF AskedBy, Reply, Answered

LEMMA UndoneNow ==
    ASSUME NEW c, Decided(c)
    PROVE  AskedBy(c) = [op |-> "parse", handle |-> call[c].handle,
                         text |-> call[c].text, decided |-> TRUE,
                         reply |-> Reply(Answered(Outcome(c)), 0)]
<1>1. Decided(c) = TRUE /\ OperationAt[call[c].at] = "parse"
  BY DEF Decided, OperationAt
<1>2. QED
  BY <1>1, Zenon DEF AskedBy

LEMMA AskedAtRest ==
    ASSUME NEW c, NEW kind, NEW h, call'[c] = Resting(Reply(kind, h))
    PROVE  AskedBy(c)' = Service!Answered(Service!Reply(kind, h))
<1>1. call'[c] = [at |-> "rest", handle |-> 0, text |-> NoText, instance |-> 0,
                  reply |-> [kind |-> kind, handle |-> h]]
  BY DEF Resting, Call, NoReply, Reply
<1>2. ~Decided(c)' /\ OperationAt[call'[c].at] = "rest"
  BY <1>1 DEF Decided, OperationAt
<1>3. QED
  BY <1>1, <1>2, Undecided DEF Service!Answered, Service!Reply

LEMMA AskedAtStart ==
    ASSUME NEW c, NEW at \in {"build", "lookup", "free"}, NEW h, NEW text,
           call'[c] = Call(at, h, text)
    PROVE  AskedBy(c)' = Service!Asking(OperationAt[at], h, text)
<1>1. call'[c] = [at |-> at, handle |-> h, text |-> text, instance |-> 0,
                  reply |-> [kind |-> "none", handle |-> 0]]
  BY DEF Call, NoReply, Reply
<1>2. ~Decided(c)'
  BY <1>1 DEF Decided
<1>3. QED
  BY <1>1, <1>2, Undecided DEF Service!Asking, Service!Nothing, Service!Reply

LEMMA AskedNow ==
    ASSUME NEW c \in Callers
    PROVE  /\ Asked[c] = AskedBy(c)
           /\ Asked[c].op = OperationAt[call[c].at] /\ Asked[c].decided = Decided(c)
           /\ Asked[c].handle = call[c].handle /\ Asked[c].text = call[c].text
  BY DEF Asked, AskedBy, Decided, Outcome, Held

\* The two tables, where the step leaves them alone.
LEMMA TablesSeen ==
    ASSUME IInv, UNCHANGED <<nextID, loaded>>, GrammarsKept
    PROVE  Known' = Known /\ Issued' = Issued
  BY DEF Known, Issued, GrammarsKept, IInv, TableInv

(***************************************************************************)
(* A call starts.                                                          *)
(***************************************************************************)
\* A step of c that leaves the registry and the instances alone.
LEMMA StepAlone ==
    ASSUME IInv, NEW c \in Callers, NEW r, call' = [call EXCEPT ![c] = r],
           UNCHANGED <<nextID, loaded, instances>>
    PROVE  /\ AsksNow(c, AskedBy(c)') /\ call'[c] = r
           /\ Known' = Known /\ Issued' = Issued
<1>1. GrammarsKept
  BY DEF GrammarsKept
<1>2. QED
  BY <1>1, StepOfOne, TablesSeen

LEMMA GrammarAsked ==
    ASSUME IInv, NEW c \in Callers, NEW g \in Grammars, CallGrammar(c, g)
    PROVE  Service!Ask(c)
<1> DEFINE r == IF g \in Unreadable THEN Resting(Reply("usage", 0)) ELSE Call("build", 0, g)
           ask == IF g \in Unreadable THEN Service!Answered(Service!Reply("usage", 0))
                                      ELSE Service!Asking("grammar", 0, g)
<1>1. /\ At(c, "rest") /\ call' = [call EXCEPT ![c] = r]
      /\ UNCHANGED <<nextID, loaded, instances>>
  BY DEF CallGrammar, Begin
<1>2. AsksNow(c, AskedBy(c)') /\ call'[c] = r /\ Known' = Known /\ Issued' = Issued
  BY <1>1, StepAlone
<1>3. AskedBy(c)' = ask
  BY <1>2, AskedAtRest, AskedAtStart DEF OperationAt
<1>4. Asked[c].op = "rest"
  BY <1>1, AskedNow DEF At, OperationAt
<1>5. Asked' = [Asked EXCEPT ![c] = ask]
  BY <1>2, <1>3 DEF AsksNow
<1>6. QED
  BY <1>2, <1>4, <1>5 DEF Service!Ask

LEMMA ParseAsked ==
    ASSUME IInv, NEW c \in Callers, NEW h \in Handles, NEW src \in Inputs, CallParse(c, h, src)
    PROVE  Service!Ask(c)
<1> DEFINE r == IF src \in Unreadable THEN Resting(Reply("usage", 0)) ELSE Call("lookup", h, src)
           ask == IF src \in Unreadable THEN Service!Answered(Service!Reply("usage", 0))
                                        ELSE Service!Asking("parse", h, src)
<1>1. /\ At(c, "rest") /\ call' = [call EXCEPT ![c] = r]
      /\ UNCHANGED <<nextID, loaded, instances>>
  BY DEF CallParse, Begin
<1>2. AsksNow(c, AskedBy(c)') /\ call'[c] = r /\ Known' = Known /\ Issued' = Issued
  BY <1>1, StepAlone
<1>3. AskedBy(c)' = ask
  BY <1>2, AskedAtRest, AskedAtStart DEF OperationAt
<1>4. Asked[c].op = "rest"
  BY <1>1, AskedNow DEF At, OperationAt
<1>5. Asked' = [Asked EXCEPT ![c] = ask]
  BY <1>2, <1>3 DEF AsksNow
<1>6. QED
  BY <1>2, <1>4, <1>5 DEF Service!Ask

LEMMA FreeAsked ==
    ASSUME IInv, NEW c \in Callers, NEW h \in Handles, CallFree(c, h)
    PROVE  Service!Ask(c)
<1>1. /\ At(c, "rest") /\ call' = [call EXCEPT ![c] = Call("free", h, NoText)]
      /\ UNCHANGED <<nextID, loaded, instances>>
  BY DEF CallFree, Begin
<1>2. /\ AsksNow(c, AskedBy(c)') /\ call'[c] = Call("free", h, NoText)
      /\ Known' = Known /\ Issued' = Issued
  BY <1>1, StepAlone
<1>3. AskedBy(c)' = Service!Asking("free", h, NoText)
  BY <1>2, AskedAtStart DEF OperationAt
<1>4. Asked[c].op = "rest"
  BY <1>1, AskedNow DEF At, OperationAt
<1>5. Asked' = [Asked EXCEPT ![c] = Service!Asking("free", h, NoText)]
  BY <1>2, <1>3 DEF AsksNow
<1>6. QED
  BY <1>2, <1>4, <1>5 DEF Service!Ask

(***************************************************************************)
(* A call takes effect, or goes on.                                        *)
(***************************************************************************)
LEMMA DecidesAtReturn ==
    ASSUME NEW c \in Callers, NEW reply \in Service!Replies, ~Decided(c), ~At(c, "rest"),
           call[c].at \in Places, Service!Effect(c, reply), AsksNow(c, Service!Answered(reply))
    PROVE  Service!Decide(c)
<1>1. Asked[c].op # "rest"
  BY AskedNow DEF At, OperationAt, Places
<1>2. ~Asked[c].decided
  BY AskedNow
<1>3. Asked' = [Asked EXCEPT ![c] = Service!Answered(reply)]
  BY DEF AsksNow
<1>4. QED
  BY <1>1, <1>2, <1>3 DEF Service!Decide

LEMMA PlaceOf ==
    ASSUME IInv, NEW c \in Callers
    PROVE  call[c] \in CallRecord /\ call[c].at \in Places
  BY DEF IInv, CallsInv, CallRecord

LEMMA StutterSeen ==
    ASSUME NEW c \in Callers, AsksNow(c, AskedBy(c)'), AskedBy(c)' = AskedBy(c),
           Known' = Known, Issued' = Issued
    PROVE  UNCHANGED Service!serviceVars
<1>1. Asked' = [Asked EXCEPT ![c] = Asked[c]]
  BY AskedNow DEF AsksNow
<1>2. Asked' = Asked
  BY <1>1 DEF Asked
<1>3. QED
  BY <1>2 DEF Service!serviceVars

LEMMA BuildSeen ==
    ASSUME IInv, NEW c \in Callers, Build(c)
    PROVE  Service!Decide(c) \/ UNCHANGED Service!serviceVars
<1>1. /\ At(c, "build") /\ ~Decided(c) /\ call[c] \in CallRecord /\ call[c].at \in Places
      /\ UNCHANGED <<nextID, loaded, instances>>
  BY PlaceOf DEF Build, At, Decided
<1>2. CASE Go(c, "register")
  <2> DEFINE r == [call[c] EXCEPT !.at = "register"]
  <2>1. call' = [call EXCEPT ![c] = r]
    BY <1>2 DEF Go
  <2>2. r.at = "register" /\ r.handle = call[c].handle /\ r.text = call[c].text /\ r.reply = call[c].reply
    BY <1>1 DEF CallRecord
  <2> HIDE DEF r
  <2>3. AsksNow(c, AskedBy(c)') /\ call'[c] = r /\ Known' = Known /\ Issued' = Issued
    BY <1>1, <2>1, StepAlone
  <2>4. ~Decided(c)' /\ OperationAt[call'[c].at] = OperationAt[call[c].at]
    BY <1>1, <2>2, <2>3 DEF Decided, OperationAt, At
  <2>5. AskedBy(c)' = AskedBy(c)
    BY <1>1, <2>2, <2>3, <2>4, Undecided, UndecidedNow
  <2>6. QED
    BY <2>3, <2>5, StutterSeen
<1>3. CASE call[c].text \notin Installable /\ Answer(c, "grammar")
  <2> DEFINE reply == Service!Reply("grammar", 0)
  <2>1. call' = [call EXCEPT ![c] = Resting(Reply("grammar", 0))]
    BY <1>3 DEF Answer
  <2>2. /\ AsksNow(c, AskedBy(c)') /\ call'[c] = Resting(Reply("grammar", 0))
        /\ Known' = Known /\ Issued' = Issued
    BY <1>1, <2>1, StepAlone
  <2>3. AsksNow(c, Service!Answered(reply))
    BY <2>2, AskedAtRest
  <2>4. Service!Effect(c, reply)
    BY <1>1, <1>3, <2>2, AskedNow DEF Service!Effect, OperationAt, At
  <2>5. reply \in Service!Replies
    BY DEF Service!Replies
  <2> HIDE DEF reply
  <2>6. QED
    BY <1>1, <2>3, <2>4, <2>5, DecidesAtReturn DEF At
<1>4. QED
  BY <1>2, <1>3 DEF Build

LEMMA RegisterSeen ==
    ASSUME IInv, NEW c \in Callers, Register(c)
    PROVE  Service!Decide(c)
<1> DEFINE n == nextID + 1
           e == [grammar |-> call[c].text, holder |-> Nobody]
           reply == Service!Reply("handle", n)
<1>1. /\ At(c, "register") /\ ~Decided(c) /\ call[c].at \in Places /\ c \in Underway
      /\ nextID' = n /\ instances' = Append(instances, e)
      /\ loaded' = [h \in DOMAIN loaded \cup {n} |->
                        IF h = n THEN Len(instances) + 1 ELSE loaded[h]]
      /\ call' = [call EXCEPT ![c] = Resting(Reply("handle", n))]
  BY PlaceOf DEF Register, Fresh, At, Decided, Underway
<1>2. n \in Handles /\ nextID \in Nat /\ n \notin Issued
  BY <1>1, HandlesFit DEF IInv, TableInv, Issued
<1>3. call[c].text \in Grammars /\ e \in Instance /\ e.grammar = call[c].text
  BY <1>1 DEF At, IInv, CallsInv, SoundCall, Instance
<1> HIDE DEF e
<1>4. /\ \A j \in 1 .. Len(instances) : instances'[j] = instances[j]
      /\ instances'[Len(instances) + 1] = e
  BY <1>1, <1>3, AppendProperties, LenProperties DEF IInv, TableInv
<1>5. AsksNow(c, AskedBy(c)') /\ call'[c] = Resting(Reply("handle", n))
  BY <1>1, <1>4, StepOfOne DEF GrammarsKept
<1>6. AsksNow(c, Service!Answered(reply))
  BY <1>5, AskedAtRest
<1>7. Issued' = Issued \cup {n}
  BY <1>1, <1>2 DEF Issued
<1>8. Known' = [h \in DOMAIN Known \cup {n} |-> IF h = n THEN call[c].text ELSE Known[h]]
  <2>1. DOMAIN loaded' = DOMAIN loaded \cup {n} /\ DOMAIN Known = DOMAIN loaded
    BY <1>1 DEF Known
  <2>2. instances'[loaded'[n]].grammar = call[c].text
    BY <1>1, <1>3, <1>4
  <2>3. ASSUME NEW h \in DOMAIN loaded, h # n
        PROVE  instances'[loaded'[h]].grammar = Known[h]
    <3>1. loaded'[h] = loaded[h] /\ loaded[h] \in 1 .. Len(instances)
      BY <1>1, <2>3 DEF IInv, TableInv
    <3>2. QED
      BY <1>4, <3>1 DEF Known
  <2>4. Known' = [h \in DOMAIN loaded' |-> instances'[loaded'[h]].grammar]
    BY DEF Known
  <2>5. QED
    BY <2>1, <2>2, <2>3, <2>4
<1>9. Asked[c].op = "grammar" /\ Asked[c].text = call[c].text
  BY <1>1, AskedNow DEF At, OperationAt
<1>10. reply.kind = "handle" /\ reply.handle = n
  BY DEF Service!Reply
<1>11. call[c].text \in Installable
  BY <1>1 DEF At, IInv, CallsInv, SoundCall
<1>12. Service!Effect(c, reply)
  BY <1>2, <1>7, <1>8, <1>9, <1>10, <1>11 DEF Service!Effect
<1>13. reply \in Service!Replies
  BY <1>2 DEF Service!Replies
<1> HIDE DEF reply
<1>14. QED
  BY <1>1, <1>6, <1>12, <1>13, DecidesAtReturn DEF At

LEMMA FreeSeen ==
    ASSUME IInv, NEW c \in Callers, FreeGrammar(c)
    PROVE  Service!Decide(c)
<1> DEFINE reply == Service!Reply("none", 0)
<1>1. /\ At(c, "free") /\ ~Decided(c) /\ call[c].at \in Places
      /\ loaded' = [h \in DOMAIN loaded \ {call[c].handle} |-> loaded[h]]
      /\ call' = [call EXCEPT ![c] = Resting(Reply("none", 0))]
      /\ UNCHANGED <<nextID, instances>>
  BY PlaceOf DEF FreeGrammar, NoReply, At, Decided
<1>2. AsksNow(c, AskedBy(c)') /\ call'[c] = Resting(Reply("none", 0))
  BY <1>1, StepOfOne DEF GrammarsKept
<1>3. AsksNow(c, Service!Answered(reply))
  BY <1>2, AskedAtRest
<1>4. Issued' = Issued
  BY <1>1 DEF Issued
<1>5. Known' = [h \in DOMAIN Known \ {call[c].handle} |-> Known[h]]
  BY <1>1 DEF Known
<1>6. Asked[c].op = "free" /\ Asked[c].handle = call[c].handle
  BY <1>1, AskedNow DEF At, OperationAt
<1>7. Service!Effect(c, reply)
  BY <1>4, <1>5, <1>6 DEF Service!Effect, Service!Nothing
<1>8. reply \in Service!Replies
  BY DEF Service!Replies
<1> HIDE DEF reply
<1>9. QED
  BY <1>1, <1>3, <1>7, <1>8, DecidesAtReturn DEF At

\* The engine's outcome is what the service judges.
LEMMA JudgedIsAnswered ==
    ASSUME NEW g, NEW src
    PROVE  /\ Service!Judged(g, src) = Reply(Answered(Verdict[<<g, src>>]), 0)
           /\ Service!Judged(g, src) \in Service!Replies
<1>1. Service!Judged(g, src) = Reply(Answered(Verdict[<<g, src>>]), 0)
  BY DEF Service!Judged, Service!Reply, Reply, Answered
<1>2. Service!Judged(g, src) \in Service!Replies
  BY DEF Service!Judged, Service!Replies
<1>3. QED
  BY <1>1, <1>2

LEMMA LookupSeen ==
    ASSUME IInv, NEW c \in Callers, Lookup(c)
    PROVE  Service!Decide(c)
<1> DEFINE h == call[c].handle
<1>1. /\ At(c, "lookup") /\ ~Decided(c) /\ call[c] \in CallRecord /\ call[c].at \in Places
      /\ UNCHANGED <<nextID, loaded, instances>>
  BY PlaceOf DEF Lookup, At, Decided
<1>2. /\ Asked[c].op = "parse" /\ Asked[c].handle = h /\ Asked[c].text = call[c].text
      /\ ~Asked[c].decided
  BY <1>1, AskedNow DEF At, OperationAt
<1>3. CASE h \notin DOMAIN loaded /\ Answer(c, "unknown")
  <2> DEFINE reply == Service!Reply("unknown", 0)
  <2>1. call' = [call EXCEPT ![c] = Resting(Reply("unknown", 0))]
    BY <1>3 DEF Answer
  <2>2. /\ AsksNow(c, AskedBy(c)') /\ call'[c] = Resting(Reply("unknown", 0))
        /\ Known' = Known /\ Issued' = Issued
    BY <1>1, <2>1, StepAlone
  <2>3. AsksNow(c, Service!Answered(reply))
    BY <2>2, AskedAtRest
  <2>4. h \notin DOMAIN Known
    BY <1>3 DEF Known
  <2>5. Service!Effect(c, reply)
    BY <1>2, <2>2, <2>4 DEF Service!Effect
  <2>6. reply \in Service!Replies
    BY DEF Service!Replies
  <2> HIDE DEF reply
  <2>7. QED
    BY <1>1, <2>3, <2>5, <2>6, DecidesAtReturn DEF At
<1>4. ASSUME h \in DOMAIN loaded,
             call' = [call EXCEPT ![c].at = "lock", ![c].instance = loaded[h]]
      PROVE  Service!Decide(c)
  <2> DEFINE r == [call[c] EXCEPT !.at = "lock", !.instance = loaded[h]]
             reply == Service!Judged(Known[h], call[c].text)
  <2>1. call' = [call EXCEPT ![c] = r]
    BY <1>4
  <2>2. r.at = "lock" /\ r.handle = h /\ r.text = call[c].text /\ r.instance = loaded[h]
    BY <1>1 DEF CallRecord
  <2> HIDE DEF r
  <2>3. AsksNow(c, AskedBy(c)') /\ call'[c] = r /\ Known' = Known /\ Issued' = Issued
    BY <1>1, <2>1, StepAlone
  <2>4. h \in DOMAIN Known /\ Known[h] = instances[loaded[h]].grammar
    BY <1>4 DEF Known
  <2>5. Outcome(c)' = Verdict[<<Known[h], call[c].text>>]
    BY <1>1, <2>2, <2>3, <2>4 DEF Outcome, Held
  <2>6. Decided(c)'
    BY <2>2, <2>3 DEF Decided
  <2>7. reply = Reply(Answered(Outcome(c)'), 0) /\ reply \in Service!Replies
    BY <2>5, JudgedIsAnswered
  <2>8. Service!Effect(c, reply)
    BY <1>2, <2>3, <2>4 DEF Service!Effect
  <2> HIDE DEF reply
  <2>9. AskedBy(c)' = [op |-> "parse", handle |-> h, text |-> call[c].text,
                       decided |-> TRUE, reply |-> reply]
    BY <2>2, <2>3, <2>6, <2>7, Undone
  <2>10. AskedBy(c)' = Service!Decided(Asked[c], reply)
    BY <1>2, <2>9 DEF Service!Decided
  <2>11. Asked' = [Asked EXCEPT ![c] = Service!Decided(Asked[c], reply)]
    BY <2>3, <2>10 DEF AsksNow
  <2>12. QED
    BY <1>2, <2>7, <2>8, <2>11 DEF Service!Decide
<1>5. QED
  BY <1>3, <1>4 DEF Lookup

\* A parse that goes on has been decided already.
LEMMA GoesOnDecided ==
    ASSUME IInv, NEW c \in Callers, NEW place \in {"parse", "unlock"}, Decided(c), Go(c, place),
           UNCHANGED <<nextID, loaded>>, GrammarsKept
    PROVE  UNCHANGED Service!serviceVars
<1> DEFINE r == [call[c] EXCEPT !.at = place]
<1>1. call' = [call EXCEPT ![c] = r]
  BY DEF Go
<1>2. /\ r.at = place /\ r.handle = call[c].handle /\ r.text = call[c].text
      /\ r.instance = call[c].instance
  BY PlaceOf DEF CallRecord
<1> HIDE DEF r
<1>3. AsksNow(c, AskedBy(c)') /\ call'[c] = r /\ Known' = Known /\ Issued' = Issued
  BY <1>1, StepOfOne, TablesSeen
<1>4. call[c].instance \in 1 .. Len(instances)
  BY DEF Decided, IInv, CallsInv, SoundCall
<1>5. Outcome(c)' = Outcome(c)
  BY <1>2, <1>3, <1>4 DEF Outcome, Held, GrammarsKept
<1>6. Decided(c)'
  BY <1>2, <1>3 DEF Decided
<1>7. AskedBy(c)' = AskedBy(c)
  BY <1>2, <1>3, <1>5, <1>6, Undone, UndoneNow
<1>8. QED
  BY <1>3, <1>7, StutterSeen

LEMMA LockSeen ==
    ASSUME IInv, NEW c \in Callers, Lock(c)
    PROVE  UNCHANGED Service!serviceVars
<1>1. /\ Decided(c) /\ Go(c, "parse") /\ UNCHANGED <<nextID, loaded>>
      /\ call[c].instance \in 1 .. Len(instances)
      /\ instances' = [instances EXCEPT ![call[c].instance].holder = c]
  BY DEF Lock, At, Decided, IInv, CallsInv, SoundCall
<1>2. GrammarsKept
  BY <1>1, HolderMoves DEF GrammarsKept
<1>3. QED
  BY <1>1, <1>2, GoesOnDecided

LEMMA ParseSeen ==
    ASSUME IInv, NEW c \in Callers, Parse(c)
    PROVE  UNCHANGED Service!serviceVars
<1>1. Decided(c) /\ Go(c, "unlock") /\ UNCHANGED <<nextID, loaded>> /\ GrammarsKept
  BY DEF Parse, At, Decided, GrammarsKept
<1>2. QED
  BY <1>1, GoesOnDecided

LEMMA UnlockSeen ==
    ASSUME IInv, NEW c \in Callers, Unlock(c)
    PROVE  Service!Return(c)
<1> DEFINE kind == Answered(Outcome(c))
<1>1. /\ Decided(c) /\ UNCHANGED <<nextID, loaded>>
      /\ call[c].instance \in 1 .. Len(instances)
      /\ instances' = [instances EXCEPT ![call[c].instance].holder = Nobody]
      /\ call' = [call EXCEPT ![c] = Resting(Reply(kind, 0))]
  BY DEF Unlock, At, Decided, Answer, Released, IInv, CallsInv, SoundCall
<1>2. GrammarsKept
  BY <1>1, HolderMoves DEF GrammarsKept
<1>3. /\ AsksNow(c, AskedBy(c)') /\ call'[c] = Resting(Reply(kind, 0))
      /\ Known' = Known /\ Issued' = Issued
  BY <1>1, <1>2, StepOfOne, TablesSeen
<1>4. Asked[c].reply = Reply(kind, 0) /\ Asked[c].decided
  BY <1>1, UndoneNow, AskedNow
<1> HIDE DEF kind
<1>5. AskedBy(c)' = Service!Answered(Reply(kind, 0))
  BY <1>3, AskedAtRest DEF Service!Reply, Reply
<1>6. Asked' = [Asked EXCEPT ![c] = Service!Answered(Asked[c].reply)]
  BY <1>3, <1>4, <1>5 DEF AsksNow
<1>7. QED
  BY <1>3, <1>4, <1>6 DEF Service!Return

(***************************************************************************)
(* The registry implements the service: with any number of threads, each   *)
(* call takes effect at one instant between its start and its return, and  *)
(* replies what a library without threads would have replied then.         *)
(***************************************************************************)
LEMMA ServiceStarts == Init => Service!Init
<1> SUFFICES ASSUME Init PROVE Service!Init
  OBVIOUS
<1>1. Known = [h \in {} |-> NoText]
  BY DEF Init, Known
<1>2. Issued = {}
  BY DEF Init, Issued
<1>3. ASSUME NEW c \in Callers
      PROVE  AskedBy(c) = Service!Answered(Service!Nothing)
  <2>1. call[c] = [at |-> "rest", handle |-> 0, text |-> NoText, instance |-> 0,
                   reply |-> [kind |-> "none", handle |-> 0]]
    BY DEF Init, Resting, Call, NoReply, Reply
  <2>2. ~Decided(c) /\ OperationAt[call[c].at] = "rest"
    BY <2>1 DEF Decided, OperationAt
  <2>3. QED
    BY <2>1, <2>2, UndecidedNow DEF Service!Answered, Service!Nothing, Service!Reply
<1>4. Asked = [c \in Callers |-> Service!Answered(Service!Nothing)]
  BY <1>3 DEF Asked
<1>5. QED
  BY <1>1, <1>2, <1>4 DEF Service!Init

LEMMA ServiceSteps ==
    ASSUME IInv, [Next]_vars
    PROVE  [Service!Next]_Service!serviceVars
<1>1. CASE UNCHANGED vars
  <2>1. Known' = Known /\ Issued' = Issued
    BY <1>1 DEF vars, Known, Issued
  <2>2. ASSUME NEW c \in Callers PROVE AskedBy(c)' = AskedBy(c)
    BY <1>1 DEF vars, AskedBy, Decided, Outcome, Held
  <2>3. Asked' = Asked
    BY <2>2 DEF Asked
  <2>4. QED
    BY <2>1, <2>3 DEF Service!serviceVars
<1>2. ASSUME NEW c \in Callers, Calls(c) PROVE Service!Next
  BY <1>2, GrammarAsked, ParseAsked, FreeAsked DEF Calls, Service!Next
<1>3. ASSUME NEW c \in Callers, Advance(c)
      PROVE  Service!Next \/ UNCHANGED Service!serviceVars
  BY <1>3, BuildSeen, RegisterSeen, LookupSeen, UnlockSeen, FreeSeen DEF Advance, Service!Next
<1>4. QED
  BY <1>1, <1>2, <1>3, LockSeen, ParseSeen DEF Next

THEOREM RegistryImplementsService == Spec => ImplementsService
<1>1. Init => Service!Init
  BY ServiceStarts
<1>2. IInv /\ [Next]_vars => [Service!Next]_Service!serviceVars
  BY ServiceSteps
<1>3. QED
  BY <1>1, <1>2, RegistryInvariance, PTL DEF Spec, ImplementsService, Service!Spec
================================================================================
