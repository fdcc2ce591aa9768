-------------------------- MODULE ErrorChainProofs --------------------------
(***************************************************************************)
(* Proofs about ErrorChain for errors of any number of layers, keys and    *)
(* values.                                                                 *)
(***************************************************************************)
EXTENDS ErrorChain, SequenceTheorems, FiniteSetTheorems, TLAPS

\* Every set of numbers has a least one: 0..x grows with x, and among finite
\* sets one cannot go down for ever.
LEMMA LeastNumber ==
    ASSUME NEW T \in SUBSET Nat, T # {}
    PROVE  \E x \in T : \A y \in T : x <= y
  <1> DEFINE Below0 == {0..x : x \in T}
  <1>1. Below0 \subseteq FiniteSubsetsOf(Nat)
    <2> SUFFICES ASSUME NEW x \in T PROVE 0..x \in FiniteSubsetsOf(Nat)
      OBVIOUS
    <2>1. 0 \in Int /\ x \in Int /\ 0..x \in SUBSET Nat
      OBVIOUS
    <2>2. IsFiniteSet(0..x)
      BY <2>1, FS_Interval
    <2> QED
      BY <2>1, <2>2 DEF FiniteSubsetsOf
  <1>2. Below0 # {}
    OBVIOUS
  <1>3. IsWellFoundedOn(StrictSubsetOrdering(Nat), FiniteSubsetsOf(Nat))
    BY FS_StrictSubsetOrderingWellFounded
  <1>4. PICK a \in Below0 : \A b \in Below0 : ~ (<<b, a>> \in StrictSubsetOrdering(Nat))
    BY <1>1, <1>2, <1>3, WFMin
  <1>5. PICK x \in T : a = 0..x
    BY <1>4
  <1>6. ASSUME NEW y \in T, y < x PROVE FALSE
    <2>1. 0..y \in Below0 /\ 0..y \subseteq 0..x /\ x \in 0..x /\ x \notin 0..y
      BY <1>6
    <2>2. <<0..y, 0..x>> \in StrictSubsetOrdering(Nat)
      BY <2>1 DEF StrictSubsetOrdering
    <2> QED
      BY <1>4, <1>5, <2>1, <2>2
  <1> QED
    BY <1>6

LEMMA MinOf ==
    ASSUME NEW T \in SUBSET Nat, T # {}
    PROVE  Min(T) \in T /\ \A y \in T : Min(T) <= y
  BY LeastNumber DEF Min

LEMMA MinIs ==
    ASSUME NEW T \in SUBSET Nat, NEW x \in T, \A y \in T : x <= y
    PROVE  Min(T) = x
  <1>1. Min(T) \in T /\ Min(T) <= x
    BY MinOf
  <1>2. Min(T) \in Nat /\ x \in Nat /\ x <= Min(T)
    BY <1>1
  <1> QED
    BY <1>1, <1>2

-----------------------------------------------------------------------------
(* Lists.                                                                   *)

LEMMA FunctionIsList ==
    ASSUME NEW S, NEW n \in Nat, NEW f \in [1..n -> S]
    PROVE  f \in Seq(S) /\ Len(f) = n
  <1>1. f \in Seq(S)
    BY SeqDef
  <1>2. Len(f) \in Nat /\ 1..Len(f) = 1..n
    BY <1>1, LenProperties
  <1> QED
    BY <1>1, <1>2

\* A list cut in two.
LEMMA Cut ==
    ASSUME NEW S, NEW s \in Seq(S), NEW b \in 0..Len(s)
    PROVE  /\ SubSeq(s, 1, b) \in Seq(S) /\ SubSeq(s, b + 1, Len(s)) \in Seq(S)
           /\ ToSet(s) = ToSet(SubSeq(s, 1, b)) \cup ToSet(SubSeq(s, b + 1, Len(s)))
  <1>1. Len(s) \in Nat /\ \A i \in 1..Len(s) : s[i] \in S
    OBVIOUS
  <1>2. /\ SubSeq(s, 1, b) \in Seq(S)
        /\ Len(SubSeq(s, 1, b)) = b
        /\ \A i \in 1..b : SubSeq(s, 1, b)[i] = s[i]
    <2>1. /\ SubSeq(s, 1, b) \in Seq(S)
          /\ Len(SubSeq(s, 1, b)) = IF 1 <= b THEN b - 1 + 1 ELSE 0
          /\ \A i \in 1..b - 1 + 1 : SubSeq(s, 1, b)[i] = s[1 + i - 1]
      BY <1>1, SubSeqProperties
    <2>2. \A i \in 1..b : i \in 1..b - 1 + 1 /\ 1 + i - 1 = i
      OBVIOUS
    <2> QED
      BY <2>1, <2>2
  <1>3. /\ SubSeq(s, b + 1, Len(s)) \in Seq(S)
        /\ Len(SubSeq(s, b + 1, Len(s))) = Len(s) - b
        /\ \A i \in 1..Len(s) - b : SubSeq(s, b + 1, Len(s))[i] = s[b + i]
    <2>1. \A i \in b + 1..Len(s) : s[i] \in S
      BY <1>1
    <2>2. /\ SubSeq(s, b + 1, Len(s)) \in Seq(S)
          /\ Len(SubSeq(s, b + 1, Len(s))) =
                 IF b + 1 <= Len(s) THEN Len(s) - (b + 1) + 1 ELSE 0
          /\ \A i \in 1..Len(s) - (b + 1) + 1 :
                 SubSeq(s, b + 1, Len(s))[i] = s[b + 1 + i - 1]
      BY <1>1, <2>1, SubSeqProperties
    <2>3. \A i \in 1..Len(s) - b : i \in 1..Len(s) - (b + 1) + 1 /\ b + 1 + i - 1 = b + i
      BY <1>1
    <2> QED
      BY <1>1, <2>2, <2>3
  <1>4. /\ DOMAIN s = 1..Len(s)
        /\ DOMAIN SubSeq(s, 1, b) = 1..b
        /\ DOMAIN SubSeq(s, b + 1, Len(s)) = 1..Len(s) - b
    BY <1>2, <1>3, LenProperties
  <1>5. \A i \in 1..Len(s) : \/ i \in 1..b
                             \/ i - b \in 1..Len(s) - b /\ s[i] = s[b + (i - b)]
    BY <1>1
  <1>6. \A i \in 1..Len(s) - b : b + i \in 1..Len(s)
    BY <1>1
  <1>7. ToSet(s) = {s[i] : i \in 1..Len(s)}
    BY <1>4 DEF ToSet
  <1>8. ToSet(SubSeq(s, 1, b)) = {s[i] : i \in 1..b}
    BY <1>2, <1>4 DEF ToSet
  <1>9. ToSet(SubSeq(s, b + 1, Len(s))) = {s[b + i] : i \in 1..Len(s) - b}
    BY <1>3, <1>4 DEF ToSet
  <1>10. \A i \in 1..Len(s) :
             s[i] \in ToSet(SubSeq(s, 1, b)) \cup ToSet(SubSeq(s, b + 1, Len(s)))
    <2> TAKE i \in 1..Len(s)
    <2>1. CASE i \in 1..b
      BY <2>1, <1>8
    <2>2. CASE i - b \in 1..Len(s) - b /\ s[i] = s[b + (i - b)]
      BY <2>2, <1>9
    <2> QED
      BY <2>1, <2>2, <1>5
  <1>11. /\ \A i \in 1..b : s[i] \in ToSet(s)
         /\ \A i \in 1..Len(s) - b : s[b + i] \in ToSet(s)
    BY <1>1, <1>6, <1>7
  <1> QED
    BY <1>2, <1>3, <1>7, <1>8, <1>9, <1>10, <1>11

-----------------------------------------------------------------------------
(* Reading a list s of the layers ls: where its values and causes are, and  *)
(* what the outermost of them says.                                         *)

ValuesAt(ls, s, k) == {i \in 1..Len(s) : ls[s[i]].kind = "value" /\ ls[s[i]].key = k}
CausesAt(ls, s) == {i \in 1..Len(s) : ls[s[i]].kind = "cause"}

ValueIn(ls, s, k) ==
    IF ValuesAt(ls, s, k) = {} THEN None ELSE ls[s[Min(ValuesAt(ls, s, k))]].value

CauseIn(ls, s) ==
    IF CausesAt(ls, s) = {} THEN 0 ELSE ls[s[Min(CausesAt(ls, s))]].cause

LEMMA FirstValue ==
    ASSUME NEW ls, NEW s, NEW k, ValuesAt(ls, s, k) # {}
    PROVE  /\ Min(ValuesAt(ls, s, k)) \in ValuesAt(ls, s, k)
           /\ Min(ValuesAt(ls, s, k)) # 0
           /\ \A i \in ValuesAt(ls, s, k) : Min(ValuesAt(ls, s, k)) <= i
  <1>1. ValuesAt(ls, s, k) \in SUBSET Nat /\ 0 \notin ValuesAt(ls, s, k)
    BY DEF ValuesAt
  <1> QED
    BY <1>1, MinOf

LEMMA FirstCause ==
    ASSUME NEW ls, NEW s, CausesAt(ls, s) # {}
    PROVE  /\ Min(CausesAt(ls, s)) \in CausesAt(ls, s)
           /\ Min(CausesAt(ls, s)) # 0
           /\ \A i \in CausesAt(ls, s) : Min(CausesAt(ls, s)) <= i
  <1>1. CausesAt(ls, s) \in SUBSET Nat /\ 0 \notin CausesAt(ls, s)
    BY DEF CausesAt
  <1> QED
    BY <1>1, MinOf

LEMMA LookupReads ==
    ASSUME NEW e, NEW k
    PROVE  Lookup(e, k) = ValueIn(layers, chain[e], k)
  <1>1. ValuesAt(layers, chain[e], k) # {} =>
            Min(ValuesAt(layers, chain[e], k)) # 0
    BY FirstValue
  <1> QED
    BY <1>1 DEF Lookup, ValueIn, ValuesAt, SelectInSeq, KindOf

LEMMA LookupReadsNext ==
    ASSUME NEW e, NEW k
    PROVE  Lookup(e, k)' = ValueIn(layers', chain'[e], k)
  <1>1. ValuesAt(layers', chain'[e], k) # {} =>
            Min(ValuesAt(layers', chain'[e], k)) # 0
    BY FirstValue
  <1> QED
    BY <1>1 DEF Lookup, ValueIn, ValuesAt, SelectInSeq, KindOf

LEMMA CauseReads ==
    ASSUME NEW e
    PROVE  Cause(e) = CauseIn(layers, chain[e])
  <1>1. CausesAt(layers, chain[e]) # {} => Min(CausesAt(layers, chain[e])) # 0
    BY FirstCause
  <1> QED
    BY <1>1 DEF Cause, CauseIn, CausesAt, SelectInSeq, KindOf

LEMMA CauseReadsNext ==
    ASSUME NEW e
    PROVE  Cause(e)' = CauseIn(layers', chain'[e])
  <1>1. CausesAt(layers', chain'[e]) # {} => Min(CausesAt(layers', chain'[e])) # 0
    BY FirstCause
  <1> QED
    BY <1>1 DEF Cause, CauseIn, CausesAt, SelectInSeq, KindOf

\* A list says what its first layer says, or else what the rest of it does.
LEMMA ValueOfHead ==
    ASSUME NEW S, NEW s \in Seq(S), s # <<>>, NEW ls, NEW k
    PROVE  ValueIn(ls, s, k) =
               IF ls[Head(s)].kind = "value" /\ ls[Head(s)].key = k
               THEN ls[Head(s)].value ELSE ValueIn(ls, Tail(s), k)
  <1> DEFINE V == ValuesAt(ls, s, k)
             W == ValuesAt(ls, Tail(s), k)
  <1>1. /\ Len(s) \in Nat \ {0} /\ Head(s) = s[1]
        /\ Len(Tail(s)) = Len(s) - 1
        /\ \A i \in 1..Len(s) - 1 : Tail(s)[i] = s[i + 1]
    BY HeadTailProperties
  <1>2. V \in SUBSET Nat /\ W \in SUBSET Nat
    BY DEF ValuesAt
  <1>3. CASE ls[Head(s)].kind = "value" /\ ls[Head(s)].key = k
    <2>1. 1 \in V /\ \A i \in V : 1 <= i
      BY <1>1, <1>3 DEF ValuesAt
    <2>2. Min(V) = 1
      BY <1>2, <2>1, MinIs
    <2> QED
      BY <1>1, <1>3, <2>1, <2>2 DEF ValueIn
  <1>4. CASE ~(ls[Head(s)].kind = "value" /\ ls[Head(s)].key = k)
    <2>1. \A i \in V : i - 1 \in W
      BY <1>1, <1>4 DEF ValuesAt
    <2>2. \A i \in W : i + 1 \in V /\ Tail(s)[i] = s[i + 1]
      BY <1>1 DEF ValuesAt
    <2>3. CASE W = {}
      BY <1>4, <2>1, <2>3 DEF ValueIn
    <2>4. CASE W # {}
      <3>1. Min(W) \in W /\ \A i \in W : Min(W) <= i
        BY <2>4, FirstValue
      <3>2. Min(W) + 1 \in V /\ \A i \in V : Min(W) + 1 <= i
        BY <1>2, <2>1, <2>2, <3>1
      <3>3. Min(V) = Min(W) + 1
        BY <1>2, <3>2, MinIs
      <3> QED
        BY <1>4, <2>2, <2>4, <3>1, <3>2, <3>3 DEF ValueIn
    <2> QED
      BY <2>3, <2>4
  <1> QED
    BY <1>3, <1>4

LEMMA CauseOfHead ==
    ASSUME NEW S, NEW s \in Seq(S), s # <<>>, NEW ls
    PROVE  CauseIn(ls, s) = IF ls[Head(s)].kind = "cause"
                            THEN ls[Head(s)].cause ELSE CauseIn(ls, Tail(s))
  <1> DEFINE V == CausesAt(ls, s)
             W == CausesAt(ls, Tail(s))
  <1>1. /\ Len(s) \in Nat \ {0} /\ Head(s) = s[1]
        /\ Len(Tail(s)) = Len(s) - 1
        /\ \A i \in 1..Len(s) - 1 : Tail(s)[i] = s[i + 1]
    BY HeadTailProperties
  <1>2. V \in SUBSET Nat /\ W \in SUBSET Nat
    BY DEF CausesAt
  <1>3. CASE ls[Head(s)].kind = "cause"
    <2>1. 1 \in V /\ \A i \in V : 1 <= i
      BY <1>1, <1>3 DEF CausesAt
    <2>2. Min(V) = 1
      BY <1>2, <2>1, MinIs
    <2> QED
      BY <1>1, <1>3, <2>1, <2>2 DEF CauseIn
  <1>4. CASE ls[Head(s)].kind # "cause"
    <2>1. \A i \in V : i - 1 \in W
      BY <1>1, <1>4 DEF CausesAt
    <2>2. \A i \in W : i + 1 \in V /\ Tail(s)[i] = s[i + 1]
      BY <1>1 DEF CausesAt
    <2>3. CASE W = {}
      BY <1>4, <2>1, <2>3 DEF CauseIn
    <2>4. CASE W # {}
      <3>1. Min(W) \in W /\ \A i \in W : Min(W) <= i
        BY <2>4, FirstCause
      <3>2. Min(W) + 1 \in V /\ \A i \in V : Min(W) + 1 <= i
        BY <1>2, <2>1, <2>2, <3>1
      <3>3. Min(V) = Min(W) + 1
        BY <1>2, <3>2, MinIs
      <3> QED
        BY <1>4, <2>2, <2>4, <3>1, <3>2, <3>3 DEF CauseIn
    <2> QED
      BY <2>3, <2>4
  <1> QED
    BY <1>3, <1>4

-----------------------------------------------------------------------------
(* Type correctness, and that an error is made of older ones.               *)

\* An error's list begins with its own layer, and everything it consists of,
\* causes included, was there before it.
Formed ==
    /\ \A e \in Errors : chain[e][1] = e /\ \A i \in 1..Len(chain[e]) : chain[e][i] <= e
    /\ \A n \in Errors : layers[n].kind = "cause" => layers[n].cause < n

TypeInv == TypeOK /\ Formed

LEMMA NoWalkType == NoWalk \in [of : {0} \cup Errors, at : Seq(View), seen : SUBSET Errors,
                                values : [Keys -> Values \cup {None}]]
                    /\ Len(NoWalk.at) <= 1
  BY EmptySeq DEF NoWalk

LEMMA TypeInit == Init => TypeInv
  <1> SUFFICES ASSUME Init PROVE TypeInv
    OBVIOUS
  <1>1. layers \in Seq(Layer) /\ Len(layers) = 0 /\ Errors = {}
    BY EmptySeq DEF Init, Errors
  <1>2. chain \in [Errors -> Seq(Errors) \ {<<>>}]
    BY <1>1 DEF Init
  <1> QED
    BY <1>1, <1>2, NoWalkType, MaxLayersAssumption DEF Init, TypeInv, TypeOK, Formed

\* A new layer and the new error it makes.
LEMMA AddShape ==
    ASSUME TypeInv, NEW layer, NEW around, Add(layer, around), NEW n, n = Len(layers) + 1
    PROVE  /\ n \in Nat \ {0} /\ n \notin Errors
           /\ Len(layers') = n /\ Errors' = Errors \cup {n}
           /\ layers'[n] = layer /\ chain'[n] = <<n>> \o around
           /\ \A i \in Errors : layers'[i] = layers[i] /\ chain'[i] = chain[i]
  <1>1. layers \in Seq(Layer) /\ Len(layers) \in Nat
    BY DEF TypeInv, TypeOK
  <1>2. chain \in Seq(Seq(Errors) \ {<<>>}) /\ Len(chain) = Len(layers)
    <2>1. chain \in [1..Len(layers) -> Seq(Errors) \ {<<>>}]
      BY DEF TypeInv, TypeOK, Errors
    <2> QED
      BY <1>1, <2>1, FunctionIsList
  <1>3. layers' = Append(layers, layer) /\ chain' = Append(chain, <<n>> \o around)
    BY DEF Add
  <1>4. /\ Len(layers') = n /\ layers'[n] = layer
        /\ \A i \in Errors : layers'[i] = layers[i]
    BY <1>1, <1>3 DEF Errors
  <1>5. chain'[n] = <<n>> \o around /\ \A i \in Errors : chain'[i] = chain[i]
    BY <1>1, <1>2, <1>3 DEF Errors
  <1> QED
    BY <1>1, <1>4, <1>5 DEF Errors

\* A new layer around an error, or around nothing.
LEMMA AddType ==
    ASSUME TypeInv, NEW layer \in Layer, NEW around \in Seq(Errors), Add(layer, around)
    PROVE  TypeInv'
  <1> DEFINE n == Len(layers) + 1
  <1>1. /\ layers \in Seq(Layer) /\ Len(layers) \in Nat
        /\ chain \in [Errors -> Seq(Errors) \ {<<>>}]
    BY DEF TypeInv, TypeOK
  <1>2. /\ Len(layers') = n
        /\ \A i \in Errors : layers'[i] = layers[i]
        /\ layers'[n] = layer
        /\ Errors' = 1..n /\ n \notin Errors /\ Errors \subseteq Errors' /\ n \in Errors'
    BY <1>1, AppendProperties DEF Add, Errors
  <1>3. Layer \subseteq Layer'
    BY <1>2 DEF Layer
  <1>4. layers' \in Seq(Layer')
    <2>1. layers \in Seq(Layer') /\ layer \in Layer'
      BY <1>1, <1>3, SeqMonotonic
    <2> QED
      BY <2>1, AppendProperties DEF Add
  <1>5. /\ <<n>> \o around \in Seq(Errors') \ {<<>>}
        /\ (<<n>> \o around)[1] = n
        /\ \A i \in 1..Len(<<n>> \o around) : (<<n>> \o around)[i] <= n
    <2>1. <<n>> \in Seq(Errors') /\ Len(<<n>>) = 1 /\ <<n>>[1] = n
      BY <1>2
    <2>2. around \in Seq(Errors')
      BY <1>2, SeqMonotonic
    <2>3. /\ <<n>> \o around \in Seq(Errors')
          /\ Len(<<n>> \o around) = 1 + Len(around)
          /\ \A i \in 1..1 + Len(around) :
                 (<<n>> \o around)[i] = IF i <= 1 THEN <<n>>[i] ELSE around[i - 1]
      BY <2>1, <2>2, ConcatProperties
    <2>4. Len(around) \in Nat
      OBVIOUS
    <2>5. (<<n>> \o around)[1] = n
      BY <2>1, <2>3, <2>4
    <2>6. \A i \in 1..Len(<<n>> \o around) : (<<n>> \o around)[i] \in Errors'
      BY <2>3, <2>4, ElementOfSeq
    <2>7. <<n>> \o around # <<>>
      BY <2>3, <2>4
    <2> QED
      BY <1>2, <2>3, <2>5, <2>6, <2>7
  <1>6. /\ chain' \in [Errors' -> Seq(Errors') \ {<<>>}]
        /\ \A e \in Errors : chain'[e] = chain[e]
        /\ chain'[n] = <<n>> \o around
    <2>1. chain \in Seq(Seq(Errors') \ {<<>>}) /\ Len(chain) = Len(layers)
      <3>1. \A e \in Errors : chain[e] \in Seq(Errors') \ {<<>>}
        BY <1>1, <1>2, SeqMonotonic
      <3>2. chain \in [1..Len(layers) -> Seq(Errors') \ {<<>>}]
        BY <1>1, <3>1 DEF Errors
      <3> QED
        BY <1>1, <3>2, FunctionIsList
    <2>2. /\ Append(chain, <<n>> \o around) \in Seq(Seq(Errors') \ {<<>>})
          /\ Len(Append(chain, <<n>> \o around)) = Len(chain) + 1
          /\ \A i \in 1..Len(chain) : Append(chain, <<n>> \o around)[i] = chain[i]
          /\ Append(chain, <<n>> \o around)[Len(chain) + 1] = <<n>> \o around
      BY <1>5, <2>1, AppendProperties
    <2>3. chain' \in [1..n -> Seq(Errors') \ {<<>>}]
      BY <2>1, <2>2, LenProperties DEF Add
    <2> QED
      BY <1>2, <2>1, <2>2, <2>3 DEF Add, Errors
  <1>7. Formed'
    <2>1. \A e \in Errors' : chain'[e][1] = e /\ \A i \in 1..Len(chain'[e]) : chain'[e][i] <= e
      BY <1>1, <1>2, <1>5, <1>6 DEF TypeInv, Formed, Errors
    <2>2. layer.kind = "cause" => layer.cause \in Errors
      BY DEF Layer
    <2>3. \A i \in Errors' : layers'[i].kind = "cause" => layers'[i].cause < i
      BY <1>1, <1>2, <2>2 DEF TypeInv, Formed, Errors
    <2> QED
      BY <2>1, <2>3 DEF Formed
  <1>8. TypeOK'
    <2>1. walk' = NoWalk /\ Len(layers') <= MaxLayers
      BY <1>1, <1>2, MaxLayersAssumption DEF Add
    <2>2. NoWalk \in [of : {0} \cup Errors', at : Seq(View'), seen : SUBSET Errors',
                      values : [Keys -> Values \cup {None}]]
          /\ Len(NoWalk.at) <= 1
      BY EmptySeq DEF NoWalk
    <2> QED
      BY <1>4, <1>6, <2>1, <2>2 DEF TypeOK
  <1> QED
    BY <1>7, <1>8 DEF TypeInv

\* What an errWithCause has inside and which cause it carries, of a view.
LEMMA ViewParts ==
    ASSUME TypeInv, NEW v \in View
    PROVE  /\ v.rest \in Seq(Errors) /\ v.rest # <<>>
           /\ Head(v.rest) \in Errors /\ layers[Head(v.rest)] \in Layer
           /\ Tail(v.rest) \in Seq(Errors)
           /\ v.cause \in {0} \cup Errors
           /\ HasCause(v) => CauseOf(v) \in Errors
           /\ Inside(v) \in Seq(Errors)
           /\ Below(v) \in 0..Len(Inside(v))
  <1>1. /\ v.rest \in Seq(Errors) /\ v.rest # <<>> /\ v.cause \in {0} \cup Errors
    BY DEF View
  <1>2. Head(v.rest) \in Errors /\ Tail(v.rest) \in Seq(Errors)
    BY <1>1, HeadTailProperties
  <1>3. layers[Head(v.rest)] \in Layer
    BY <1>2, ElementOfSeq DEF TypeInv, TypeOK, Errors
  <1>4. HasCause(v) => CauseOf(v) \in Errors
    BY <1>1, <1>3 DEF HasCause, CauseOf, KindOf, Layer
  <1>5. Inside(v) \in Seq(Errors)
    BY <1>1, <1>2 DEF Inside
  <1>6. Below(v) \in 0..Len(Inside(v))
    <2> DEFINE I == {i \in 1..Len(Inside(v)) : KindOf(Inside(v)[i]) # "cause"}
    <2>1. I \in SUBSET Nat /\ Len(Inside(v)) \in Nat
      BY <1>5
    <2>2. I # {} => Min(I) \in I
      BY <2>1, MinOf
    <2>3. Below(v) = IF I # {} THEN Min(I) ELSE 0
      BY DEF Below, SelectInSeq
    <2> QED
      BY <2>1, <2>2, <2>3
  <1> QED
    BY <1>1, <1>2, <1>3, <1>4, <1>5, <1>6

LEMMA RawType ==
    ASSUME TypeInv, NEW list \in Seq(Errors)
    PROVE  Raw(list) \in Seq(View) /\ Len(Raw(list)) <= 1
  <1>1. CASE list = <<>>
    BY <1>1, EmptySeq DEF Raw
  <1>2. CASE list # <<>>
    <2>1. [rest |-> list, cause |-> 0] \in View
      BY <1>2 DEF View
    <2> QED
      BY <1>2, <2>1 DEF Raw
  <1> QED
    BY <1>1, <1>2

LEMMA UnwrapType ==
    ASSUME TypeInv, NEW v \in View
    PROVE  Unwrap(v) \in Seq(View) /\ Len(Unwrap(v)) <= 1
  <1> DEFINE after == SubSeq(Inside(v), Below(v) + 1, Len(Inside(v)))
  <1>1. after \in Seq(Errors) /\ Tail(v.rest) \in Seq(Errors)
    BY ViewParts, Cut
  <1>2. CASE ~HasCause(v)
    BY <1>1, <1>2, RawType DEF Unwrap
  <1>3. CASE HasCause(v) /\ after = <<>>
    <2>1. chain[CauseOf(v)] \in Seq(Errors)
      BY <1>3, ViewParts DEF TypeInv, TypeOK
    <2> QED
      BY <1>3, <2>1, RawType DEF Unwrap
  <1>4. CASE HasCause(v) /\ after # <<>>
    <2>1. [rest |-> after, cause |-> CauseOf(v)] \in View
      BY <1>1, <1>4, ViewParts DEF View
    <2>2. Unwrap(v) = <<[rest |-> after, cause |-> CauseOf(v)]>>
      BY <1>4 DEF Unwrap
    <2> QED
      BY <2>1, <2>2
  <1> QED
    BY <1>2, <1>3, <1>4

\* A walk that goes on is at a view.
LEMMA AtView ==
    ASSUME TypeInv, Walking
    PROVE  walk.at[1] \in View
  BY EmptySeq, ElementOfSeq DEF TypeInv, TypeOK, Walking

LEMMA ComparedType ==
    ASSUME TypeInv, NEW v \in View
    PROVE  Compared(v) \subseteq Errors
  <1>1. SubSeq(Inside(v), 1, Below(v)) \in Seq(Errors)
    BY ViewParts, Cut
  <1>2. ToSet(SubSeq(Inside(v), 1, Below(v))) \subseteq Errors
    BY <1>1, LenProperties DEF ToSet
  <1> QED
    BY <1>2, ViewParts DEF Compared

LEMMA NotedType ==
    ASSUME TypeInv, NEW v \in View, NEW values \in [Keys -> Values \cup {None}]
    PROVE  Noted(v, values) \in [Keys -> Values \cup {None}]
  <1>1. layers[Head(v.rest)] \in Layer
    BY ViewParts
  <1>2. layers[Head(v.rest)].kind = "value" =>
            layers[Head(v.rest)].key \in Keys /\ layers[Head(v.rest)].value \in Values
    BY <1>1 DEF Layer
  <1> QED
    BY <1>2 DEF Noted

LEMMA WalkType ==
    ASSUME TypeInv, Begin \/ Step
    PROVE  TypeInv'
  <1>1. layers' = layers /\ chain' = chain
    BY DEF Begin, Step
  <1>2. CASE Begin
    <2>1. Len(layers) \in Nat \ {0}
      BY <1>2, EmptySeq DEF Begin, TypeInv, TypeOK
    <2>2. Len(layers) \in Errors
      BY <2>1 DEF Errors
    <2>3. chain[Len(layers)] \in Seq(Errors)
      BY <2>2 DEF TypeInv, TypeOK
    <2>4. Raw(chain[Len(layers)]) \in Seq(View) /\ Len(Raw(chain[Len(layers)])) <= 1
      BY <2>3, RawType
    <2> QED
      BY <1>1, <1>2, <2>2, <2>4 DEF Begin, NoWalk, TypeInv, TypeOK, Formed, Errors, Layer, View
  <1>3. CASE Step
    <2>1. walk.at[1] \in View
      BY <1>3, AtView DEF Step
    <2>2. /\ Unwrap(walk.at[1]) \in Seq(View) /\ Len(Unwrap(walk.at[1])) <= 1
          /\ Compared(walk.at[1]) \subseteq Errors
      BY <2>1, UnwrapType, ComparedType
    <2>3. Noted(walk.at[1], walk.values) \in [Keys -> Values \cup {None}]
      BY <2>1, NotedType DEF TypeInv, TypeOK
    <2> QED
      BY <1>1, <1>3, <2>2, <2>3 DEF Step, TypeInv, TypeOK, Formed, Errors, Layer, View
  <1> QED
    BY <1>2, <1>3

LEMMA TypeAlways == Spec => []TypeInv
  <1>1. TypeInv /\ [Next]_vars => TypeInv'
    <2> SUFFICES ASSUME TypeInv, [Next]_vars PROVE TypeInv'
      OBVIOUS
    <2>1. CASE UNCHANGED vars
      BY <2>1 DEF vars, TypeInv, TypeOK, Formed, Errors, Layer, View
    <2>2. CASE New
      BY <2>2, AddType, EmptySeq DEF New, Layer
    <2>3. ASSUME NEW e \in Errors PROVE chain[e] \in Seq(Errors)
      BY DEF TypeInv, TypeOK
    <2>4. ASSUME NEW e \in Errors, WrapForeign(e)
          PROVE  TypeInv'
      BY <2>3, <2>4, AddType DEF WrapForeign, Layer
    <2>5. ASSUME NEW e \in Errors, NEW k \in Keys, NEW v \in Values, Set(e, k, v)
          PROVE  TypeInv'
      BY <2>3, <2>5, AddType DEF Set, Layer
    <2>6. ASSUME NEW e \in Errors, NEW c \in Errors, WithCause(e, c)
          PROVE  TypeInv'
      BY <2>3, <2>6, AddType DEF WithCause, Layer
    <2>7. CASE Begin \/ Step
      BY <2>7, WalkType
    <2> QED
      BY <2>1, <2>2, <2>4, <2>5, <2>6, <2>7 DEF Next
  <1> QED
    BY TypeInit, <1>1, PTL DEF Spec

\* Errors only refer to errors that exist, and a walk is always at a list that
\* is not empty, whatever Unwrap has made of it.
THEOREM ErrorsTypeCorrect == Spec => []TypeOK
  <1>1. TypeInv => TypeOK
    BY DEF TypeInv
  <1> QED
    BY <1>1, TypeAlways, PTL

-----------------------------------------------------------------------------
(* What a new layer says.                                                   *)

\* A list of old layers says the same after a new one was made.
LEMMA OldListSays ==
    ASSUME NEW N \in Nat, NEW s \in Seq(1..N), NEW ls, NEW ms, NEW k,
           \A n \in 1..N : ms[n] = ls[n]
    PROVE  ValueIn(ms, s, k) = ValueIn(ls, s, k)
  <1>1. \A i \in 1..Len(s) : ms[s[i]] = ls[s[i]]
    BY ElementOfSeq
  <1>2. ValuesAt(ms, s, k) = ValuesAt(ls, s, k)
    BY <1>1 DEF ValuesAt
  <1>3. ValuesAt(ls, s, k) # {} => Min(ValuesAt(ls, s, k)) \in 1..Len(s)
    <2>1. ValuesAt(ls, s, k) \subseteq 1..Len(s)
      BY DEF ValuesAt
    <2> QED
      BY <2>1, FirstValue
  <1> QED
    BY <1>1, <1>2, <1>3 DEF ValueIn

LEMMA AddSays ==
    ASSUME TypeInv, NEW a \in Errors, NEW layer, Add(layer, chain[a]), NEW k,
           NEW e, e = Len(layers) + 1
    PROVE  /\ chain'[e][2] = a /\ layers'[e] = layer
           /\ Lookup(e, k)' = IF layer.kind = "value" /\ layer.key = k
                              THEN layer.value ELSE Lookup(a, k)
  <1>1. /\ layers \in Seq(Layer) /\ Len(layers) \in Nat
        /\ chain \in [Errors -> Seq(Errors) \ {<<>>}]
        /\ chain[a] \in Seq(Errors) /\ chain[a] # <<>> /\ chain[a][1] = a
    BY DEF TypeInv, TypeOK, Formed
  <1>2. layers'[e] = layer /\ \A i \in Errors : layers'[i] = layers[i]
    BY AddShape
  <1>3. chain'[e] = <<e>> \o chain[a]
    BY AddShape
  <1>4. /\ chain'[e] \in Seq(Nat) /\ chain'[e] # <<>>
        /\ Head(chain'[e]) = e /\ Tail(chain'[e]) = chain[a] /\ chain'[e][2] = a
    <2>1. chain[a] \in Seq(Nat) /\ e \in Nat
      BY <1>1, SeqMonotonic DEF Errors
    <2>2. Len(chain[a]) \in Nat \ {0}
      BY <1>1, EmptySeq
    <2>3. /\ chain'[e] \in Seq(Nat)
          /\ Len(chain'[e]) = 1 + Len(chain[a])
          /\ \A i \in 1..1 + Len(chain[a]) :
                 chain'[e][i] = IF i <= 1 THEN <<e>>[i] ELSE chain[a][i - 1]
      <3>1. <<e>> \in Seq(Nat) /\ Len(<<e>>) = 1
        BY <2>1
      <3> QED
        BY <1>3, <2>1, <3>1, ConcatProperties
    <2>4. chain'[e] # <<>> /\ chain'[e][1] = e /\ chain'[e][2] = chain[a][1]
      <3>1. 1 \in 1..1 + Len(chain[a]) /\ 2 \in 1..1 + Len(chain[a]) /\ 2 - 1 = 1
        BY <2>2
      <3>2. chain'[e][2] = chain[a][2 - 1]
        BY <2>3, <3>1
      <3>3. chain'[e][1] = <<e>>[1]
        BY <2>3, <3>1
      <3>4. chain'[e] # <<>>
        BY <2>2, <2>3, EmptySeq
      <3> QED
        BY <3>1, <3>2, <3>3, <3>4
    <2>5. Head(chain'[e]) = e
      BY <2>3, <2>4
    <2>6. Tail(chain'[e]) = chain[a]
      <3>1. /\ Tail(chain'[e]) \in Seq(Nat)
            /\ Len(Tail(chain'[e])) = Len(chain[a])
            /\ \A i \in 1..Len(chain[a]) : Tail(chain'[e])[i] = chain'[e][i + 1]
        BY <2>2, <2>3, <2>4, HeadTailProperties
      <3>2. \A i \in 1..Len(chain[a]) : chain'[e][i + 1] = chain[a][i]
        <4> TAKE i \in 1..Len(chain[a])
        <4>1. i + 1 \in 1..1 + Len(chain[a]) /\ ~(i + 1 <= 1) /\ i + 1 - 1 = i
          BY <2>2
        <4>2. chain'[e][i + 1] = chain[a][i + 1 - 1]
          BY <2>3, <4>1
        <4> QED
          BY <4>1, <4>2
      <3> QED
        BY <2>1, <3>1, <3>2, SeqEqual
    <2> QED
      BY <1>1, <2>3, <2>4, <2>5, <2>6
  <1>5. Lookup(e, k)' = ValueIn(layers', chain'[e], k)
    BY LookupReadsNext
  <1>6. ValueIn(layers', chain'[e], k) =
            IF layer.kind = "value" /\ layer.key = k
            THEN layer.value ELSE ValueIn(layers', chain[a], k)
    BY <1>2, <1>4, ValueOfHead
  <1>7. ValueIn(layers', chain[a], k) = ValueIn(layers, chain[a], k)
    BY <1>1, <1>2, OldListSays DEF Errors
  <1> QED
    BY <1>2, <1>4, <1>5, <1>6, <1>7, LookupReads

\* Wrapping an error in a value gives it that value; wrapping it in anything
\* else, a cause with values of its own included, changes none that it had.
THEOREM WrappersKeep == Spec => WrappersKeepValues
  <1> DEFINE Kept == \A e \in 1..MaxLayers, k \in Keys :
                e = Len(layers) + 1 /\ layers' # layers /\ Len(chain'[e]) > 1 =>
                    Lookup(e, k)' = IF layers'[e].kind = "value" /\ layers'[e].key = k
                                    THEN layers'[e].value ELSE Lookup(chain'[e][2], k)
  <1>1. ASSUME TypeInv, [Next]_vars
        PROVE  Kept
    <2> SUFFICES ASSUME NEW e \in 1..MaxLayers, NEW k \in Keys, e = Len(layers) + 1,
                        layers' # layers, Len(chain'[e]) > 1
                 PROVE  Lookup(e, k)' =
                            IF layers'[e].kind = "value" /\ layers'[e].key = k
                            THEN layers'[e].value ELSE Lookup(chain'[e][2], k)
      OBVIOUS
    <2>1. ASSUME NEW a \in Errors, NEW layer, Add(layer, chain[a])
          PROVE  Lookup(e, k)' =
                     IF layers'[e].kind = "value" /\ layers'[e].key = k
                     THEN layers'[e].value ELSE Lookup(chain'[e][2], k)
      <3>1. /\ chain'[e][2] = a /\ layers'[e] = layer
            /\ Lookup(e, k)' = IF layer.kind = "value" /\ layer.key = k
                               THEN layer.value ELSE Lookup(a, k)
        BY <1>1, <2>1, AddSays
      <3>2. Lookup(chain'[e][2], k) = Lookup(a, k)
        BY <3>1
      <3> QED
        BY <3>1, <3>2
    <2>2. ASSUME New PROVE FALSE
      <3>1. chain \in [1..Len(layers) -> Seq(Errors) \ {<<>>}] /\ Len(layers) \in Nat
        BY <1>1 DEF TypeInv, TypeOK, Errors
      <3>2. chain \in Seq(Seq(Errors) \ {<<>>}) /\ Len(chain) = Len(layers)
        BY <3>1, FunctionIsList
      <3>3. chain'[e] = <<e>> \o <<>>
        BY <2>2, <3>2 DEF New, Add
      <3>4. Len(<<e>> \o <<>>) = 1
        OBVIOUS
      <3> QED
        BY <3>3, <3>4
    <2>3. layers' = layers \/ New \/ \E a \in Errors : \E layer : Add(layer, chain[a])
      BY <1>1 DEF Next, vars, WrapForeign, Set, WithCause, Begin, Step
    <2> QED
      BY <2>1, <2>2, <2>3
  <1>2. TypeInv /\ [Next]_vars => [Kept]_vars
    BY <1>1
  <1>3. Spec => [][Kept]_vars
    BY <1>2, TypeAlways, PTL DEF Spec
  <1> QED
    BY <1>3 DEF WrappersKeepValues

-----------------------------------------------------------------------------
(* Reach is the function its recursion describes.                           *)

\* An error's cause is older than it is.
LEMMA CauseIsOlder ==
    ASSUME TypeInv, NEW e \in Errors
    PROVE  Cause(e) \in 0..e - 1
  <1>1. /\ chain[e] \in Seq(Errors) /\ e \in Nat \ {0}
        /\ \A i \in 1..Len(chain[e]) : chain[e][i] \in Errors /\ chain[e][i] <= e
    BY ElementOfSeq DEF TypeInv, TypeOK, Formed, Errors
  <1>2. Cause(e) = CauseIn(layers, chain[e])
    BY CauseReads
  <1>3. CASE CausesAt(layers, chain[e]) = {}
    BY <1>1, <1>2, <1>3 DEF CauseIn
  <1>4. CASE CausesAt(layers, chain[e]) # {}
    <2> DEFINE i == Min(CausesAt(layers, chain[e]))
    <2>0. i \in CausesAt(layers, chain[e])
      BY <1>4, FirstCause
    <2>1. /\ i \in 1..Len(chain[e]) /\ layers[chain[e][i]].kind = "cause"
          /\ Cause(e) = layers[chain[e][i]].cause
      BY <1>2, <1>4, <2>0 DEF CauseIn, CausesAt
    <2> HIDE DEF i
    <2>2. chain[e][i] \in Errors /\ chain[e][i] <= e /\ Errors \subseteq Nat
      <3>1. Errors \subseteq Nat
        BY DEF Errors
      <3> QED
        BY <1>1, <2>1, <3>1
    <2>3. layers[chain[e][i]] \in Layer
      BY <2>2, ElementOfSeq DEF TypeInv, TypeOK, Errors
    <2>4. Cause(e) \in Errors /\ Cause(e) < chain[e][i]
      BY <2>1, <2>2, <2>3 DEF Layer, TypeInv, Formed
    <2>5. Cause(e) \in Nat /\ chain[e][i] \in Nat
      BY <2>2, <2>4
    <2> QED
      BY <1>1, <2>2, <2>4, <2>5
  <1> QED
    BY <1>3, <1>4

Solves(f, n, own, older) ==
    f = [e \in 0..n |-> IF e = 0 THEN {} ELSE own[e] \cup f[older[e]]]

\* A function that looks at smaller numbers only exists.
LEMMA RecursionEnds ==
    ASSUME NEW N \in Nat, NEW own, NEW older, \A e \in 1..N : older[e] \in 0..e - 1
    PROVE  \E f : Solves(f, N, own, older)
  <1> DEFINE Upto(n) == \E f : Solves(f, n, own, older)
             T == {n \in 0..N : ~Upto(n)}
  <1>1. ASSUME T # {} PROVE FALSE
    <2>0. T \in SUBSET Nat
      OBVIOUS
    <2>1. PICK n \in T : \A m \in T : n <= m
      <3> HIDE DEF T
      <3> QED
        BY <1>1, <2>0, LeastNumber
    <2>2. n \in 0..N /\ ~Upto(n)
      OBVIOUS
    <2>3. CASE n = 0
      <3> DEFINE f == [e \in 0..0 |-> {}]
      <3>1. f = [e \in 0..0 |-> IF e = 0 THEN {} ELSE own[e] \cup f[older[e]]]
        OBVIOUS
      <3> QED
        BY <2>2, <2>3, <3>1 DEF Solves
    <2>4. CASE n # 0
      <3>1. n - 1 \in 0..N /\ ~(n <= n - 1)
        BY <2>2, <2>4
      <3>2. Upto(n - 1)
        BY <2>1, <3>1
      <3>3. PICK f : f = [e \in 0..n - 1 |->
                             IF e = 0 THEN {} ELSE own[e] \cup f[older[e]]]
        BY <3>2 DEF Solves
      <3> DEFINE g == [e \in 0..n |-> IF e = n THEN own[n] \cup f[older[n]] ELSE f[e]]
      <3>4. ASSUME NEW e \in 0..n
            PROVE  g[e] = IF e = 0 THEN {} ELSE own[e] \cup g[older[e]]
        <4>1. CASE e = 0
          BY <2>2, <2>4, <3>1, <3>3, <4>1
        <4>2. CASE e # 0
          <5>1. older[e] \in 0..e - 1
            BY <2>2, <4>2
          <5>2. older[e] \in 0..n /\ older[e] # n
            BY <2>2, <5>1
          <5>3. g[older[e]] = f[older[e]]
            BY <5>2
          <5>4. g[e] = own[e] \cup f[older[e]]
            <6>1. e # n => e \in 0..n - 1
              BY <2>2
            <6>2. e # n => f[e] = own[e] \cup f[older[e]]
              BY <3>3, <4>2, <6>1
            <6> QED
              BY <6>2
          <5> QED
            BY <4>2, <5>3, <5>4
        <4> QED
          BY <4>1, <4>2
      <3>5. g = [e \in 0..n |-> IF e = 0 THEN {} ELSE own[e] \cup g[older[e]]]
        BY <3>4
      <3> HIDE DEF g
      <3> QED
        BY <2>2, <3>5 DEF Solves
    <2> QED
      BY <2>3, <2>4
  <1>2. N \notin T
    BY <1>1
  <1>3. Upto(N)
    <2> HIDE DEF Upto
    <2> QED
      BY <1>2
  <1> QED
    BY <1>3

LEMMA ReachReads ==
    ASSUME TypeInv
    PROVE  /\ Reach[0] = {}
           /\ \A e \in Errors : Reach[e] = ToSet(chain[e]) \cup Reach[Cause(e)]
  <1> DEFINE own == [e \in 1..Len(layers) |-> ToSet(chain[e])]
             older == [e \in 1..Len(layers) |-> Cause(e)]
  <1>1. Len(layers) \in Nat /\ Errors = 1..Len(layers)
    BY DEF TypeInv, TypeOK, Errors
  <1>2. \A e \in 1..Len(layers) : older[e] \in 0..e - 1
    BY <1>1, CauseIsOlder
  <1>3. \E f : Solves(f, Len(layers), own, older)
    <2> HIDE DEF own, older
    <2>1. Len(layers) \in Nat
      BY <1>1
    <2> QED
      BY <2>1, <1>2, RecursionEnds
  <1>4. PICK f : f = [e \in 0..Len(layers) |->
                         IF e = 0 THEN {} ELSE own[e] \cup f[older[e]]]
    BY <1>3 DEF Solves
  <1>5. f = [e \in 0..Len(layers) |->
                IF e = 0 THEN {} ELSE ToSet(chain[e]) \cup f[Cause(e)]]
    <2>1. \A e \in 0..Len(layers) :
              f[e] = IF e = 0 THEN {} ELSE ToSet(chain[e]) \cup f[Cause(e)]
      <3> TAKE e \in 0..Len(layers)
      <3>1. e # 0 => e \in 1..Len(layers)
        BY <1>1
      <3>2. f[e] = IF e = 0 THEN {} ELSE own[e] \cup f[older[e]]
        BY <1>4
      <3>3. e # 0 => own[e] = ToSet(chain[e]) /\ older[e] = Cause(e)
        BY <3>1
      <3> HIDE DEF own, older
      <3> QED
        BY <3>2, <3>3
    <2>2. f = [e \in 0..Len(layers) |-> f[e]]
      BY <1>4
    <2> QED
      BY <2>1, <2>2
  <1>6. Reach = [e \in 0..Len(layers) |->
                    IF e = 0 THEN {} ELSE ToSet(chain[e]) \cup Reach[Cause(e)]]
    BY <1>5 DEF Reach
  <1>7. 0 \in 0..Len(layers) /\ \A e \in Errors : e \in 0..Len(layers) /\ e # 0
    BY <1>1
  <1> QED
    BY <1>6, <1>7

-----------------------------------------------------------------------------
(* The walk of errors.Is.                                                   *)

\* The cause that a view will come to: the one it carries or, if it carries
\* none, the outermost in its list.
CauseAhead(v) == IF v.cause # 0 THEN v.cause ELSE CauseIn(layers, v.rest)

\* What a view has still to offer: its list, and all of that cause.
Remaining(v) == ToSet(v.rest) \cup Reach[CauseAhead(v)]

RemainingAt(at) == IF at = <<>> THEN {} ELSE Remaining(at[1])

\* What was compared and what is still to come are all of the error.
SeenAndRemaining ==
    /\ walk.of = 0 => ~Walking
    /\ walk.of # 0 => /\ walk.of \in Errors
                      /\ walk.seen \cup RemainingAt(walk.at) = Reach[walk.of]

LEMMA HeadAndTail ==
    ASSUME NEW S, NEW s \in Seq(S), s # <<>>
    PROVE  ToSet(s) = {Head(s)} \cup ToSet(Tail(s))
  <1>1. /\ Len(s) \in Nat \ {0} /\ Head(s) = s[1]
        /\ Len(Tail(s)) = Len(s) - 1 /\ Tail(s) \in Seq(S)
        /\ \A i \in 1..Len(s) - 1 : Tail(s)[i] = s[i + 1]
    BY HeadTailProperties
  <1>2. DOMAIN s = 1..Len(s) /\ DOMAIN Tail(s) = 1..Len(s) - 1
    BY <1>1, LenProperties
  <1>3. ToSet(s) = {s[i] : i \in 1..Len(s)}
        /\ ToSet(Tail(s)) = {Tail(s)[i] : i \in 1..Len(s) - 1}
    BY <1>2 DEF ToSet
  <1>4. \A i \in 1..Len(s) :
            i = 1 \/ (i - 1 \in 1..Len(s) - 1 /\ Tail(s)[i - 1] = s[i])
    BY <1>1
  <1>5. \A i \in 1..Len(s) - 1 : i + 1 \in 1..Len(s)
    <2>1. Len(s) \in Nat
      BY <1>1
    <2> QED
      BY <2>1
  <1>6. \A i \in 1..Len(s) : s[i] \in {Head(s)} \cup ToSet(Tail(s))
    BY <1>1, <1>3, <1>4
  <1>7. \A i \in 1..Len(s) - 1 : Tail(s)[i] \in ToSet(s)
    BY <1>1, <1>3, <1>5
  <1>8. Head(s) \in ToSet(s)
    BY <1>1, <1>3
  <1> QED
    BY <1>3, <1>6, <1>7, <1>8

LEMMA RawRemaining ==
    ASSUME TypeInv, NEW list \in Seq(Errors)
    PROVE  RemainingAt(Raw(list)) = ToSet(list) \cup Reach[CauseIn(layers, list)]
  <1>1. CASE list = <<>>
    <2>1. ToSet(list) = {} /\ CauseIn(layers, list) = 0
      BY <1>1, EmptySeq DEF ToSet, CauseIn, CausesAt
    <2> QED
      BY <1>1, <2>1, ReachReads DEF RemainingAt, Raw
  <1>2. CASE list # <<>>
    BY <1>2 DEF RemainingAt, Remaining, CauseAhead, Raw
  <1> QED
    BY <1>1, <1>2

LEMMA CarriedCause ==
    ASSUME TypeInv, NEW v \in View, HasCause(v)
    PROVE  CauseAhead(v) = CauseOf(v)
  <1>1. CASE v.cause # 0
    BY <1>1 DEF CauseAhead, CauseOf
  <1>2. CASE v.cause = 0
    <2>1. v.rest \in Seq(Errors) /\ v.rest # <<>> /\ KindOf(Head(v.rest)) = "cause"
      BY <1>2, ViewParts DEF HasCause
    <2>2. CauseIn(layers, v.rest) = layers[Head(v.rest)].cause
      BY <2>1, CauseOfHead DEF KindOf
    <2> QED
      BY <1>2, <2>2 DEF CauseAhead, CauseOf
  <1> QED
    BY <1>1, <1>2

\* Unwrap leaves out of the walk exactly what was compared.
LEMMA UnwrapKeeps ==
    ASSUME TypeInv, NEW v \in View
    PROVE  Compared(v) \cup RemainingAt(Unwrap(v)) = Remaining(v)
  <1> DEFINE inside == Inside(v)
             before == SubSeq(inside, 1, Below(v))
             after == SubSeq(inside, Below(v) + 1, Len(inside))
             c == CauseOf(v)
  <1>1. /\ v.rest \in Seq(Errors) /\ v.rest # <<>> /\ Tail(v.rest) \in Seq(Errors)
        /\ inside \in Seq(Errors) /\ Below(v) \in 0..Len(inside)
        /\ HasCause(v) => c \in Errors
    BY ViewParts
  <1>2. ToSet(v.rest) = {Head(v.rest)} \cup ToSet(Tail(v.rest))
    BY <1>1, HeadAndTail
  <1>3. CauseIn(layers, v.rest) = IF KindOf(Head(v.rest)) = "cause"
                                  THEN layers[Head(v.rest)].cause
                                  ELSE CauseIn(layers, Tail(v.rest))
    BY <1>1, CauseOfHead DEF KindOf
  <1>4. CASE ~HasCause(v)
    <2>1. Compared(v) = {Head(v.rest)} /\ Unwrap(v) = Raw(Tail(v.rest))
          /\ v.cause = 0 /\ KindOf(Head(v.rest)) # "cause"
      BY <1>4 DEF Compared, Unwrap, HasCause
    <2>2. RemainingAt(Unwrap(v)) =
              ToSet(Tail(v.rest)) \cup Reach[CauseIn(layers, Tail(v.rest))]
      BY <1>1, <2>1, RawRemaining
    <2> QED
      BY <1>2, <1>3, <2>1, <2>2 DEF Remaining, CauseAhead
  <1>5. CASE HasCause(v)
    <2>1. c \in Errors /\ c # 0
      BY <1>1, <1>5 DEF Errors
    <2>2. Remaining(v) = (IF v.cause = 0 THEN {Head(v.rest)} ELSE {})
                             \cup ToSet(inside) \cup Reach[c]
      <3>1. CASE v.cause # 0
        BY <1>5, <3>1, CarriedCause DEF Remaining, Inside
      <3>2. CASE v.cause = 0
        <4>1. inside = Tail(v.rest)
          BY <3>2 DEF Inside
        <4> QED
          BY <1>2, <1>5, <3>2, <4>1, CarriedCause DEF Remaining
      <3> QED
        BY <3>1, <3>2
    <2>3. /\ after \in Seq(Errors)
          /\ ToSet(inside) = ToSet(before) \cup ToSet(after)
      BY <1>1, Cut
    <2>4. Compared(v) = (IF v.cause = 0 THEN {Head(v.rest)} ELSE {}) \cup ToSet(before)
      BY <1>5 DEF Compared
    <2>5. RemainingAt(Unwrap(v)) = ToSet(after) \cup Reach[c]
      <3>1. CASE after = <<>>
        <4>1. Unwrap(v) = Raw(chain[c])
          BY <1>5, <3>1 DEF Unwrap
        <4>2. chain[c] \in Seq(Errors)
          BY <2>1 DEF TypeInv, TypeOK
        <4>3. RemainingAt(Unwrap(v)) = ToSet(chain[c]) \cup Reach[Cause(c)]
          BY <4>1, <4>2, RawRemaining, CauseReads
        <4>4. ToSet(after) = {}
          <5>1. ToSet(<<>>) = {}
            BY EmptySeq DEF ToSet
          <5> QED
            BY <3>1, <5>1
        <4> QED
          BY <2>1, <4>3, <4>4, ReachReads
      <3>2. CASE after # <<>>
        <4>1. Unwrap(v) = <<[rest |-> after, cause |-> c]>>
          BY <1>5, <3>2 DEF Unwrap
        <4> HIDE DEF after, c
        <4> QED
          BY <2>1, <4>1 DEF RemainingAt, Remaining, CauseAhead
      <3> QED
        BY <3>1, <3>2
    <2> HIDE DEF inside, before, after, c
    <2> QED
      BY <2>2, <2>3, <2>4, <2>5
  <1> QED
    BY <1>4, <1>5

LEMMA SeenStep ==
    ASSUME TypeInv, TypeInv', SeenAndRemaining, [Next]_vars
    PROVE  SeenAndRemaining'
  <1>1. CASE walk' = NoWalk
    BY <1>1 DEF SeenAndRemaining, NoWalk, Walking
  <1>2. ASSUME UNCHANGED <<layers, chain>>
        PROVE  /\ Errors' = Errors /\ Reach' = Reach
               /\ RemainingAt(walk.at)' = RemainingAt(walk'.at)
    <2>0. layers' = layers /\ chain' = chain /\ Len(layers)' = Len(layers)
      BY <1>2
    <2>1. \A e : Cause(e)' = Cause(e)
      BY <2>0, CauseReads, CauseReadsNext
    <2>2. Reach' = Reach
      BY <2>0, <2>1, Zenon DEF Reach
    <2>3. Errors' = Errors
      BY <1>2 DEF Errors
    <2> QED
      BY <1>2, <2>2, <2>3 DEF RemainingAt, Remaining, CauseAhead
  <1>3. CASE UNCHANGED vars
    BY <1>2, <1>3 DEF vars, SeenAndRemaining, Walking
  <1>4. CASE Begin
    <2>1. /\ Len(layers) \in Errors /\ chain[Len(layers)] \in Seq(Errors)
      <3>1. Len(layers) \in Nat \ {0}
        BY <1>4, EmptySeq DEF Begin, TypeInv, TypeOK
      <3>2. Len(layers) \in Errors
        BY <3>1 DEF Errors
      <3> QED
        BY <3>2 DEF TypeInv, TypeOK
    <2>2. /\ walk'.of = Len(layers) /\ walk'.at = Raw(chain[Len(layers)])
          /\ walk'.seen = {}
      BY <1>4 DEF Begin, NoWalk
    <2>3. RemainingAt(walk'.at) = Reach[Len(layers)]
      BY <2>1, <2>2, RawRemaining, CauseReads, ReachReads
    <2>4. Len(layers) # 0
      BY <2>1 DEF Errors
    <2> QED
      BY <1>2, <1>4, <2>1, <2>2, <2>3, <2>4 DEF Begin, SeenAndRemaining
  <1>5. CASE Step
    <2> DEFINE v == walk.at[1]
    <2>1. Walking /\ v \in View
      BY <1>5, AtView DEF Step
    <2>2. walk.of # 0 /\ walk.of \in Errors
      BY <2>1 DEF SeenAndRemaining
    <2>3. /\ walk'.of = walk.of /\ walk'.at = Unwrap(v)
          /\ walk'.seen = walk.seen \cup Compared(v)
      BY <1>5 DEF Step, TypeInv, TypeOK
    <2>4. RemainingAt(walk.at) = Remaining(v)
      BY <2>1 DEF RemainingAt, Walking
    <2>5. Compared(v) \cup RemainingAt(Unwrap(v)) = Remaining(v)
      BY <2>1, UnwrapKeeps
    <2>6. walk.seen \cup Remaining(v) = Reach[walk.of]
      BY <2>2, <2>4 DEF SeenAndRemaining
    <2> HIDE DEF v
    <2>7. walk'.seen \cup RemainingAt(walk'.at) = Reach[walk.of]
      BY <2>3, <2>5, <2>6
    <2> QED
      BY <1>2, <1>5, <2>2, <2>3, <2>7 DEF Step, SeenAndRemaining
  <1> QED
    BY <1>1, <1>3, <1>4, <1>5
       DEF Next, New, WrapForeign, Set, WithCause, Add

\* errors.Is has compared its target with every layer of the error and of its
\* causes, and with nothing else, when it gives up: what the shims of Unwrap
\* skip was compared on the way.
THEOREM IsSeesAll == Spec => []IsExact
  <1>1. Init => SeenAndRemaining
    BY DEF Init, SeenAndRemaining, NoWalk, Walking
  <1>2. TypeInv /\ TypeInv' /\ SeenAndRemaining /\ [Next]_vars => SeenAndRemaining'
    BY SeenStep
  <1>3. SeenAndRemaining => IsExact
    BY DEF SeenAndRemaining, IsExact, Finished, RemainingAt, Walking
  <1> QED
    BY <1>1, <1>2, <1>3, TypeAlways, PTL DEF Spec

-----------------------------------------------------------------------------
(* The walk of Values.                                                      *)

ValueAhead(at, k) == IF at = <<>> THEN None ELSE ValueIn(layers, at[1].rest, k)

\* On the way through an error without a cause there is no shim, and for every
\* key the outermost value is noted or still ahead.
NotedOrAhead ==
    walk.of # 0 /\ Cause(walk.of) = 0 =>
        /\ Walking => walk.at[1].cause = 0 /\ CauseIn(layers, walk.at[1].rest) = 0
        /\ \A k \in Keys :
               Lookup(walk.of, k) = IF walk.values[k] = None THEN ValueAhead(walk.at, k)
                                                              ELSE walk.values[k]

LEMMA RawAhead ==
    ASSUME NEW list, NEW k
    PROVE  ValueAhead(Raw(list), k) = ValueIn(layers, list, k)
  <1>1. CASE list = <<>>
    <2>1. ValueIn(layers, <<>>, k) = None
      BY DEF ValueIn, ValuesAt
    <2> QED
      BY <1>1, <2>1 DEF Raw, ValueAhead
  <1>2. CASE list # <<>>
    BY <1>2 DEF Raw, ValueAhead
  <1> QED
    BY <1>1, <1>2

\* One step of Values through a layer that is not a cause.
LEMMA NotedStep ==
    ASSUME TypeInv, NEW v \in View, v.cause = 0, NEW k \in Keys,
           NEW values \in [Keys -> Values \cup {None}]
    PROVE  Noted(v, values)[k] =
               IF /\ values[k] = None
                  /\ layers[Head(v.rest)].kind = "value" /\ layers[Head(v.rest)].key = k
               THEN layers[Head(v.rest)].value ELSE values[k]
  <1>1. layers[Head(v.rest)] \in Layer
    BY ViewParts
  <1> DEFINE l == layers[Head(v.rest)]
  <1>2. CASE l.kind = "value" /\ values[l.key] = None
    <2>1. Noted(v, values) = [values EXCEPT ![l.key] = l.value]
      BY <1>2 DEF Noted
    <2> HIDE DEF l
    <2>2. \A w : [values EXCEPT ![l.key] = w][k] = IF l.key = k THEN w ELSE values[k]
      OBVIOUS
    <2> QED
      BY <1>2, <2>1, <2>2 DEF l
  <1>3. CASE ~(l.kind = "value" /\ values[l.key] = None)
    BY <1>3 DEF Noted
  <1> QED
    BY <1>2, <1>3

LEMMA NotedKeeps ==
    ASSUME TypeInv, TypeInv', NotedOrAhead, Step, Cause(walk.of) = 0, walk.of # 0
    PROVE  NotedOrAhead'
  <1> DEFINE v == walk.at[1]
             l == layers[Head(v.rest)]
  <1>1. /\ v \in View /\ v.rest \in Seq(Errors) /\ v.rest # <<>> /\ l \in Layer
        /\ walk.at # <<>>
    BY AtView, ViewParts DEF Step, Walking
  <1>2. v.cause = 0 /\ CauseIn(layers, v.rest) = 0
    BY DEF NotedOrAhead, Step
  <1>3. l.kind # "cause" /\ CauseIn(layers, Tail(v.rest)) = 0
    <2>1. CauseIn(layers, v.rest) =
              IF l.kind = "cause" THEN l.cause ELSE CauseIn(layers, Tail(v.rest))
      BY <1>1, CauseOfHead
    <2>2. l.kind = "cause" => l.cause # 0
      BY <1>1 DEF Layer, Errors
    <2> QED
      BY <1>2, <2>1, <2>2
  <1>4. Unwrap(v) = Raw(Tail(v.rest))
    BY <1>2, <1>3 DEF Unwrap, HasCause, KindOf
  <1>5. /\ walk'.of = walk.of /\ walk'.at = Raw(Tail(v.rest))
        /\ walk'.values = Noted(v, walk.values)
        /\ layers' = layers /\ chain' = chain
    BY <1>4 DEF Step, TypeInv, TypeOK
  <1>6. ASSUME NEW k \in Keys
        PROVE  Lookup(walk.of, k) =
                   IF walk'.values[k] = None THEN ValueAhead(walk'.at, k) ELSE walk'.values[k]
    <2>1. ValueAhead(walk.at, k) = ValueIn(layers, v.rest, k)
      BY <1>1 DEF ValueAhead
    <2>2. ValueAhead(walk'.at, k) = ValueIn(layers, Tail(v.rest), k)
      BY <1>5, RawAhead
    <2>3. ValueIn(layers, v.rest, k) = IF l.kind = "value" /\ l.key = k
                                       THEN l.value ELSE ValueIn(layers, Tail(v.rest), k)
      BY <1>1, ValueOfHead
    <2>4. walk'.values[k] = IF walk.values[k] = None /\ l.kind = "value" /\ l.key = k
                            THEN l.value ELSE walk.values[k]
      <3>1. walk.values \in [Keys -> Values \cup {None}]
        BY DEF TypeInv, TypeOK
      <3> HIDE DEF v
      <3> QED
        BY <1>1, <1>2, <1>5, <3>1, NotedStep
    <2>5. l.kind = "value" => l.value # None
      BY <1>1, NoneAssumption DEF Layer
    <2>6. Lookup(walk.of, k) = IF walk.values[k] = None THEN ValueAhead(walk.at, k)
                                                         ELSE walk.values[k]
      BY DEF NotedOrAhead
    <2> HIDE DEF v, l
    <2> QED
      BY <2>1, <2>2, <2>3, <2>4, <2>5, <2>6
  <1>7. \A k : Lookup(walk.of, k)' = Lookup(walk'.of, k)
    BY <1>5, LookupReads, LookupReadsNext
  <1>8. \A k : ValueAhead(walk.at, k)' = ValueAhead(walk'.at, k)
    BY <1>5 DEF ValueAhead
  <1>9. walk'.at # <<>> => /\ walk'.at[1].cause = 0
                           /\ CauseIn(layers, walk'.at[1].rest) = 0
    <2> SUFFICES ASSUME walk'.at # <<>>
                 PROVE  walk'.at[1].cause = 0 /\ CauseIn(layers, walk'.at[1].rest) = 0
      OBVIOUS
    <2>1. walk'.at = <<[rest |-> Tail(v.rest), cause |-> 0]>>
      BY <1>5 DEF Raw
    <2> HIDE DEF v
    <2>2. walk'.at[1].cause = 0 /\ walk'.at[1].rest = Tail(v.rest)
      BY <2>1
    <2> QED
      BY <1>3, <2>2 DEF v
  <1> HIDE DEF v, l
  <1> QED
    BY <1>5, <1>6, <1>7, <1>8, <1>9 DEF NotedOrAhead, Walking

LEMMA NotedNext ==
    ASSUME TypeInv, TypeInv', NotedOrAhead, [Next]_vars
    PROVE  NotedOrAhead'
  <1>1. CASE walk' = NoWalk
    BY <1>1 DEF NotedOrAhead, NoWalk
  <1>2. CASE UNCHANGED vars
    <2>1. layers' = layers /\ chain' = chain /\ walk' = walk
      BY <1>2 DEF vars
    <2>2. \A k : Lookup(walk.of, k)' = Lookup(walk.of, k)
      BY <2>1, LookupReads, LookupReadsNext
    <2>3. Cause(walk.of)' = Cause(walk.of)
      BY <2>1, CauseReads, CauseReadsNext
    <2> QED
      BY <2>1, <2>2, <2>3 DEF NotedOrAhead, Walking, ValueAhead
  <1>3. CASE Begin
    <2>1. /\ layers' = layers /\ chain' = chain
          /\ walk'.of = Len(layers) /\ walk'.at = Raw(chain[Len(layers)])
          /\ walk'.values = [k \in Keys |-> None]
      BY <1>3 DEF Begin, NoWalk
    <2>2. \A k : Lookup(walk.of, k)' = ValueIn(layers, chain[Len(layers)], k)
      BY <2>1, LookupReadsNext
    <2>3. Cause(walk.of)' = CauseIn(layers, chain[Len(layers)])
      BY <2>1, CauseReadsNext
    <2>4. \A k : ValueAhead(walk.at, k)' = ValueIn(layers, chain[Len(layers)], k)
      <3>1. \A k : ValueAhead(walk.at, k)' = ValueAhead(Raw(chain[Len(layers)]), k)
        BY <2>1 DEF ValueAhead
      <3> QED
        BY <3>1, RawAhead
    <2>5. walk'.at # <<>> => /\ walk'.at[1].cause = 0
                             /\ walk'.at[1].rest = chain[Len(layers)]
      BY <2>1 DEF Raw
    <2>6. ASSUME Cause(walk.of)' = 0, walk'.at # <<>>
          PROVE  walk'.at[1].cause = 0 /\ CauseIn(layers', walk'.at[1].rest) = 0
      BY <2>1, <2>3, <2>5, <2>6
    <2>7. ASSUME NEW k \in Keys
          PROVE  Lookup(walk.of, k)' = IF walk'.values[k] = None
                                       THEN ValueAhead(walk.at, k)' ELSE walk'.values[k]
      BY <2>1, <2>2, <2>4
    <2> QED
      BY <2>6, <2>7 DEF NotedOrAhead, Walking
  <1>4. CASE Step
    <2>1. walk'.of = walk.of /\ layers' = layers /\ chain' = chain
      BY <1>4 DEF Step, TypeInv, TypeOK
    <2>2. Cause(walk.of)' = Cause(walk.of)
      BY <2>1, CauseReads, CauseReadsNext
    <2>3. CASE walk.of # 0 /\ Cause(walk.of) = 0
      BY <1>4, <2>3, NotedKeeps
    <2>4. CASE ~(walk.of # 0 /\ Cause(walk.of) = 0)
      BY <2>1, <2>2, <2>4 DEF NotedOrAhead
    <2> QED
      BY <2>3, <2>4
  <1> QED
    BY <1>1, <1>2, <1>3, <1>4
       DEF Next, New, WrapForeign, Set, WithCause, Add

\* Values reports for an error without a cause what Lookup finds, key by key,
\* although the one walks by Unwrap and the other does not.
THEOREM ValuesAgree == Spec => []ValuesOfPlain
  <1>1. Init => NotedOrAhead
    BY DEF Init, NotedOrAhead, NoWalk
  <1>2. TypeInv /\ TypeInv' /\ NotedOrAhead /\ [Next]_vars => NotedOrAhead'
    BY NotedNext
  <1>3. NotedOrAhead => ValuesOfPlain
    BY DEF NotedOrAhead, ValuesOfPlain, Finished, ValueAhead, Walking
  <1> QED
    BY <1>1, <1>2, <1>3, TypeAlways, PTL DEF Spec

-----------------------------------------------------------------------------
(* Why every walk comes to its end.                                         *)

\* A list that ends in the error everything was wrapped around.
Grounded(ls, list) == list # <<>> /\ ls[Last(list)].kind = "base"

AllGrounded ==
    /\ \A e \in Errors : Grounded(layers, chain[e])
    /\ Walking => Grounded(layers, walk.at[1].rest)

\* The view w is nearer to the end than v: it is at an older cause, or at less
\* of the same list.
Nearer(w, v) ==
    \/ CauseAhead(w) < CauseAhead(v)
    \/ CauseAhead(w) = CauseAhead(v) /\ Len(w.rest) < Len(v.rest)

\* Every step of a walk that goes on is one towards its end.
StepsDescend == [][Step /\ walk'.at # <<>> => Nearer(walk'.at[1], walk.at[1])]_vars

LEMMA RestGrounded ==
    ASSUME NEW S, NEW s \in Seq(S), NEW b \in 0..Len(s) - 1, Grounded(layers, s)
    PROVE  LET t == SubSeq(s, b + 1, Len(s))
           IN Len(t) = Len(s) - b /\ Grounded(layers, t)
  <1> DEFINE t == SubSeq(s, b + 1, Len(s))
  <1>1. Len(s) \in Nat /\ b \in Nat /\ b < Len(s)
    OBVIOUS
  <1>2. \A i \in b + 1..Len(s) : s[i] \in S
    BY <1>1, ElementOfSeq
  <1>3. /\ t \in Seq(S)
        /\ Len(t) = IF b + 1 <= Len(s) THEN Len(s) - (b + 1) + 1 ELSE 0
        /\ \A i \in 1..Len(s) - (b + 1) + 1 : t[i] = s[b + 1 + i - 1]
    BY <1>1, <1>2, SubSeqProperties
  <1>4. Len(t) = Len(s) - b
    BY <1>1, <1>3
  <1>5. t[Len(s) - b] = s[Len(s)]
    <2>1. /\ Len(s) - b \in 1..Len(s) - (b + 1) + 1
          /\ b + 1 + (Len(s) - b) - 1 = Len(s)
      BY <1>1
    <2> HIDE DEF t
    <2> QED
      BY <1>3, <2>1
  <1> HIDE DEF t
  <1>6. t # <<>>
    <2>1. Len(t) # 0
      BY <1>1, <1>4
    <2> QED
      BY <1>3, <2>1, EmptySeq
  <1>7. s # <<>> /\ layers[s[Len(s)]].kind = "base"
    BY DEF Grounded, Last
  <1>8. Grounded(layers, t)
    BY <1>4, <1>5, <1>6, <1>7 DEF Grounded, Last
  <1> QED
    BY <1>4, <1>8 DEF t

LEMMA TailGrounded ==
    ASSUME NEW S, NEW s \in Seq(S), Grounded(layers, s),
           KindOf(Head(s)) = "cause" \/ Tail(s) # <<>>
    PROVE  Len(Tail(s)) = Len(s) - 1 /\ Grounded(layers, Tail(s))
  <1>1. /\ s # <<>> /\ Len(s) \in Nat \ {0} /\ Head(s) = s[1]
        /\ Tail(s) \in Seq(S) /\ Len(Tail(s)) = Len(s) - 1
        /\ \A i \in 1..Len(s) - 1 : Tail(s)[i] = s[i + 1]
    BY HeadTailProperties DEF Grounded
  <1>2. Len(s) # 1
    <2>1. CASE KindOf(Head(s)) = "cause"
      BY <1>1, <2>1 DEF Grounded, Last, KindOf
    <2>2. CASE Tail(s) # <<>>
      BY <1>1, <2>2, EmptySeq
    <2> QED
      BY <2>1, <2>2
  <1>3. Tail(s)[Len(s) - 1] = s[Len(s)]
    <2>1. Len(s) - 1 \in 1..Len(s) - 1 /\ Len(s) - 1 + 1 = Len(s)
      BY <1>1, <1>2
    <2> QED
      BY <1>1, <2>1
  <1>4. Tail(s) # <<>>
    <2>1. Len(Tail(s)) # 0
      BY <1>1, <1>2
    <2> QED
      BY <1>1, <2>1, EmptySeq
  <1> QED
    BY <1>1, <1>3, <1>4 DEF Grounded, Last

LEMMA UnwrapDescends ==
    ASSUME TypeInv, AllGrounded, NEW v \in View, Grounded(layers, v.rest), Unwrap(v) # <<>>
    PROVE  Nearer(Unwrap(v)[1], v) /\ Grounded(layers, Unwrap(v)[1].rest)
  <1> DEFINE inside == Inside(v)
             after == SubSeq(inside, Below(v) + 1, Len(inside))
             c == CauseOf(v)
  <1>1. /\ v.rest \in Seq(Errors) /\ v.rest # <<>> /\ Tail(v.rest) \in Seq(Errors)
        /\ inside \in Seq(Errors) /\ Below(v) \in 0..Len(inside)
        /\ HasCause(v) => c \in Errors
    BY ViewParts
  <1>2. CASE ~HasCause(v)
    <2>1. /\ Unwrap(v) = Raw(Tail(v.rest)) /\ v.cause = 0
          /\ KindOf(Head(v.rest)) # "cause"
      BY <1>2 DEF Unwrap, HasCause
    <2>2. Tail(v.rest) # <<>> /\ Unwrap(v) = <<[rest |-> Tail(v.rest), cause |-> 0]>>
      BY <2>1 DEF Raw
    <2>3. Len(Tail(v.rest)) = Len(v.rest) - 1 /\ Grounded(layers, Tail(v.rest))
      BY <1>1, <2>2, TailGrounded
    <2>4. CauseIn(layers, v.rest) = CauseIn(layers, Tail(v.rest))
      BY <1>1, <2>1, CauseOfHead DEF KindOf
    <2>5. Len(v.rest) \in Nat /\ Len(Tail(v.rest)) < Len(v.rest)
      BY <1>1, <2>3
    <2>6. Unwrap(v)[1].cause = 0 /\ Unwrap(v)[1].rest = Tail(v.rest)
      BY <2>2
    <2> HIDE DEF inside, after, c
    <2>7. CauseAhead(Unwrap(v)[1]) = CauseAhead(v)
      BY <2>1, <2>4, <2>6 DEF CauseAhead
    <2> QED
      BY <2>3, <2>5, <2>6, <2>7 DEF Nearer
  <1>3. CASE HasCause(v)
    <2>1. c \in Errors /\ c \in Nat \ {0} /\ CauseAhead(v) = c
      BY <1>1, <1>3, CarriedCause DEF Errors
    <2>2. Grounded(layers, inside) /\ Len(inside) <= Len(v.rest) /\ Len(v.rest) \in Nat
      <3>1. CASE v.cause # 0
        BY <1>1, <3>1 DEF Inside
      <3>2. CASE v.cause = 0
        <4>1. inside = Tail(v.rest) /\ KindOf(Head(v.rest)) = "cause"
          BY <1>3, <3>2 DEF Inside, HasCause
        <4> QED
          BY <1>1, <4>1, TailGrounded
      <3> QED
        BY <3>1, <3>2
    <2>3. Below(v) \in 1..Len(inside)
      <3> DEFINE I == {i \in 1..Len(inside) : KindOf(inside[i]) # "cause"}
      <3>1. Len(inside) \in I
        <4>1. inside # <<>> /\ KindOf(inside[Len(inside)]) = "base"
          BY <2>2 DEF Grounded, Last, KindOf
        <4> HIDE DEF inside
        <4>2. Len(inside) \in Nat \ {0}
          BY <1>1, <4>1, EmptySeq
        <4>3. Len(inside) \in 1..Len(inside)
          BY <4>2
        <4> QED
          BY <4>1, <4>3
      <3>2. I \in SUBSET Nat
        OBVIOUS
      <3>3. Min(I) \in I
        <4> HIDE DEF I
        <4> QED
          BY <3>1, <3>2, MinOf
      <3>4. Below(v) = IF I # {} THEN Min(I) ELSE 0
        BY DEF Below, SelectInSeq
      <3> QED
        BY <3>1, <3>3, <3>4
    <2>4. CASE after = <<>>
      <3>1. Unwrap(v) = Raw(chain[c])
        BY <1>3, <2>4 DEF Unwrap
      <3>2. Unwrap(v) = <<[rest |-> chain[c], cause |-> 0]>>
        BY <2>1, <3>1 DEF Raw, TypeInv, TypeOK
      <3>3. CauseIn(layers, chain[c]) \in 0..c - 1
        BY <2>1, CauseIsOlder, CauseReads
      <3>4. CauseAhead(Unwrap(v)[1]) < CauseAhead(v)
        <4> HIDE DEF c
        <4> QED
          BY <2>1, <3>2, <3>3 DEF CauseAhead
      <3>5. Grounded(layers, chain[c])
        BY <2>1 DEF AllGrounded
      <3> QED
        BY <3>2, <3>4, <3>5 DEF Nearer
    <2>5. CASE after # <<>>
      <3>1. Unwrap(v) = <<[rest |-> after, cause |-> c]>>
        BY <1>3, <2>5 DEF Unwrap
      <3>2. Below(v) # Len(inside)
        <4>1. CASE Below(v) = Len(inside)
          <5>1. Len(inside) \in Nat /\ Len(inside) + 1 > Len(inside)
            BY <1>1
          <5>2. Len(after) = 0
            BY <1>1, <4>1, <5>1, SubSeqProperties
          <5>3. after \in Seq(Errors)
            BY <1>1, Cut
          <5> QED
            BY <2>5, <5>2, <5>3, EmptySeq
        <4> QED
          BY <4>1
      <3>3. Len(after) = Len(inside) - Below(v) /\ Grounded(layers, after)
        <4>1. Below(v) \in 0..Len(inside) - 1
          BY <1>1, <2>3, <3>2
        <4> QED
          BY <1>1, <2>2, <4>1, RestGrounded
      <3>4. Len(after) < Len(v.rest)
        BY <1>1, <2>2, <2>3, <3>3
      <3> HIDE DEF after, c
      <3> QED
        BY <2>1, <3>1, <3>3, <3>4 DEF Nearer, CauseAhead
    <2> QED
      BY <2>4, <2>5
  <1> QED
    BY <1>2, <1>3

LEMMA AddGrounded ==
    ASSUME TypeInv, AllGrounded, NEW layer, NEW around \in Seq(Errors), Add(layer, around),
           around = <<>> => layer.kind = "base", around # <<>> => Grounded(layers, around)
    PROVE  AllGrounded'
  <1> DEFINE n == Len(layers) + 1
  <1>1. /\ n \in Nat /\ Errors' = Errors \cup {n} /\ layers'[n] = layer
        /\ \A i \in Errors : layers'[i] = layers[i] /\ chain'[i] = chain[i]
        /\ chain'[n] = <<n>> \o around
    BY AddShape
  <1>2. \A list \in Seq(Errors) : Grounded(layers, list) => Grounded(layers', list)
    <2> TAKE list \in Seq(Errors)
    <2>1. list # <<>> => Last(list) \in Errors
      BY EmptySeq, ElementOfSeq DEF Last
    <2> QED
      BY <1>1, <2>1 DEF Grounded
  <1>3. \A e \in Errors : Grounded(layers', chain'[e])
    <2> TAKE e \in Errors
    <2>1. chain[e] \in Seq(Errors) /\ Grounded(layers, chain[e])
      BY DEF TypeInv, TypeOK, AllGrounded
    <2> QED
      BY <1>1, <1>2, <2>1
  <1>4. Grounded(layers', chain'[n])
    <2>1. /\ <<n>> \in Seq(Nat) /\ around \in Seq(Nat) /\ Len(around) \in Nat
          /\ Len(<<n>>) = 1 /\ <<n>>[1] = n
      BY <1>1, SeqMonotonic DEF Errors
    <2>2. /\ chain'[n] \in Seq(Nat) /\ Len(chain'[n]) = 1 + Len(around)
          /\ \A i \in 1..1 + Len(around) :
                 chain'[n][i] = IF i <= 1 THEN <<n>>[i] ELSE around[i - 1]
      <3> HIDE DEF n
      <3> QED
        BY <1>1, <2>1, ConcatProperties
    <2>3. chain'[n] # <<>>
      BY <2>1, <2>2, EmptySeq
    <2>4. CASE around = <<>>
      <3>1. Len(chain'[n]) = 1 /\ chain'[n][1] = n
        BY <2>1, <2>2, <2>4, EmptySeq
      <3>2. layers'[n].kind = "base"
        BY <1>1, <2>4
      <3> HIDE DEF n
      <3> QED
        BY <2>3, <3>1, <3>2 DEF Grounded, Last
    <2>5. CASE around # <<>>
      <3>1. /\ Len(around) + 1 \in 1..1 + Len(around) /\ ~(Len(around) + 1 <= 1)
            /\ Len(around) + 1 - 1 = Len(around)
        BY <2>1, <2>5, EmptySeq
      <3>2. chain'[n][Len(chain'[n])] = around[Len(around)]
        BY <2>1, <2>2, <3>1
      <3>3. Grounded(layers', around)
        BY <1>2, <2>5
      <3> HIDE DEF n
      <3> QED
        BY <2>3, <3>2, <3>3 DEF Grounded, Last
    <2> QED
      BY <2>4, <2>5
  <1>5. walk' = NoWalk
    BY DEF Add
  <1> QED
    BY <1>1, <1>3, <1>4, <1>5 DEF AllGrounded, NoWalk, Walking

LEMMA GroundedNext ==
    ASSUME TypeInv, AllGrounded, [Next]_vars
    PROVE  AllGrounded'
  <1>1. ASSUME UNCHANGED <<layers, chain>>
        PROVE  /\ Errors' = Errors
               /\ \A e \in Errors' : Grounded(layers', chain'[e])
    BY <1>1 DEF AllGrounded, Errors
  <1>2. CASE UNCHANGED vars
    BY <1>1, <1>2 DEF vars, AllGrounded, Walking, Errors
  <1>3. CASE New
    BY <1>3, AddGrounded, EmptySeq DEF New
  <1>4. ASSUME NEW e \in Errors PROVE chain[e] \in Seq(Errors) /\ Grounded(layers, chain[e])
    BY DEF TypeInv, TypeOK, AllGrounded
  <1>5. ASSUME NEW e \in Errors, NEW layer, Add(layer, chain[e]) PROVE AllGrounded'
    <2>1. chain[e] # <<>>
      BY <1>4 DEF Grounded
    <2> QED
      BY <1>4, <1>5, <2>1, AddGrounded
  <1>6. CASE Begin
    <2>1. Len(layers) \in Errors /\ UNCHANGED <<layers, chain>>
      <3>1. Len(layers) \in Nat \ {0}
        BY <1>6, EmptySeq DEF Begin, TypeInv, TypeOK
      <3> QED
        BY <1>6, <3>1 DEF Begin, Errors
    <2>2. Grounded(layers, chain[Len(layers)])
      BY <2>1 DEF AllGrounded
    <2>3. walk'.at = <<[rest |-> chain[Len(layers)], cause |-> 0]>>
      BY <1>6, <2>2 DEF Begin, NoWalk, Raw, Grounded
    <2>4. walk'.at[1].rest = chain[Len(layers)]
      BY <2>3
    <2> QED
      BY <1>1, <2>1, <2>2, <2>4 DEF AllGrounded
  <1>7. CASE Step
    <2>1. walk'.at = Unwrap(walk.at[1]) /\ UNCHANGED <<layers, chain>>
      BY <1>7 DEF Step, TypeInv, TypeOK
    <2>2. walk.at[1] \in View /\ Grounded(layers, walk.at[1].rest)
      BY <1>7, AtView DEF Step, AllGrounded
    <2>3. walk'.at # <<>> => Grounded(layers, walk'.at[1].rest)
      BY <2>1, <2>2, UnwrapDescends
    <2> QED
      BY <1>1, <2>1, <2>3 DEF AllGrounded, Walking
  <1> QED
    BY <1>2, <1>3, <1>5, <1>6, <1>7 DEF Next, WrapForeign, Set, WithCause

\* However causes are nested, an Unwrap that does not answer nil has come to an
\* older cause or to less of the same list, so that no walk goes on for ever;
\* for this the list must not end in a cause.
THEOREM WalksDescend == Spec => StepsDescend
  <1>1. Init => AllGrounded
    BY EmptySeq DEF Init, AllGrounded, NoWalk, Walking, Errors
  <1>2. TypeInv /\ AllGrounded /\ [Next]_vars => AllGrounded'
    BY GroundedNext
  <1>3. TypeInv /\ AllGrounded /\ [Next]_vars
            => [Step /\ walk'.at # <<>> => Nearer(walk'.at[1], walk.at[1])]_vars
    <2> SUFFICES ASSUME TypeInv, AllGrounded, Step, walk'.at # <<>>
                 PROVE  Nearer(walk'.at[1], walk.at[1])
      OBVIOUS
    <2>1. walk'.at = Unwrap(walk.at[1])
      BY DEF Step, TypeInv, TypeOK
    <2>2. walk.at[1] \in View /\ Grounded(layers, walk.at[1].rest)
      BY AtView DEF Step, AllGrounded
    <2> QED
      BY <2>1, <2>2, UnwrapDescends
  <1> QED
    BY <1>1, <1>2, <1>3, TypeAlways, PTL DEF Spec, StepsDescend

=============================================================================
