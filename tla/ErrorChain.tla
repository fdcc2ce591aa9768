----------------------------- MODULE ErrorChain -----------------------------
(***************************************************************************)
(* The errors of internal/errors.  An error is a linked list of layers: a  *)
(* value attached to it (errWithValue), a cause (errWithCause), a layer    *)
(* that is not of the package (fmt.Errorf with %w, or the package's own    *)
(* formatError, which does not count as one of its errors), and at the end *)
(* the error everything was wrapped around.  errors.Is and Values walk it  *)
(* with errors.Unwrap, whose answer at a cause is an error made for the    *)
(* occasion: the rest of the list, carrying the cause along until the list *)
(* is at its end.  Lookup, on which Code and ID rest, has to stay off      *)
(* that path.                                                              *)
(*                                                                         *)
(* Here errors are built one layer at a time in every possible way, and    *)
(* the newest is walked, one Unwrap a step.                                *)
(***************************************************************************)
EXTENDS Naturals, SequencesExt

CONSTANTS
    Keys,       \* what values are attached by: an id, a message, a code
    Values,
    MaxLayers,  \* bounds the layers of all errors together
    None        \* no value

ASSUME NoneAssumption == None \notin Values
ASSUME MaxLayersAssumption == MaxLayers \in Nat

VARIABLES
    layers,  \* every layer in the order of construction; layer n is error n
    chain,   \* for each error its layers, outermost first
    walk     \* the walk over the newest error

vars == <<layers, chain, walk>>

Errors == 1..Len(layers)
Layer == [kind : {"base", "foreign"}]
             \cup [kind : {"value"}, key : Keys, value : Values]
             \cup [kind : {"cause"}, cause : Errors]

\* What Unwrap answers: the list from some layer on, and the cause that a shim
\* carries along with it (0: it is the error itself).
View == [rest : Seq(Errors) \ {<<>>}, cause : {0} \cup Errors]
Walking == walk.at # <<>>

\* seen: what errors.Is has compared its target with; values: what Values has.
TypeOK ==
    /\ layers \in Seq(Layer)
    /\ Len(layers) <= MaxLayers
    /\ chain \in [Errors -> Seq(Errors) \ {<<>>}]
    /\ walk \in [of : {0} \cup Errors, at : Seq(View), seen : SUBSET Errors,
                 values : [Keys -> Values \cup {None}]]
    /\ Len(walk.at) <= 1

NoWalk == [of |-> 0, at |-> <<>>, seen |-> {}, values |-> [k \in Keys |-> None]]

Init == layers = <<>> /\ chain = <<>> /\ walk = NoWalk

-----------------------------------------------------------------------------
(* Reading an error.                                                        *)

KindOf(n) == layers[n].kind

\* The cause of the outermost cause layer, 0 if there is none.
Cause(e) ==
    LET at == SelectInSeq(chain[e], LAMBDA n : KindOf(n) = "cause")
    IN IF at = 0 THEN 0 ELSE layers[chain[e][at]].cause

\* Bug: what the errors have not, their causes are asked for.
LookupInCauses(e, key) ==
    LET list == chain[e] \o (IF Cause(e) = 0 THEN <<>> ELSE chain[Cause(e)])
        at == SelectInSeq(list, LAMBDA n : KindOf(n) = "value" /\ layers[n].key = key)
    IN IF at = 0 THEN None ELSE layers[list[at]].value

\* Outermost layer of the list with that key.  Causes are not looked at.
Lookup(e, key) ==
    LET at == SelectInSeq(chain[e], LAMBDA n :
                  KindOf(n) = "value" /\ layers[n].key = key)
    IN IF at = 0 THEN None ELSE layers[chain[e][at]].value

\* A view that is an errWithCause: the list inside it and its cause.
HasCause(v) == v.cause # 0 \/ KindOf(Head(v.rest)) = "cause"
Inside(v) == IF v.cause # 0 THEN v.rest ELSE Tail(v.rest)
CauseOf(v) == IF v.cause # 0 THEN v.cause ELSE layers[Head(v.rest)].cause

\* Where the causes right inside it end: the first layer that is not one.
Below(v) == SelectInSeq(Inside(v), LAMBDA n : KindOf(n) # "cause")

Raw(list) == IF list = <<>> THEN <<>> ELSE <<[rest |-> list, cause |-> 0]>>

\* Bug: the shim forgets the cause it should carry along.
UnwrapForgetting(v) ==
    LET after == SubSeq(Inside(v), Below(v) + 1, Len(Inside(v)))
    IN IF ~HasCause(v) THEN Raw(Tail(v.rest))
       ELSE IF after = <<>> THEN Raw(chain[CauseOf(v)]) ELSE Raw(after)

\* Bug: the end of the list is wrapped like the rest of it.
UnwrapPastEnd(v) ==
    IF ~HasCause(v) THEN Raw(Tail(v.rest))
    ELSE <<[rest |-> SubSeq(Inside(v), Below(v) + 1, Len(Inside(v))),
            cause |-> CauseOf(v)]>>

\* Bug: past the causes, but not the layer more that Is has already seen.
UnwrapInPlace(v) ==
    IF ~HasCause(v) THEN Raw(Tail(v.rest))
    ELSE <<[rest |-> SubSeq(Inside(v), Below(v), Len(Inside(v))),
            cause |-> CauseOf(v)]>>

\* errors.Unwrap.  At an errWithCause it goes past the causes right inside it
\* and one layer more, and keeps the cause of the outermost, which is what it
\* answers when nothing is left of the list.  The answer is <<>> for nil.
Unwrap(v) ==
    LET after == SubSeq(Inside(v), Below(v) + 1, Len(Inside(v)))
    IN IF ~HasCause(v) THEN Raw(Tail(v.rest))
       ELSE IF after = <<>> THEN Raw(chain[CauseOf(v)])
       ELSE <<[rest |-> after, cause |-> CauseOf(v)]>>

\* What errors.Is compares its target with at a view: the error itself, unless
\* it is a shim, and what an errWithCause has inside, up to and including the
\* first layer that is not a cause.
Compared(v) ==
    (IF v.cause = 0 THEN {Head(v.rest)} ELSE {}) \cup
    (IF HasCause(v) THEN ToSet(SubSeq(Inside(v), 1, Below(v))) ELSE {})

\* Bug: the value attached first stays.
NotedLast(v, values) ==
    LET l == layers[Head(v.rest)]
    IN IF v.cause = 0 /\ l.kind = "value"
       THEN [values EXCEPT ![l.key] = l.value] ELSE values

\* Values notes a value where the view is an errWithValue; a shim never is.
Noted(v, values) ==
    LET l == layers[Head(v.rest)]
    IN IF v.cause = 0 /\ l.kind = "value" /\ values[l.key] = None
       THEN [values EXCEPT ![l.key] = l.value] ELSE values

-----------------------------------------------------------------------------
(* Building errors.                                                         *)

Add(layer, around) ==
    /\ ~Walking
    /\ Len(layers) < MaxLayers
    /\ layers' = Append(layers, layer)
    /\ chain' = Append(chain, <<Len(layers) + 1>> \o around)
    /\ walk' = NoWalk

New == Add([kind |-> "base"], <<>>)
WrapForeign(e) == Add([kind |-> "foreign"], chain[e])
Set(e, key, value) == Add([kind |-> "value", key |-> key, value |-> value], chain[e])
WithCause(e, cause) == Add([kind |-> "cause", cause |-> cause], chain[e])

\* A walk of errors.Is for a target that it does not find, and of Values.
Begin ==
    /\ ~Walking
    /\ layers # <<>>
    /\ walk' = [NoWalk EXCEPT !.of = Len(layers), !.at = Raw(chain[Len(layers)])]
    /\ UNCHANGED <<layers, chain>>

Step ==
    /\ Walking
    /\ LET v == walk.at[1]
       IN walk' = [walk EXCEPT !.at = Unwrap(v),
                               !.seen = @ \cup Compared(v),
                               !.values = Noted(v, @)]
    /\ UNCHANGED <<layers, chain>>

Next ==
    \/ New
    \/ \E e \in Errors : WrapForeign(e)
    \/ \E e \in Errors, k \in Keys, v \in Values : Set(e, k, v)
    \/ \E e \in Errors, c \in Errors : WithCause(e, c)
    \/ Begin
    \/ Step

Spec == Init /\ [][Next]_vars

\* A loop that can take its next step does.
FairSpec == Spec /\ WF_vars(Step)

-----------------------------------------------------------------------------
(* Properties.                                                              *)

\* All that an error consists of: its own layers and, in turn, all of its
\* cause, the latest one attached.
Reach ==
    LET all[e \in 0..Len(layers)] ==
            IF e = 0 THEN {} ELSE ToSet(chain[e]) \cup all[Cause(e)]
    IN all

Finished == walk.of # 0 /\ ~Walking

\* "errors.Is() and errors.As() will traverse both the main chain of error
\* wrappers, and down the chain of causes" (wrapper.go:92-93): every layer of
\* either is compared with the target, those that Unwrap skips over included,
\* and nothing else is, such as the cause of an earlier WithCause.
IsExact == Finished => walk.seen = Reach[walk.of]

\* "a map of all values attached to the error" (werror.go:165): of an error
\* without a cause, Values reports for every key what Lookup does.
ValuesOfPlain ==
    Finished /\ Cause(walk.of) = 0 =>
        \A k \in Keys : walk.values[k] = Lookup(walk.of, k)

\* What a layer says of an error: a new value goes before the values it
\* already had for that key, and no other wrapper changes any, a cause with
\* values of its own included ("Will not search causes", werror.go:107).
WrappersKeepValues ==
    [][\A e \in 1..MaxLayers, k \in Keys :
           e = Len(layers) + 1 /\ layers' # layers /\ Len(chain'[e]) > 1 =>
               Lookup(e, k)' = IF layers'[e].kind = "value" /\ layers'[e].key = k
                               THEN layers'[e].value
                               ELSE Lookup(chain'[e][2], k)]_vars

\* Unwrap makes a new error at every step past a cause, and yet every walk
\* comes to its end.
WalkEnds == Walking ~> ~Walking

=============================================================================
