------------------------------ MODULE CallPath ------------------------------
(***************************************************************************)
(* A gRPC call on its way through the interceptors of                      *)
(* internal/server/grpc.go: OuterInterceptor around the authorization,     *)
(* the validation of the request and the handler.  To authorize a call the *)
(* manager asks the auth service what it knows of the call's token.  While *)
(* such a request is out for a token, other calls with it wait for its     *)
(* answer rather than send their own (singleflight), and the request is    *)
(* made with the context of the first of them, which ends when that client *)
(* gives up.  Meanwhile accounts change, are locked and come back.         *)
(*                                                                         *)
(* Every error that a call may end with is followed to the status code the *)
(* client is told.                                                         *)
(***************************************************************************)
EXTENDS UserSession, Sequences

CONSTANTS
    Calls,
    Tokens,
    UserOf,     \* the user each token was given to
    Grants,     \* what the administrators may set an account to
    Gone        \* the account of a token that is no longer valid

ASSUME UserOfAssumption == UserOf \in [Tokens -> Users]
ASSUME GrantsAssumption == Grants \subseteq Userinfo

Codes == {"OK", "Unauthenticated", "InvalidArgument", "Internal"}

ASSUME MarkersAssumption ==
    /\ None \notin Calls \cup Tokens \cup Sessions \cup Scope \cup Codes
    /\ Gone \notin Userinfo

VARIABLES
    token,    \* the token each call carries, or None
    account,  \* what the auth service knows of each token
    step,     \* where each call is
    ctx,      \* whether the client still waits
    flight,   \* Manager.Group: the call whose request is out for a token
    shares,   \* the call whose request each call waits for, or waited for
    reply,    \* what came of the request each call made
    session,  \* the session in each call's context
    code,     \* the status code each call was answered with
    since     \* history: the accounts of the call's token since the request
              \* that it waits for was sent

vars == <<token, account, step, ctx, flight, shares, reply, session, code, since>>

Steps == {"new", "waiting", "authorized", "valid", "done"}

\* The accounts a token may have: Grants with its own user.
Accounts(t) == {g \in Grants : g.user_id = UserOf[t]} \cup {Gone}

NoReply == [kind |-> "none"]
Replies == [kind : {"none", "rejected", "unavailable", "cancelled"}]
               \cup [kind : {"info"}, info : Grants]

TypeOK ==
    /\ token \in [Calls -> Tokens \cup {None}]
    /\ account \in [Tokens -> Grants \cup {Gone}]
    /\ step \in [Calls -> Steps]
    /\ ctx \in [Calls -> {"live", "ended"}]
    /\ flight \in [Tokens -> Calls \cup {None}]
    /\ shares \in [Calls -> Calls \cup {None}]
    /\ reply \in [Calls -> Replies]
    /\ session \in [Calls -> Sessions \cup {None}]
    /\ code \in [Calls -> Codes \cup {None}]
    /\ since \in [Calls -> SUBSET (Grants \cup {Gone})]

Init ==
    /\ token \in [Calls -> Tokens \cup {None}]
    /\ account \in [Tokens -> Grants \cup {Gone}]
    /\ \A t \in Tokens : account[t] \in Accounts(t)
    /\ step = [c \in Calls |-> "new"]
    /\ ctx = [c \in Calls |-> "live"]
    /\ flight = [t \in Tokens |-> None]
    /\ shares = [c \in Calls |-> None]
    /\ reply = [c \in Calls |-> NoReply]
    /\ session = [c \in Calls |-> None]
    /\ code = [c \in Calls |-> None]
    /\ since = [c \in Calls |-> {}]

-----------------------------------------------------------------------------
(* Errors: the codes attached to one, outermost first, and its causes,      *)
(* which errors.Code does not look at (see ErrorChain).                     *)

Plain == [codes |-> <<>>, causes |-> {}]
WithCode(err, c) == [err EXCEPT !.codes = <<c>> \o @]
WithCause(err, cause) == [err EXCEPT !.causes = @ \cup {cause}]

\* BadRequest and Internal attach their code last.
BadRequest == WithCode(Plain, "InvalidArgument")
InternalError == WithCode(Plain, "Internal")

\* Bug: what the error was caused by goes before what it says itself.
CodeOfCause(err) ==
    IF err.causes # {} THEN (CHOOSE e \in err.causes : TRUE).codes[1]
    ELSE IF err.codes = <<>> THEN "Internal" ELSE Head(err.codes)

\* Bug: an error without a code is not taken for an internal one.
CodeOrUnknown(err) == IF err.codes = <<>> THEN "Unknown" ELSE Head(err.codes)

Code(err) == IF err.codes = <<>> THEN "Internal" ELSE Head(err.codes)

-----------------------------------------------------------------------------
(* AuthUnaryServerInterceptor and AuthorizeFromContext.                     *)

\* OuterInterceptor answers the client.
Answer(c, answer) ==
    /\ step' = [step EXCEPT ![c] = "done"]
    /\ code' = [code EXCEPT ![c] = answer]

Refuse(c, err) ==
    /\ Answer(c, Code(WithCode(WithCause(Plain, err), "Unauthenticated")))
    /\ UNCHANGED session

\* Without a token there is nothing to ask.  (Metadata, which is looked for
\* first, every call of a gRPC server has.)
AuthorizeWithoutToken(c) ==
    /\ step[c] = "new"
    /\ token[c] = None
    /\ Refuse(c, InternalError)
    /\ UNCHANGED <<token, account, ctx, flight, shares, reply, since>>

\* No request is out for this token: send one.
Ask(c) ==
    LET t == token[c] IN
    /\ step[c] = "new"
    /\ t # None
    /\ flight[t] = None
    /\ flight' = [flight EXCEPT ![t] = c]
    /\ shares' = [shares EXCEPT ![c] = c]
    /\ step' = [step EXCEPT ![c] = "waiting"]
    /\ since' = [since EXCEPT ![c] = {account[t]}]
    /\ UNCHANGED <<token, account, ctx, reply, session, code>>

\* The request that is out will do for this call too.  What it may tell of the
\* past begins with it; of one that is over it would be nothing.
Join(c) ==
    LET t == token[c] IN
    /\ step[c] = "new"
    /\ t # None
    /\ flight[t] # None
    /\ shares' = [shares EXCEPT ![c] = flight[t]]
    /\ step' = [step EXCEPT ![c] = "waiting"]
    /\ since' = [since EXCEPT ![c] =
           IF step[flight[t]] = "waiting" THEN since[flight[t]] ELSE {account[t]}]
    /\ UNCHANGED <<token, account, ctx, flight, reply, session, code>>

\* c's own request is out.
Asking(c) == step[c] = "waiting" /\ shares[c] = c

Reply(c, r) ==
    /\ Asking(c)
    /\ reply' = [reply EXCEPT ![c] = r]
    /\ UNCHANGED <<token, account, step, ctx, flight, shares, session, code, since>>

\* The auth service handles the request; its answer is on its way.
UserInfo(c) ==
    LET a == account[token[c]] IN
    /\ reply[c] = NoReply
    /\ Reply(c, IF a = Gone THEN [kind |-> "rejected"] ELSE [kind |-> "info", info |-> a])

ServiceFails(c) == reply[c] = NoReply /\ Reply(c, [kind |-> "unavailable"])

\* The client of the call that made the request has given up, and the request
\* with it, whoever else waits for it.
Cancelled(c) ==
    /\ ctx[c] = "ended"
    /\ reply[c].kind \in {"none", "info", "rejected"}
    /\ Reply(c, [kind |-> "cancelled"])

\* What a call goes on with once r has come.
Continue(c, r) ==
    \/ /\ r.kind = "info"
       /\ session' = [session EXCEPT ![c] = ConstructSessionFromUserInfo(r.info)]
       /\ step' = [step EXCEPT ![c] = "authorized"]
       /\ UNCHANGED code
    \/ /\ r.kind # "info"
       /\ Refuse(c, WithCause(InternalError, Plain))

\* Bug: the request stays in the group when it is over.
ReturnKept(c) ==
    /\ Asking(c)
    /\ reply[c] # NoReply
    /\ Continue(c, reply[c])
    /\ UNCHANGED <<token, account, ctx, flight, shares, reply, since>>

\* Group.Do returns to the call that made the request.
Return(c) ==
    /\ Asking(c)
    /\ reply[c] # NoReply
    /\ flight' = [flight EXCEPT ![token[c]] = None]
    /\ Continue(c, reply[c])
    /\ UNCHANGED <<token, account, ctx, shares, reply, since>>

\* Bug: a call whose client gives up does not wait for another's request.
ResumeOnGivingUp(c) ==
    /\ step[c] = "waiting"
    /\ shares[c] # c
    /\ step[shares[c]] # "waiting" \/ ctx[c] = "ended"
    /\ Continue(c, reply[shares[c]])
    /\ UNCHANGED <<token, account, ctx, flight, shares, reply, since>>

\* Bug: only an answer wakes those who wait for it.
ResumeWithAnswer(c) ==
    /\ step[c] = "waiting"
    /\ shares[c] # c
    /\ step[shares[c]] # "waiting"
    /\ reply[shares[c]].kind = "info"
    /\ Continue(c, reply[shares[c]])
    /\ UNCHANGED <<token, account, ctx, flight, shares, reply, since>>

\* Group.Do returns to a call that waited for another's request.
Resume(c) ==
    /\ step[c] = "waiting"
    /\ shares[c] # c
    /\ step[shares[c]] # "waiting"
    /\ Continue(c, reply[shares[c]])
    /\ UNCHANGED <<token, account, ctx, flight, shares, reply, since>>

-----------------------------------------------------------------------------
(* Validation and handler.                                                  *)

Local == UNCHANGED <<token, account, ctx, flight, shares, reply, session, since>>

ValidateUnaryServerInterceptor(c) ==
    /\ step[c] = "authorized"
    /\ \/ step' = [step EXCEPT ![c] = "valid"] /\ UNCHANGED code
       \/ Answer(c, Code(InternalError))
    /\ Local

\* The handlers' errors: status.Error and what the database and Redis return,
\* whose codes errors.Code does not know; and BadRequest.
HandlerErrors == {Plain, BadRequest}

Handle(c) ==
    /\ step[c] = "valid"
    /\ \/ Answer(c, "OK")
       \/ \E err \in HandlerErrors : Answer(c, Code(err))
    /\ Local

-----------------------------------------------------------------------------
(* The world outside.                                                       *)

\* A client that gives up later loses its answer, and nothing else here.
GiveUp(c) ==
    /\ ctx[c] = "live"
    /\ step[c] \in {"new", "waiting"}
    /\ ctx' = [ctx EXCEPT ![c] = "ended"]
    /\ UNCHANGED <<token, account, step, flight, shares, reply, session, code, since>>

ChangeAccount(t) ==
    /\ \E a \in Accounts(t) :
           /\ account' = [account EXCEPT ![t] = a]
           /\ since' = [c \in Calls |->
                  IF step[c] = "waiting" /\ token[c] = t
                  THEN since[c] \cup {a} ELSE since[c]]
    /\ UNCHANGED <<token, step, ctx, flight, shares, reply, session, code>>

ServerStep(c) ==
    \/ AuthorizeWithoutToken(c)
    \/ Ask(c)
    \/ Join(c)
    \/ Return(c)
    \/ Resume(c)
    \/ ValidateUnaryServerInterceptor(c)
    \/ Handle(c)

Next ==
    \/ \E c \in Calls :
           ServerStep(c) \/ UserInfo(c) \/ ServiceFails(c) \/ Cancelled(c) \/ GiveUp(c)
    \/ \E t \in Tokens : ChangeAccount(t)

Spec == Init /\ [][Next]_vars

\* The server's goroutines run, and the auth service answers or fails.
Fairness ==
    \A c \in Calls :
        /\ WF_vars(ServerStep(c))
        /\ WF_vars(UserInfo(c) \/ ServiceFails(c) \/ Cancelled(c))

FairSpec == Spec /\ Fairness

-----------------------------------------------------------------------------
(* Properties.                                                              *)

\* The accounts a session of call c may be made of.
Known(c) == since[c] \ {Gone}

\* A session is one of the call's own token, and not older than the request to
\* the auth service that was out when the call came, however many calls shared
\* it and whatever happened to the account meanwhile.  So once an account is
\* gone and the requests sent before are answered, no call gets a session.
SessionFresh ==
    \A c \in Calls : session[c] # None =>
        \E a \in Known(c) : session[c] = ConstructSessionFromUserInfo(a)

Refused(c) == step[c] = "done" /\ session[c] = None

\* A call that carries a token is refused only when the account was gone while
\* its request was out, when the auth service failed, or when the client of the
\* call that made the request gave up: neither the end of its own client nor
\* any earlier failure is a reason.
RefusalHasCause ==
    \A c \in Calls : Refused(c) /\ token[c] # None =>
        \/ Gone \in since[c]
        \/ reply[shares[c]].kind = "unavailable"
        \/ ctx[shares[c]] = "ended"

\* The client is told to authenticate exactly when its call got no session:
\* whatever the code of the error that the refusal was caused by, and whatever
\* goes wrong after the authorization.
UnauthenticatedMeansNoSession ==
    \A c \in Calls : code[c] = "Unauthenticated" <=> Refused(c)

\* The mode of a right and its letter in a scope's access.
ModeOf == [read |-> Read, write |-> Edit, add |-> Add, delete |-> Delete]
LetterOf == [read |-> "r", write |-> "w", add |-> "x", delete |-> "d"]

\* What an account says of a right to a class: there must be a scope, and where
\* it is controlled (OBAC) the right is in it or is a permission of the user.
Entitled(a, class, right) ==
    /\ a.scope[class] # None
    /\ a.scope[class].obac =>
           right \in a.permissions \/ LetterOf[right] \in a.scope[class].access

\* All that a session grants comes from one such account: alone or together
\* with Read, each right is granted if the account has it, and the records are
\* to be checked one by one (RBAC) unless the permission is the user's.
RightsOfAccount ==
    \A c \in Calls : session[c] # None =>
        \E a \in Known(c) : \A class \in Classes, right \in SuperPermissions :
            /\ CheckObacAccess(session[c], class, ModeOf[right]) <=> Entitled(a, class, right)
            /\ IsRbacCheckRequired(session[c], class, ModeOf[right]) <=>
                   /\ a.scope[class] # None
                   /\ a.scope[class].rbac
                   /\ right \notin a.permissions

\* Every call that has come is answered, also when the call whose request it
\* waits for is refused or given up.
CallsEnd == \A c \in Calls : <>(step[c] = "done")

=============================================================================
