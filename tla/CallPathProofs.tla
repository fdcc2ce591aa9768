--------------------------- MODULE CallPathProofs ---------------------------
(***************************************************************************)
(* Proofs about CallPath, for any calls, tokens, users and accounts.       *)
(***************************************************************************)
EXTENDS CallPath, TLAPS

-----------------------------------------------------------------------------
(* The inductive invariant.                                                 *)

\* A request in the group is the one that its call still waits for.
Flights ==
    \A t \in Tokens : flight[t] # None =>
        token[flight[t]] = t /\ step[flight[t]] = "waiting" /\ shares[flight[t]] = flight[t]

\* A call waits for the request of a call with its own token.
Sharing ==
    \A c \in Calls : step[c] = "waiting" =>
        /\ token[c] \in Tokens
        /\ shares[c] \in Calls
        /\ token[shares[c]] = token[c]
        /\ shares[shares[c]] = shares[c]
        /\ step[shares[c]] # "new"

\* When it waits no more the request is over, and stays so.
Answered ==
    \A c \in Calls : step[c] \in {"authorized", "valid", "done"} /\ token[c] # None =>
        shares[c] \in Calls /\ step[shares[c]] \notin {"new", "waiting"}

\* An answer fits the accounts S that the token had.
Fits(r, S) ==
    /\ r.kind = "info" => r.info \in S
    /\ r.kind = "rejected" => Gone \in S

\* What is known of a request while its call waits for it.
Replied ==
    \A c \in Calls :
        /\ step[c] = "new" => reply[c] = NoReply
        /\ Fits(reply[c], since[c])
        /\ reply[c].kind = "cancelled" => ctx[c] = "ended"

\* The history of a call that waits begins no later than its request's.
Since ==
    \A c \in Calls : step[c] = "waiting" =>
        /\ account[token[c]] \in since[c]
        /\ step[shares[c]] = "waiting" => since[shares[c]] \subseteq since[c]
        /\ step[shares[c]] # "waiting" =>
               reply[shares[c]] # NoReply /\ Fits(reply[shares[c]], since[c])

\* A call has a session from its authorization on, and a code at its end.
Stages ==
    \A c \in Calls :
        /\ step[c] \in {"new", "waiting"} => session[c] = None
        /\ step[c] \in {"authorized", "valid"} => session[c] # None
        /\ step[c] # "done" => code[c] = None

Links == Flights /\ Sharing /\ Answered
Histories == Replied /\ Since
Results ==
    /\ Stages
    /\ SessionFresh
    /\ RefusalHasCause
    /\ UnauthenticatedMeansNoSession

CallInv == TypeOK /\ Links /\ Histories /\ Results


-----------------------------------------------------------------------------
(* Codes and sessions.                                                      *)

\* Lemma: whatever caused it, a refusal has the code attached to it last.
LEMMA RefusalCode ==
    ASSUME NEW err
    PROVE  Code(WithCode(WithCause(Plain, err), "Unauthenticated")) = "Unauthenticated"
  BY DEF Code, WithCode, WithCause, Plain

\* Lemma: no other error of a call is taken for one of authorization.
LEMMA OtherCodes ==
    /\ Code(InternalError) = "Internal"
    /\ \A err \in HandlerErrors : Code(err) \in {"Internal", "InvalidArgument"}
  BY DEF Code, InternalError, HandlerErrors, BadRequest, WithCode, Plain

\* Lemma: the session made of an account is one.
LEMMA SessionMade ==
    ASSUME NEW a \in Grants
    PROVE  /\ ConstructSessionFromUserInfo(a) \in Sessions
           /\ ConstructSessionFromUserInfo(a) # None
  BY GrantsAssumption, MarkersAssumption DEF Sessions

\* Lemma: what Continue does to a call, in either case.
LEMMA Continues ==
    ASSUME NEW c \in Calls, NEW r \in Replies, TypeOK, Continue(c, r)
    PROVE  \/ /\ r.kind = "info"
              /\ r.info \in Grants
              /\ session' = [session EXCEPT ![c] = ConstructSessionFromUserInfo(r.info)]
              /\ step' = [step EXCEPT ![c] = "authorized"]
              /\ code' = code
           \/ /\ r.kind # "info"
              /\ session' = session
              /\ step' = [step EXCEPT ![c] = "done"]
              /\ code' = [code EXCEPT ![c] = "Unauthenticated"]
  BY RefusalCode DEF Continue, Refuse, Answer, Replies

-----------------------------------------------------------------------------
(* Types.                                                                   *)

\* Lemma: what may come of a request, as one kind of step.
LEMMA RequestStep ==
    ASSUME NEW c \in Calls, TypeOK, Sharing, UserInfo(c) \/ ServiceFails(c) \/ Cancelled(c)
    PROVE  \E r \in Replies :
               /\ Reply(c, r)
               /\ r # NoReply
               /\ r.kind = "info" => r.info = account[token[c]]
               /\ r.kind = "rejected" => account[token[c]] = Gone
               /\ r.kind = "cancelled" => ctx[c] = "ended"
  <1>1. CASE UserInfo(c)
    <2>1. account[token[c]] \in Grants \cup {Gone}
      BY <1>1 DEF UserInfo, Reply, Asking, TypeOK, Sharing
    <2>2. CASE account[token[c]] = Gone
      BY <1>1, <2>2 DEF UserInfo, Replies, NoReply
    <2>3. CASE account[token[c]] # Gone
      BY <1>1, <2>1, <2>3 DEF UserInfo, Replies, NoReply
    <2>4. QED
      BY <2>2, <2>3
  <1>2. CASE ServiceFails(c)
    BY <1>2 DEF ServiceFails, Replies, NoReply
  <1>3. CASE Cancelled(c)
    BY <1>3 DEF Cancelled, Replies, NoReply
  <1>4. QED
    BY <1>1, <1>2, <1>3

\* Lemma: every step keeps the types.
LEMMA CallTypes ==
    ASSUME TypeOK, Sharing, [Next]_vars
    PROVE  TypeOK'
  <1>1. CASE UNCHANGED vars
    BY <1>1 DEF vars, TypeOK
  <1>2. ASSUME NEW c \in Calls, AuthorizeWithoutToken(c) PROVE TypeOK'
    BY <1>2, RefusalCode DEF TypeOK, AuthorizeWithoutToken, Refuse, Answer, Steps, Codes
  <1>3. ASSUME NEW c \in Calls, Ask(c) PROVE TypeOK'
    BY <1>3 DEF TypeOK, Ask, Steps
  <1>4. ASSUME NEW c \in Calls, Join(c) PROVE TypeOK'
    BY <1>4 DEF TypeOK, Join, Steps
  <1>5. ASSUME NEW c \in Calls, NEW r \in Replies, Continue(c, r),
               UNCHANGED <<token, account, ctx, shares, reply, since>>,
               flight' \in [Tokens -> Calls \cup {None}]
        PROVE  TypeOK'
    <2>1. step' \in [Calls -> Steps] /\ code' \in [Calls -> Codes \cup {None}]
      BY <1>5, Continues DEF TypeOK, Steps, Codes
    <2>2. session' \in [Calls -> Sessions \cup {None}]
      BY <1>5, Continues, SessionMade DEF TypeOK
    <2>3. QED
      BY <1>5, <2>1, <2>2 DEF TypeOK
  <1>6. ASSUME NEW c \in Calls, Return(c) PROVE TypeOK'
    BY <1>5, <1>6 DEF TypeOK, Return
  <1>7. ASSUME NEW c \in Calls, Resume(c) PROVE TypeOK'
    BY <1>5, <1>7 DEF TypeOK, Resume, Sharing
  <1>8. ASSUME NEW c \in Calls, ValidateUnaryServerInterceptor(c) PROVE TypeOK'
    BY <1>8, OtherCodes DEF TypeOK, ValidateUnaryServerInterceptor, Local, Answer, Steps, Codes
  <1>9. ASSUME NEW c \in Calls, Handle(c) PROVE TypeOK'
    BY <1>9, OtherCodes DEF TypeOK, Handle, Local, Answer, Steps, Codes
  <1>10. ASSUME NEW c \in Calls, UserInfo(c) \/ ServiceFails(c) \/ Cancelled(c) PROVE TypeOK'
    BY <1>10, RequestStep DEF TypeOK, Reply
  <1>11. ASSUME NEW c \in Calls, GiveUp(c) PROVE TypeOK'
    BY <1>11 DEF TypeOK, GiveUp
  <1>12. ASSUME NEW t \in Tokens, ChangeAccount(t) PROVE TypeOK'
    BY <1>12 DEF TypeOK, ChangeAccount, Accounts
  <1>13. QED
    BY <1>1, <1>2, <1>3, <1>4, <1>6, <1>7, <1>8, <1>9, <1>10, <1>11, <1>12
       DEF Next, ServerStep

-----------------------------------------------------------------------------
(* Who waits for whom.                                                      *)

\* Lemma: every step keeps the calls at their requests.
LEMMA LinksStep ==
    ASSUME TypeOK, Links, [Next]_vars
    PROVE  Links'
  <1> USE MarkersAssumption DEF TypeOK, Links, Flights, Sharing, Answered
  <1>1. CASE UNCHANGED vars
    BY <1>1 DEF vars
  <1>2. ASSUME NEW c \in Calls, AuthorizeWithoutToken(c) PROVE Links'
    BY <1>2 DEF AuthorizeWithoutToken, Refuse, Answer
  <1>3. ASSUME NEW c \in Calls, Ask(c) PROVE Links'
    <2>1. Flights'
      BY <1>3 DEF Ask
    <2>2. Sharing'
      BY <1>3 DEF Ask
    <2>3. Answered'
      BY <1>3 DEF Ask
    <2>4. QED
      BY <2>1, <2>2, <2>3
  <1>4. ASSUME NEW c \in Calls, Join(c) PROVE Links'
    <2>1. Flights'
      BY <1>4 DEF Join
    <2>2. Sharing'
      BY <1>4 DEF Join
    <2>3. Answered'
      BY <1>4 DEF Join
    <2>4. QED
      BY <2>1, <2>2, <2>3
  <1>5. ASSUME NEW c \in Calls, NEW r \in Replies, Continue(c, r),
               step[c] = "waiting", UNCHANGED <<token, shares>>
        PROVE  /\ Sharing'
               /\ shares[c] = c \/ step[shares[c]] # "waiting" => Answered'
    BY <1>5, Continues
  <1>6. ASSUME NEW c \in Calls, Return(c) PROVE Links'
    <2>1. Flights'
      BY <1>6, Continues DEF Return, Asking
    <2>2. QED
      BY <1>5, <1>6, <2>1 DEF Return, Asking
  <1>7. ASSUME NEW c \in Calls, Resume(c) PROVE Links'
    <2>1. Flights'
      BY <1>7, Continues DEF Resume
    <2>2. QED
      BY <1>5, <1>7, <2>1 DEF Resume
  <1>8. ASSUME NEW c \in Calls, ValidateUnaryServerInterceptor(c) PROVE Links'
    BY <1>8 DEF ValidateUnaryServerInterceptor, Local, Answer
  <1>9. ASSUME NEW c \in Calls, Handle(c) PROVE Links'
    BY <1>9 DEF Handle, Local, Answer
  <1>10. ASSUME NEW c \in Calls, UserInfo(c) \/ ServiceFails(c) \/ Cancelled(c) PROVE Links'
    BY <1>10, RequestStep DEF Reply
  <1>11. ASSUME NEW c \in Calls, GiveUp(c) PROVE Links'
    BY <1>11 DEF GiveUp
  <1>12. ASSUME NEW t \in Tokens, ChangeAccount(t) PROVE Links'
    BY <1>12 DEF ChangeAccount
  <1>13. QED
    BY <1>1, <1>2, <1>3, <1>4, <1>6, <1>7, <1>8, <1>9, <1>10, <1>11, <1>12
       DEF Next, ServerStep

-----------------------------------------------------------------------------
(* What the answers may tell.                                               *)

\* Lemma: every step keeps the answers within the history of those that wait
\* for them.
LEMMA HistoriesStep ==
    ASSUME TypeOK, Links, Histories, [Next]_vars
    PROVE  Histories'
  <1> USE MarkersAssumption DEF TypeOK, Links, Flights, Sharing, Answered,
                                Histories, Replied, Since, Fits
  <1>1. CASE UNCHANGED vars
    BY <1>1 DEF vars
  <1>2. ASSUME NEW c \in Calls, AuthorizeWithoutToken(c) PROVE Histories'
    BY <1>2 DEF AuthorizeWithoutToken, Refuse, Answer
  <1>3. ASSUME NEW c \in Calls, Ask(c) PROVE Histories'
    <2>1. Replied'
      BY <1>3 DEF Ask, NoReply
    <2>2. Since'
      BY <1>3 DEF Ask
    <2>3. QED
      BY <2>1, <2>2
  <1>4. ASSUME NEW c \in Calls, Join(c) PROVE Histories'
    <2>1. Replied'
      BY <1>4 DEF Join, NoReply
    <2>2. Since'
      BY <1>4 DEF Join
    <2>3. QED
      BY <2>1, <2>2
  <1>5. ASSUME NEW c \in Calls, NEW r \in Replies, Continue(c, r), r # NoReply,
               step[c] = "waiting", shares[c] = c => r = reply[c],
               UNCHANGED <<token, account, ctx, shares, reply, since>>
        PROVE  Histories'
    <2>1. Replied'
      BY <1>5, Continues
    <2>2. Since'
      <3> SUFFICES ASSUME NEW d \in Calls, step'[d] = "waiting"
                   PROVE  /\ account'[token'[d]] \in since'[d]
                          /\ step'[shares'[d]] = "waiting" =>
                                 since'[shares'[d]] \subseteq since'[d]
                          /\ step'[shares'[d]] # "waiting" =>
                                 /\ reply'[shares'[d]] # NoReply
                                 /\ Fits(reply'[shares'[d]], since'[d])
        OBVIOUS
      <3>1. step[d] = "waiting" /\ shares[d] \in Calls
        BY <1>5, Continues
      <3>2. CASE shares[d] = c
        BY <1>5, <3>1, <3>2, Continues
      <3>3. CASE shares[d] # c
        BY <1>5, <3>1, <3>3, Continues
      <3>4. QED
        BY <3>2, <3>3
    <2>3. QED
      BY <2>1, <2>2
  <1>6. ASSUME NEW c \in Calls, Return(c) PROVE Histories'
    BY <1>5, <1>6 DEF Return, Asking
  <1>7. ASSUME NEW c \in Calls, Resume(c) PROVE Histories'
    BY <1>5, <1>7 DEF Resume
  <1>8. ASSUME NEW c \in Calls, ValidateUnaryServerInterceptor(c) PROVE Histories'
    BY <1>8 DEF ValidateUnaryServerInterceptor, Local, Answer
  <1>9. ASSUME NEW c \in Calls, Handle(c) PROVE Histories'
    BY <1>9 DEF Handle, Local, Answer
  <1>10. ASSUME NEW c \in Calls, UserInfo(c) \/ ServiceFails(c) \/ Cancelled(c)
         PROVE  Histories'
    <2>1. PICK r \in Replies :
               /\ Reply(c, r)
               /\ r # NoReply
               /\ r.kind = "info" => r.info = account[token[c]]
               /\ r.kind = "rejected" => account[token[c]] = Gone
               /\ r.kind = "cancelled" => ctx[c] = "ended"
      BY <1>10, RequestStep
    <2>2. Fits(r, since[c])
      BY <2>1 DEF Reply, Asking
    <2>3. Replied'
      BY <2>1, <2>2 DEF Reply, Asking
    <2>4. Since'
      BY <2>1 DEF Reply, Asking
    <2>5. QED
      BY <2>3, <2>4
  <1>11. ASSUME NEW c \in Calls, GiveUp(c) PROVE Histories'
    BY <1>11 DEF GiveUp
  <1>12. ASSUME NEW t \in Tokens, ChangeAccount(t) PROVE Histories'
    <2>1. \A d \in Calls : since[d] \subseteq since'[d]
      BY <1>12 DEF ChangeAccount
    <2>2. Replied'
      BY <1>12, <2>1 DEF ChangeAccount
    <2>3. Since'
      <3> SUFFICES ASSUME NEW d \in Calls, step[d] = "waiting"
                   PROVE  /\ account'[token[d]] \in since'[d]
                          /\ step[shares[d]] = "waiting" =>
                                 since'[shares[d]] \subseteq since'[d]
                          /\ step[shares[d]] # "waiting" =>
                                 /\ reply[shares[d]] # NoReply
                                 /\ Fits(reply[shares[d]], since'[d])
        BY <1>12 DEF ChangeAccount
      <3>1. account'[token[d]] \in since'[d]
        BY <1>12 DEF ChangeAccount
      <3>2. step[shares[d]] = "waiting" => since'[shares[d]] \subseteq since'[d]
        BY <1>12 DEF ChangeAccount
      <3>3. QED
        BY <2>1, <3>1, <3>2
    <2>4. QED
      BY <2>2, <2>3
  <1>13. QED
    BY <1>1, <1>2, <1>3, <1>4, <1>6, <1>7, <1>8, <1>9, <1>10, <1>11, <1>12
       DEF Next, ServerStep

-----------------------------------------------------------------------------
(* What the calls end with.                                                 *)

\* Lemma: every step keeps sessions, refusals and codes in agreement.
LEMMA ResultsStep ==
    ASSUME TypeOK, Links, Histories, Results, [Next]_vars
    PROVE  Results'
  <1> USE MarkersAssumption
      DEF TypeOK, Links, Sharing, Answered, Histories, Replied, Since, Fits,
          Results, Stages, SessionFresh, RefusalHasCause,
          UnauthenticatedMeansNoSession, Refused, Known
  <1>1. CASE UNCHANGED vars
    BY <1>1 DEF vars
  <1>2. ASSUME NEW c \in Calls, AuthorizeWithoutToken(c) PROVE Results'
    BY <1>2, RefusalCode DEF AuthorizeWithoutToken, Refuse, Answer
  <1>3. ASSUME NEW c \in Calls, Ask(c) PROVE Results'
    BY <1>3 DEF Ask
  <1>4. ASSUME NEW c \in Calls, Join(c) PROVE Results'
    BY <1>4 DEF Join
  <1>5. ASSUME NEW c \in Calls, NEW r \in Replies, Continue(c, r), r # NoReply,
               step[c] = "waiting", r = reply[shares[c]], Fits(r, since[c]),
               r.kind = "cancelled" => ctx[shares[c]] = "ended",
               UNCHANGED <<token, account, ctx, shares, reply, since>>
        PROVE  Results'
    <2>1. CASE r.kind = "info"
      <3>1. /\ session' = [session EXCEPT ![c] = ConstructSessionFromUserInfo(r.info)]
            /\ step' = [step EXCEPT ![c] = "authorized"]
            /\ code' = code
            /\ r.info \in Known(c)
        BY <1>5, <2>1, Continues, GrantsAssumption
      <3>2. ConstructSessionFromUserInfo(r.info) # None
        BY <1>5, <2>1, Continues, SessionMade
      <3>3. Stages' /\ SessionFresh'
        BY <1>5, <3>1, <3>2
      <3>4. RefusalHasCause' /\ UnauthenticatedMeansNoSession'
        BY <1>5, <3>1, <3>2
      <3>5. QED
        BY <3>3, <3>4
    <2>2. CASE r.kind # "info"
      <3>1. /\ session' = session
            /\ step' = [step EXCEPT ![c] = "done"]
            /\ code' = [code EXCEPT ![c] = "Unauthenticated"]
        BY <1>5, <2>2, Continues
      <3>2. r.kind \in {"rejected", "unavailable", "cancelled"}
        BY <1>5, <2>2 DEF Replies, NoReply
      <3>3. Stages' /\ SessionFresh'
        BY <1>5, <3>1
      <3>4. RefusalHasCause' /\ UnauthenticatedMeansNoSession'
        BY <1>5, <3>1, <3>2
      <3>5. QED
        BY <3>3, <3>4
    <2>3. QED
      BY <2>1, <2>2
  <1>6. ASSUME NEW c \in Calls, Return(c) PROVE Results'
    BY <1>5, <1>6 DEF Return, Asking
  <1>7. ASSUME NEW c \in Calls, Resume(c) PROVE Results'
    BY <1>5, <1>7 DEF Resume
  <1>8. ASSUME NEW c \in Calls, ValidateUnaryServerInterceptor(c) PROVE Results'
    BY <1>8, OtherCodes DEF ValidateUnaryServerInterceptor, Local, Answer
  <1>9. ASSUME NEW c \in Calls, Handle(c) PROVE Results'
    BY <1>9, OtherCodes DEF Handle, Local, Answer
  <1>10. ASSUME NEW c \in Calls, UserInfo(c) \/ ServiceFails(c) \/ Cancelled(c)
         PROVE  Results'
    <2>1. PICK r \in Replies : Reply(c, r)
      BY <1>10, RequestStep
    <2>2. \A d \in Calls : Refused(d) /\ token[d] # None =>
              shares[d] \in Calls /\ reply'[shares[d]] = reply[shares[d]]
      BY <2>1 DEF Reply, Asking
    <2>3. QED
      BY <2>1, <2>2 DEF Reply
  <1>11. ASSUME NEW c \in Calls, GiveUp(c) PROVE Results'
    BY <1>11 DEF GiveUp
  <1>12. ASSUME NEW t \in Tokens, ChangeAccount(t) PROVE Results'
    <2>1. \A d \in Calls : since[d] \subseteq since'[d]
      BY <1>12 DEF ChangeAccount
    <2>2. QED
      BY <1>12, <2>1 DEF ChangeAccount
  <1>13. QED
    BY <1>1, <1>2, <1>3, <1>4, <1>6, <1>7, <1>8, <1>9, <1>10, <1>11, <1>12
       DEF Next, ServerStep

\* Lemma: the invariant holds of every behaviour.
LEMMA CallInvariant == Spec => []CallInv
  <1>1. Init => CallInv
    <2> SUFFICES ASSUME Init PROVE CallInv
      OBVIOUS
    <2>1. TypeOK
      BY DEF Init, TypeOK, Steps, Replies, NoReply
    <2>2. Links
      BY DEF Init, Links, Flights, Sharing, Answered
    <2>3. Histories
      BY DEF Init, Histories, Replied, Since, Fits, NoReply
    <2>4. Results
      BY MarkersAssumption
         DEF Init, Results, Stages, SessionFresh, RefusalHasCause,
             UnauthenticatedMeansNoSession, Refused, Codes
    <2>5. QED
      BY <2>1, <2>2, <2>3, <2>4 DEF CallInv
  <1>2. CallInv /\ [Next]_vars => CallInv'
    BY CallTypes, LinksStep, HistoriesStep, ResultsStep DEF CallInv, Links
  <1>3. QED
    BY <1>1, <1>2, PTL DEF Spec

-----------------------------------------------------------------------------
(* The theorems.                                                            *)

\* Every variable keeps its type.
THEOREM CallTypeCorrect == Spec => []TypeOK
  <1>1. CallInv => TypeOK
    BY DEF CallInv
  <1>2. QED
    BY <1>1, CallInvariant, PTL

\* A session is made of what the call's own account was while the request that
\* it shared was out.
THEOREM SessionsAreFresh == Spec => []SessionFresh
  <1>1. CallInv => SessionFresh
    BY DEF CallInv, Results
  <1>2. QED
    BY <1>1, CallInvariant, PTL

\* No call with a token is refused without one of three reasons.
THEOREM RefusalsHaveCause == Spec => []RefusalHasCause
  <1>1. CallInv => RefusalHasCause
    BY DEF CallInv, Results
  <1>2. QED
    BY <1>1, CallInvariant, PTL

\* Clients are told to authenticate exactly when they got no session.
THEOREM UnauthenticatedIsTold == Spec => []UnauthenticatedMeansNoSession
  <1>1. CallInv => UnauthenticatedMeansNoSession
    BY DEF CallInv, Results
  <1>2. QED
    BY <1>1, CallInvariant, PTL

\* Lemma: a session grants what the account it is made of says.
LEMMA GrantsOfSession ==
    ASSUME NEW a \in Userinfo, NEW class \in Classes, NEW right \in SuperPermissions
    PROVE  LET s == ConstructSessionFromUserInfo(a)
           IN /\ CheckObacAccess(s, class, ModeOf[right]) <=> Entitled(a, class, right)
              /\ IsRbacCheckRequired(s, class, ModeOf[right]) <=>
                     /\ a.scope[class] # None
                     /\ a.scope[class].rbac
                     /\ right \notin a.permissions
  <1> DEFINE s == ConstructSessionFromUserInfo(a)
             mode == ModeOf[right]
  <1>1. Requires(mode) = {LetterOf[right]}
    BY DEF SuperPermissions, ModeOf, LetterOf, Requires, Delete, Edit, Read, Add
  <1>2. Bypasses(s, mode) <=> right \in a.permissions
    <2>1. /\ s.SuperSelect = ("read" \in a.permissions)
          /\ s.SuperEdit = ("write" \in a.permissions)
          /\ s.SuperCreate = ("add" \in a.permissions)
          /\ s.SuperDelete = ("delete" \in a.permissions)
      BY DEF ConstructSessionFromUserInfo
    <2> HIDE DEF s
    <2>2. /\ mode \in {1, 2, 4, 8}
          /\ mode = 4 <=> right = "read"
          /\ mode = 2 <=> right = "write"
          /\ mode = 8 <=> right = "add"
          /\ mode = 1 <=> right = "delete"
      BY DEF SuperPermissions, ModeOf, Delete, Edit, Read, Add
    <2> HIDE DEF mode
    <2>3. /\ mode \in {Delete, Read + Delete} <=> right = "delete"
          /\ mode \in {Edit, Read + Edit} <=> right = "write"
          /\ mode \in {Read, 0} <=> right = "read"
          /\ mode \in {Add, Read + Add} <=> right = "add"
      BY <2>2, SMT DEF Delete, Edit, Read, Add
    <2>4. Bypasses(s, mode) <=> \/ right = "delete" /\ s.SuperDelete
                                \/ right = "write" /\ s.SuperEdit
                                \/ right = "read" /\ s.SuperSelect
                                \/ right = "add" /\ s.SuperCreate
      BY <2>3, Zenon DEF Bypasses
    <2>5. right \in {"read", "write", "add", "delete"}
      BY DEF SuperPermissions
    <2>6. QED
      BY <2>1, <2>4, <2>5, Zenon
  <1>3. s.Scopes = a.scope
    BY DEF ConstructSessionFromUserInfo
  <1> HIDE DEF s, mode
  <1>4. CheckObacAccess(s, class, mode) <=> Entitled(a, class, right)
    BY <1>1, <1>2, <1>3 DEF CheckObacAccess, Entitled
  <1>5. IsRbacCheckRequired(s, class, mode) <=>
            a.scope[class] # None /\ a.scope[class].rbac /\ right \notin a.permissions
    BY <1>2, <1>3 DEF IsRbacCheckRequired
  <1>6. QED
    BY <1>4, <1>5 DEF s, mode

\* Sessions grant the rights of one account that the token had meanwhile.
THEOREM SessionsGrantAccounts == Spec => []RightsOfAccount
  <1>1. CallInv => RightsOfAccount
    <2> SUFFICES ASSUME CallInv, NEW c \in Calls, session[c] # None
                 PROVE  \E a \in Known(c) :
                            /\ a \in Userinfo
                            /\ session[c] = ConstructSessionFromUserInfo(a)
      BY GrantsOfSession DEF RightsOfAccount
    <2>1. Known(c) \subseteq Userinfo
      BY GrantsAssumption DEF CallInv, TypeOK, Known
    <2>2. QED
      BY <2>1 DEF CallInv, Results, SessionFresh
  <1>2. QED
    BY <1>1, CallInvariant, PTL

=============================================================================
