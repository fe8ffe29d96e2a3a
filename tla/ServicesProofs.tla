---------------------------- MODULE ServicesProofs ----------------------------
(***************************************************************************)
(* The middleware chain and the comments, proved: no write gets past a     *)
(* gate and no audit entry is false, whatever the handlers answer; and the *)
(* owner checked on an earlier read of a comment is still the owner when   *)
(* it is deleted, because an id is never given to a second comment.        *)
(***************************************************************************)
EXTENDS Services, Sequences, TLAPS

-----------------------------------------------------------------------------
(* The chain of a request.                                                 *)

\* The gates a request has passed, and what each of them has found.
GatesPassed(s) ==
    \/ s.ahead = s.route.gates /\ s.user = None
    \/ s.route.gates = <<"limit">> /\ s.ahead = <<>> /\ s.user = None
    \/ /\ s.route.gates = <<"auth">>
       /\ s.caller # None /\ s.user = s.caller
       /\ s.ahead = <<>>
    \/ /\ s.route.gates = <<"auth", "role">>
       /\ s.caller # None /\ s.user = s.caller
       /\ \/ s.ahead = <<"role">>
          \/ s.ahead = <<>> /\ Role[s.caller] \in s.route.roles

\* A handler is reached only when all gates are behind its request, one that did
\* what it was asked for wrote what there is to write, and a request on its way
\* back with success has been through such a handler.
InHand(s, did, wrote) ==
    /\ s \in P!Context
    /\ GatesPassed(s)
    /\ s.phase = "gates" => s.status = 200 /\ ~did /\ ~wrote
    /\ did \/ wrote => s.ahead = <<>>
    /\ did => "nothing" \in s.route.commits \/ wrote
    /\ s.phase = "back" /\ s.status < 400 => did

\* An entry is of a request that was handled and is recorded, by its user.
EntryFits(e, s) == s.route.recorded /\ e.operator = s.user

PInv ==
    /\ DOMAIN served = Requests
    /\ done \subseteq Requests /\ effects \subseteq Requests
    /\ \A r \in Requests :
         /\ served[r] = None => r \notin done /\ r \notin effects
         /\ served[r] # None => InHand(served[r], r \in done, r \in effects)
    /\ \A e \in entries : e.of \in done /\ EntryFits(e, served[e.of])

\* What the routers put in front of a handler.
LEMMA RouteFacts ==
  ASSUME NEW route \in P!Routes
  PROVE  /\ route.gates \in {<<>>, <<"limit">>, <<"auth">>, <<"auth", "role">>}
         /\ route.gates # <<"auth", "role">> => route.roles = P!Roles
         /\ route.commits \subseteq {"write", "nothing"}
  BY DEF P!Routes, P!Route

LEMMA GateSequences ==
  /\ Tail(<<"limit">>) = <<>> /\ Head(<<"limit">>) = "limit"
  /\ Tail(<<"auth">>) = <<>> /\ Head(<<"auth">>) = "auth"
  /\ Tail(<<"role">>) = <<>> /\ Head(<<"role">>) = "role"
  /\ Tail(<<"auth", "role">>) = <<"role">> /\ Head(<<"auth", "role">>) = "auth"
  /\ <<"limit">> # <<>> /\ <<"auth">> # <<>> /\ <<"role">> # <<>> /\ <<"auth", "role">> # <<>>
  OBVIOUS

\* Every step of one request: it is still in hand, and nobody else's is touched.
LEMMA OneRequest ==
  ASSUME PInv, NEW r \in Requests, NEW s, s # None,
         served' = [served EXCEPT ![r] = s],
         done' = done \/ done' = done \cup {r},
         effects' = effects \/ effects' = effects \cup {r},
         InHand(s, r \in done', r \in effects'),
         r \in done => s.user = served[r].user /\ s.route = served[r].route,
         \A e \in entries' \ entries : e.of = r /\ r \in done' /\ EntryFits(e, s)
  PROVE  PInv'
<1>1. /\ DOMAIN served' = Requests
      /\ done' \subseteq Requests /\ done \subseteq done'
      /\ effects' \subseteq Requests
  BY DEF PInv
<1>2. ASSUME NEW q \in Requests
      PROVE  /\ served'[q] = None => q \notin done' /\ q \notin effects'
             /\ served'[q] # None => InHand(served'[q], q \in done', q \in effects')
  <2>1. CASE q = r
    BY <2>1 DEF PInv
  <2>2. CASE q # r
    <3>1. served'[q] = served[q] /\ (q \in done' <=> q \in done) /\ (q \in effects' <=> q \in effects)
      BY <2>2 DEF PInv
    <3> QED
      BY <3>1 DEF PInv, InHand
  <2> QED
    BY <2>1, <2>2
<1>3. ASSUME NEW e \in entries'
      PROVE  e.of \in done' /\ EntryFits(e, served'[e.of])
  <2>1. CASE e \in entries
    <3>1. e.of \in done /\ EntryFits(e, served[e.of]) /\ e.of \in Requests
      BY <2>1 DEF PInv
    <3>2. served'[e.of].user = served[e.of].user /\ served'[e.of].route = served[e.of].route
      BY <3>1 DEF PInv
    <3> QED
      BY <1>1, <3>1, <3>2 DEF EntryFits
  <2>2. CASE e \notin entries
    BY <2>2 DEF PInv
  <2> QED
    BY <2>1, <2>2
<1> QED
  BY <1>1, <1>2, <1>3 DEF PInv, InHand, GatesPassed, EntryFits

LEMMA ArriveStep ==
  ASSUME PInv, NEW r \in Requests, NEW route \in P!Routes, NEW caller \in P!Callers,
         P!Arrive(r, route, caller)
  PROVE  PInv'
<1> DEFINE s == [route |-> route, caller |-> caller, user |-> None, ahead |-> route.gates,
                 status |-> 200, phase |-> "gates"]
<1>1. /\ served' = [served EXCEPT ![r] = s] /\ UNCHANGED <<done, effects, entries>>
      /\ r \notin done /\ r \notin effects
  BY DEF P!Arrive, PInv
<1>2. /\ route.gates \in P!Chains /\ None \in P!Callers
      /\ 200 \in P!Statuses /\ "gates" \in P!Phases
  BY RouteFacts DEF P!Chains, P!Callers, P!Statuses, P!Phases
<1>3. s \in P!Context
  BY <1>2 DEF P!Context
<1>4. InHand(s, r \in done', r \in effects')
  BY <1>1, <1>3 DEF InHand, GatesPassed
<1>5. s # None
  BY <1>3, NoContextAssumption
<1> QED
  BY <1>1, <1>4, <1>5, OneRequest

\* A gate lets the request on.
LEMMA PassStep ==
  ASSUME PInv, NEW r \in Requests, NEW gate, NEW user \in P!Callers,
         P!AtGate(r, gate), P!Pass(r, user), UNCHANGED <<done, effects, entries>>,
         gate = "limit" => user = None,
         gate # "limit" => user = served[r].caller /\ user # None,
         gate = "role" => Role[user] \in served[r].route.roles
  PROVE  PInv'
<1> DEFINE c == served[r]
           ahead == Tail(c.ahead)
           s == [[c EXCEPT !.ahead = ahead] EXCEPT !.user = user]
<1>1. /\ c # None /\ c \in P!Context /\ GatesPassed(c) /\ c.phase = "gates"
      /\ c.status = 200 /\ r \notin done /\ r \notin effects /\ c.ahead # <<>> /\ Head(c.ahead) = gate
  BY DEF P!AtGate, P!Under, PInv, InHand
<1>2. served' = [served EXCEPT ![r] = s]
  BY DEF P!Pass, PInv
<1>3. c.ahead \in P!Chains /\ c.route \in P!Routes
  BY <1>1 DEF P!Context
<1>4. ahead \in P!Chains
  BY <1>1, <1>3, GateSequences DEF P!Chains
<1> HIDE DEF ahead
<1>5. s \in P!Context
  BY <1>1, <1>4 DEF P!Context
<1>6. /\ s.route = c.route /\ s.caller = c.caller /\ s.user = user /\ s.ahead = ahead
      /\ s.status = c.status /\ s.phase = c.phase
  BY <1>1, <1>4 DEF P!Context
<1> HIDE DEF s
<1>7. GatesPassed(s)
  <2>1. CASE c.route.gates = <<"limit">>
    BY <1>1, <1>6, <2>1, GateSequences DEF GatesPassed, ahead
  <2>2. CASE c.route.gates = <<"auth">>
    BY <1>1, <1>6, <2>2, GateSequences DEF GatesPassed, ahead
  <2>3. CASE c.route.gates = <<"auth", "role">> /\ c.ahead = <<"auth", "role">>
    BY <1>1, <1>6, <2>3, GateSequences DEF GatesPassed, ahead
  <2>4. CASE c.route.gates = <<"auth", "role">> /\ c.ahead = <<"role">>
    BY <1>1, <1>6, <2>4, GateSequences DEF GatesPassed, ahead
  <2>5. c.route.gates = <<"auth", "role">> => c.ahead \in {<<"auth", "role">>, <<"role">>}
    BY <1>1 DEF GatesPassed
  <2>6. c.route.gates # <<>>
    BY <1>1 DEF GatesPassed
  <2> QED
    BY <1>3, <2>1, <2>2, <2>3, <2>4, <2>5, <2>6, RouteFacts
<1>8. InHand(s, r \in done', r \in effects')
  BY <1>1, <1>5, <1>6, <1>7 DEF InHand
<1>9. s # None
  BY <1>5, NoContextAssumption
<1> QED
  BY <1>1, <1>2, <1>8, <1>9, OneRequest

\* The way back, with or without a write.
LEMMA BackStep ==
  ASSUME PInv, NEW r \in Requests, NEW status \in P!Statuses, NEW phase \in {"back", "answered"},
         served[r] # None,
         served' = [served EXCEPT ![r] = [[served[r] EXCEPT !.status = status] EXCEPT !.phase = phase]],
         done' = done \/ done' = done \cup {r},
         effects' = effects \/ effects' = effects \cup {r},
         done' # done \/ effects' # effects => served[r].ahead = <<>>,
         r \in done' => "nothing" \in served[r].route.commits \/ r \in effects',
         phase = "back" /\ status < 400 => r \in done',
         \A e \in entries' \ entries : e.of = r /\ r \in done' /\ EntryFits(e, served[r])
  PROVE  PInv'
<1> DEFINE c == served[r]
           s == [[c EXCEPT !.status = status] EXCEPT !.phase = phase]
<1>1. c \in P!Context /\ GatesPassed(c) /\ (r \in done \/ r \in effects => c.ahead = <<>>)
  BY DEF PInv, InHand
<1>2. phase \in P!Phases
  BY DEF P!Phases
<1>3. s \in P!Context
  BY <1>1, <1>2 DEF P!Context
<1>4. /\ s.route = c.route /\ s.caller = c.caller /\ s.user = c.user /\ s.ahead = c.ahead
      /\ s.status = status /\ s.phase = phase
  BY <1>1, <1>2 DEF P!Context
<1>5. s # None
  BY <1>3, NoContextAssumption
<1>6. served' = [served EXCEPT ![r] = s]
  OBVIOUS
<1> HIDE DEF s
<1>7. InHand(s, r \in done', r \in effects')
  BY <1>1, <1>3, <1>4 DEF InHand, GatesPassed
<1>8. \A e \in entries' \ entries : e.of = r /\ r \in done' /\ EntryFits(e, s)
  BY <1>4 DEF EntryFits
<1>9. s.user = served[r].user /\ s.route = served[r].route
  BY <1>4
<1> QED
  BY <1>5, <1>6, <1>7, <1>8, <1>9, OneRequest

LEMMA AbortStep ==
  ASSUME PInv, NEW r \in Requests, NEW status \in P!Statuses, P!Under(r, "gates"),
         P!Abort(r, status), status >= 400, UNCHANGED <<done, entries>>,
         \/ UNCHANGED effects
         \/ served[r].ahead = <<>> /\ effects' = effects \cup {r}
  PROVE  PInv'
<1>1. served' = [served EXCEPT ![r] = [[served[r] EXCEPT !.status = status] EXCEPT !.phase = "back"]]
  BY DEF P!Abort, PInv
<1>2. ~(status < 400) /\ served[r] # None /\ r \notin done
  BY DEF P!Statuses, P!Under, PInv, InHand
<1> QED
  BY <1>1, <1>2, BackStep

LEMMA GateStep ==
  ASSUME PInv, NEW r \in Requests, P!Limit(r) \/ P!AuthRequired(r) \/ P!RequireRole(r)
  PROVE  PInv'
<1>1. {401, 403, 429} \subseteq P!Statuses /\ None \in P!Callers
  BY DEF P!Statuses, P!Callers
<1>2. UNCHANGED <<done, effects, entries>>
  BY DEF P!Limit, P!AuthRequired, P!RequireRole
<1>3. ASSUME NEW gate, P!AtGate(r, gate)
      PROVE  /\ P!Under(r, "gates") /\ served[r].caller \in P!Callers
             /\ gate = "role" => served[r].user \in {None, served[r].caller}
  <2>1. /\ P!Under(r, "gates") /\ served[r] \in P!Context /\ GatesPassed(served[r])
    BY <1>3 DEF P!AtGate, P!Under, PInv, InHand
  <2> QED
    BY <2>1 DEF P!Context, GatesPassed
<1>4. CASE P!Limit(r)
  BY <1>1, <1>2, <1>3, <1>4, PassStep, AbortStep DEF P!Limit
<1>5. CASE P!AuthRequired(r)
  BY <1>1, <1>2, <1>3, <1>5, PassStep, AbortStep DEF P!AuthRequired
<1>6. CASE P!RequireRole(r)
  BY <1>1, <1>2, <1>3, <1>6, PassStep, AbortStep DEF P!RequireRole
<1> QED
  BY <1>4, <1>5, <1>6

LEMMA HandlerStep ==
  ASSUME PInv, NEW r \in Requests, P!Handle(r) \/ P!Refuse(r) \/ P!CommitUnsure(r)
  PROVE  PInv'
<1>1. /\ P!Under(r, "gates") /\ served[r].ahead = <<>> /\ entries' = entries
      /\ served[r] # None /\ served[r] \in P!Context /\ served[r].status = 200
  BY DEF P!Handle, P!Refuse, P!CommitUnsure, P!AtHandler, P!Under, PInv, InHand
<1>2. {200, 400, 500} \subseteq P!Statuses
  BY DEF P!Statuses
<1>3. CASE P!Handle(r)
  <2>1. PICK commits \in served[r].route.commits :
          effects' = IF commits = "write" THEN effects \cup {r} ELSE effects
    BY <1>3 DEF P!Handle
  <2>2. /\ served' = [served EXCEPT ![r] = [served[r] EXCEPT !.phase = "back"]]
        /\ done' = done \cup {r}
    BY <1>3 DEF P!Handle, PInv
  <2>3. [served[r] EXCEPT !.phase = "back"]
          = [[served[r] EXCEPT !.status = served[r].status] EXCEPT !.phase = "back"]
    BY <1>1 DEF P!Context
  <2>4. served' = [served EXCEPT ![r] = [[served[r] EXCEPT !.status = 200] EXCEPT !.phase = "back"]]
    BY <1>1, <2>2, <2>3
  <2>5. commits \in {"write", "nothing"}
    BY <1>1, RouteFacts DEF P!Context
  <2>6. effects' = effects \/ effects' = effects \cup {r}
    BY <2>1
  <2>7. r \in done' => "nothing" \in served[r].route.commits \/ r \in effects'
    BY <2>1, <2>5
  <2>8. \A e \in entries' \ entries : e.of = r /\ r \in done' /\ EntryFits(e, served[r])
    BY <1>1
  <2>9. done' # done \/ effects' # effects => served[r].ahead = <<>>
    BY <1>1
  <2>10. "back" = "back" /\ 200 < 400 => r \in done'
    BY <2>2
  <2>11. done' = done \/ done' = done \cup {r}
    BY <2>2
  <2> QED
    BY <1>1, <1>2, <2>4, <2>6, <2>7, <2>8, <2>9, <2>10, <2>11, BackStep
<1>4. CASE P!Refuse(r)
  BY <1>1, <1>2, <1>4, AbortStep DEF P!Refuse
<1>5. CASE P!CommitUnsure(r)
  BY <1>1, <1>2, <1>5, AbortStep DEF P!CommitUnsure
<1> QED
  BY <1>3, <1>4, <1>5

\* The entry is of a request that is answered with success, hence handled.
LEMMA AnswerStep ==
  ASSUME PInv, NEW r \in Requests, P!AuditLog(r) \/ P!AuditFails(r)
  PROVE  PInv'
<1>1. /\ served[r] # None /\ served[r] \in P!Context /\ served[r].status \in P!Statuses
      /\ done' = done /\ effects' = effects
      /\ served[r].status < 400 => r \in done
      /\ r \in done => "nothing" \in served[r].route.commits \/ r \in effects
  BY DEF P!AuditLog, P!AuditFails, P!Under, PInv, InHand, P!Context
<1>2. served' = [served EXCEPT ![r] = [served[r] EXCEPT !.phase = "answered"]]
  BY DEF P!AuditLog, P!AuditFails, PInv
<1>3. [served[r] EXCEPT !.phase = "answered"]
        = [[served[r] EXCEPT !.status = served[r].status] EXCEPT !.phase = "answered"]
  BY <1>1 DEF P!Context
<1>4. ASSUME NEW e \in entries' \ entries
      PROVE  e.of = r /\ r \in done' /\ EntryFits(e, served[r])
  BY <1>1, <1>4 DEF P!AuditLog, P!AuditFails, EntryFits
<1> QED
  BY <1>1, <1>2, <1>3, <1>4, BackStep

LEMMA RestartStep ==
  ASSUME PInv, P!Restart
  PROVE  PInv'
<1>1. ASSUME NEW r \in Requests, served[r] # None
      PROVE  /\ [served[r] EXCEPT !.phase = "answered"] # None
             /\ InHand([served[r] EXCEPT !.phase = "answered"], r \in done, r \in effects)
             /\ [served[r] EXCEPT !.phase = "answered"].user = served[r].user
             /\ [served[r] EXCEPT !.phase = "answered"].route = served[r].route
  <2> DEFINE c == served[r]
             s == [c EXCEPT !.phase = "answered"]
  <2>1. InHand(c, r \in done, r \in effects) /\ c \in P!Context /\ "answered" \in P!Phases
    BY <1>1 DEF PInv, InHand, P!Phases
  <2>2. s \in P!Context
    BY <2>1 DEF P!Context
  <2>3. /\ s.route = c.route /\ s.caller = c.caller /\ s.user = c.user /\ s.ahead = c.ahead
        /\ s.status = c.status /\ s.phase = "answered"
    BY <2>1 DEF P!Context
  <2> HIDE DEF s
  <2>4. s # None /\ InHand(s, r \in done, r \in effects)
    BY <2>1, <2>2, <2>3, NoContextAssumption DEF InHand, GatesPassed
  <2> QED
    BY <2>3, <2>4 DEF s
<1>2. /\ served' = [r \in Requests |->
           IF served[r] # None THEN [served[r] EXCEPT !.phase = "answered"] ELSE None]
      /\ UNCHANGED <<done, effects, entries>>
  BY DEF P!Restart
<1>3. \A r \in Requests :
         /\ served'[r] = None => r \notin done /\ r \notin effects
         /\ served'[r] # None => InHand(served'[r], r \in done, r \in effects)
         /\ served[r] # None =>
              served'[r].user = served[r].user /\ served'[r].route = served[r].route
  BY <1>1, <1>2 DEF PInv
<1>4. \A e \in entries : e.of \in done /\ EntryFits(e, served'[e.of])
  BY <1>3 DEF PInv, EntryFits
<1> QED
  BY <1>2, <1>3, <1>4 DEF PInv, InHand, GatesPassed, EntryFits

LEMMA PipelineInv ==
  ASSUME PInv, [P!Next]_pipelineVars
  PROVE  PInv'
<1>1. CASE UNCHANGED pipelineVars \/ P!Crash
  <2>1. UNCHANGED <<served, done, effects, entries>>
    BY <1>1 DEF pipelineVars, P!Crash
  <2> QED
    BY <2>1 DEF PInv, InHand, GatesPassed, EntryFits
<1> QED
  BY <1>1, ArriveStep, GateStep, HandlerStep, AnswerStep, RestartStep DEF P!Next

\* The routers, AuthRequired and RequireRole: no handler is reached past a gate.
LEMMA PipelineFacts == PInv => WritesAreAuthorised /\ EntriesAreTrue
<1>1. SUFFICES ASSUME PInv PROVE WritesAreAuthorised /\ EntriesAreTrue
  OBVIOUS
<1>2. ASSUME NEW r \in done \cup effects
      PROVE  LET s == served[r] IN
             /\ P!Gated(s.route) => s.caller # None /\ s.user = s.caller
             /\ ~P!Gated(s.route) => s.user = None
             /\ s.caller = None \/ Role[s.caller] \in s.route.roles
  <2> DEFINE s == served[r]
  <2>1. s \in P!Context /\ GatesPassed(s) /\ s.ahead = <<>>
    BY <1>1 DEF PInv, InHand
  <2>2. s.route \in P!Routes /\ s.caller \in P!Callers
    BY <2>1 DEF P!Context
  <2>3. s.caller = None \/ Role[s.caller] \in P!Roles
    BY <2>2, RoleAssumption DEF P!Callers
  <2> HIDE DEF s
  <2>4. CASE s.route.gates = <<>> \/ s.route.gates = <<"limit">>
    <3>1. ~P!Gated(s.route)
      <4>1. CASE s.route.gates = <<>>
        BY <4>1 DEF P!Gated
      <4>2. CASE s.route.gates = <<"limit">>
        BY <4>2 DEF P!Gated
      <4> QED
        BY <2>4, <4>1, <4>2
    <3>2. s.user = None
      BY <2>1, <2>4, GateSequences DEF GatesPassed
    <3> QED
      BY <2>2, <2>3, <2>4, <3>1, <3>2, RouteFacts, GateSequences DEF s
  <2>5. CASE s.route.gates = <<"auth">>
    <3>1. P!Gated(s.route)
      BY <2>5 DEF P!Gated
    <3> QED
      BY <2>1, <2>2, <2>3, <2>5, <3>1, RouteFacts, GateSequences DEF GatesPassed, s
  <2>6. CASE s.route.gates = <<"auth", "role">>
    <3>1. P!Gated(s.route)
      BY <2>6 DEF P!Gated
    <3> QED
      BY <2>1, <2>6, <3>1, GateSequences DEF GatesPassed, s
  <2> QED
    BY <2>2, <2>4, <2>5, <2>6, RouteFacts
<1>3. WritesAreAuthorised
  BY <1>2 DEF WritesAreAuthorised, P!WritesAreAuthorised
<1>4. EntriesAreTrue
  <2> SUFFICES ASSUME NEW e \in entries
               PROVE  /\ served[e.of].route.recorded /\ e.of \in done
                      /\ "nothing" \in served[e.of].route.commits \/ e.of \in effects
                      /\ e.operator = IF P!Gated(served[e.of].route)
                                      THEN served[e.of].caller ELSE None
    BY DEF EntriesAreTrue, P!EntriesAreTrue
  <2>1. e.of \in done /\ EntryFits(e, served[e.of]) /\ e.of \in Requests
    BY <1>1 DEF PInv
  <2>2. "nothing" \in served[e.of].route.commits \/ e.of \in effects
    BY <1>1, <2>1 DEF PInv, InHand
  <2> QED
    BY <1>2, <2>1, <2>2 DEF EntryFits
<1> QED
  BY <1>3, <1>4

-----------------------------------------------------------------------------
(* Comments.                                                               *)

\* A comment that is there keeps its author, and its id is used up.
IdsAreUsed == \A c \in CommentIds : rows[c] # None => c \in used

\* A worker about to delete has found the comment to be the operator's to
\* delete, and it is, or it is gone for good.
DeletersMay ==
    \A p \in Workers :
        C!Doing(p, "delete") =>
            /\ commentJob[p].id \in used
            /\ \/ rows[commentJob[p].id] = None
               \/ commentJob[p].user \in Admins \cup {rows[commentJob[p].id].user}

CInv ==
    /\ DOMAIN rows = CommentIds
    /\ DOMAIN commentJob = Workers
    /\ IdsAreUsed
    /\ DeletersMay

\* The steps that touch no comment.
LEMMA LookingStep ==
  ASSUME CInv, UNCHANGED <<rows, used>>, DOMAIN commentJob' = Workers,
         \A p \in Workers :
            \/ commentJob'[p] = commentJob[p] \/ ~C!Doing(p, "delete")'
            \/ /\ rows[commentJob'[p].id] # None /\ commentJob'[p].id \in CommentIds
               /\ commentJob'[p].user \in Admins \cup {rows[commentJob'[p].id].user}
  PROVE  CInv'
  BY DEF CInv, IdsAreUsed, DeletersMay, C!Doing

LEMMA FindStep ==
  ASSUME CInv, NEW p \in Workers, NEW u \in Users,
         \/ \E rating \in Asked : C!CreateFind(p, u, rating)
         \/ \E c \in CommentIds : C!DeleteFind(p, u, c)
  PROVE  CInv'
<1>1. ASSUME NEW rating, C!CreateFind(p, u, rating) PROVE CInv'
  <2>1. /\ UNCHANGED <<rows, used>>
        /\ commentJob' = [commentJob EXCEPT ![p] = [step |-> "insert", user |-> u, rating |-> rating]]
    BY <1>1 DEF C!CreateFind, C!Begin
  <2>2. \A q \in Workers : commentJob'[q] = commentJob[q] \/ ~C!Doing(q, "delete")'
    BY <2>1 DEF CInv, C!Doing
  <2> QED
    BY <2>1, <2>2, LookingStep DEF CInv
<1>2. ASSUME NEW c \in CommentIds, C!DeleteFind(p, u, c) PROVE CInv'
  <2>1. /\ UNCHANGED <<rows, used>>
        /\ commentJob' = [commentJob EXCEPT ![p] = [step |-> "delete", user |-> u, id |-> c]]
        /\ rows[c] # None /\ u \in Admins \cup {rows[c].user}
    BY <1>2 DEF C!DeleteFind, C!Begin
  <2> QED
    BY <2>1, LookingStep DEF CInv
<1> QED
  BY <1>1, <1>2

LEMMA CommentInsertStep ==
  ASSUME CInv, NEW p \in Workers, C!CreateInsert(p)
  PROVE  CInv'
<1>1. PICK c \in CommentIds \ used :
         /\ rows' = [rows EXCEPT ![c] = [user |-> commentJob[p].user, rating |-> commentJob[p].rating]]
         /\ used' = used \cup {c}
         /\ commentJob' = [commentJob EXCEPT ![p] = None]
  BY DEF C!CreateInsert, C!Done
<1>2. IdsAreUsed'
  BY <1>1 DEF CInv, IdsAreUsed
<1>3. ASSUME NEW q \in Workers, C!Doing(q, "delete")'
      PROVE  /\ commentJob'[q].id \in used'
             /\ \/ rows'[commentJob'[q].id] = None
                \/ commentJob'[q].user \in Admins \cup {rows'[commentJob'[q].id].user}
  <2>1. q # p /\ C!Doing(q, "delete") /\ commentJob'[q] = commentJob[q]
    BY <1>1, <1>3 DEF CInv, C!Doing
  <2>2. commentJob[q].id # c
    BY <1>1, <2>1 DEF CInv, DeletersMay
  <2> QED
    BY <1>1, <2>1, <2>2 DEF CInv, DeletersMay
<1> QED
  BY <1>1, <1>2, <1>3 DEF CInv, DeletersMay

LEMMA CommentDeleteStep ==
  ASSUME CInv, NEW p \in Workers, C!Delete(p)
  PROVE  CInv'
<1>1. /\ rows' = [rows EXCEPT ![commentJob[p].id] = None] /\ used' = used
      /\ commentJob' = [commentJob EXCEPT ![p] = None]
  BY DEF C!Delete, C!Done
<1>2. IdsAreUsed'
  BY <1>1 DEF CInv, IdsAreUsed
<1>3. ASSUME NEW q \in Workers, C!Doing(q, "delete")'
      PROVE  C!Doing(q, "delete") /\ commentJob'[q] = commentJob[q]
  BY <1>1, <1>3 DEF CInv, C!Doing
<1>4. DeletersMay'
  BY <1>1, <1>3 DEF CInv, DeletersMay
<1> QED
  BY <1>1, <1>2, <1>4 DEF CInv

LEMMA CommentsInv ==
  ASSUME CInv, [C!Next]_commentVars
  PROVE  CInv'
<1>1. CASE UNCHANGED commentVars \/ C!DeleteActivity
  <2>1. UNCHANGED <<rows, used, commentJob>>
    BY <1>1 DEF commentVars, C!DeleteActivity
  <2> QED
    BY <2>1, LookingStep DEF CInv
<1>2. ASSUME NEW p \in Workers, C!StatementFails(p) PROVE CInv'
  <2>1. UNCHANGED <<rows, used>> /\ commentJob' = [commentJob EXCEPT ![p] = None]
    BY <1>2 DEF C!StatementFails, C!Done
  <2>2. \A q \in Workers : commentJob'[q] = commentJob[q] \/ ~C!Doing(q, "delete")'
    BY <2>1 DEF CInv, C!Doing
  <2> QED
    BY <2>1, <2>2, LookingStep DEF CInv
<1> QED
  BY <1>1, <1>2, FindStep, CommentInsertStep, CommentDeleteStep DEF C!Next

LEMMA RemovedByDelete ==
  ASSUME CInv, [C!Next]_commentVars, NEW c \in CommentIds, rows[c] # None, rows'[c] = None
  PROVE  \E p \in Workers :
            /\ commentJob[p] # None /\ commentJob'[p] = None
            /\ commentJob[p].user \in Admins \cup {rows[c].user}
<1>1. CASE \E p \in Workers : C!CreateInsert(p)
  <2>1. PICK p \in Workers : C!CreateInsert(p)
    BY <1>1
  <2>2. PICK d \in CommentIds \ used :
          rows' = [rows EXCEPT ![d] = [user |-> commentJob[p].user, rating |-> commentJob[p].rating]]
    BY <2>1 DEF C!CreateInsert
  <2>3. c # d
    BY <2>2 DEF CInv, IdsAreUsed
  <2> QED
    BY <2>2, <2>3 DEF CInv
<1>2. CASE \E p \in Workers : C!Delete(p)
  <2>1. PICK p \in Workers : C!Delete(p)
    BY <1>2
  <2>2. /\ rows' = [rows EXCEPT ![commentJob[p].id] = None] /\ C!Doing(p, "delete")
        /\ commentJob' = [commentJob EXCEPT ![p] = None]
    BY <2>1 DEF C!Delete, C!Done
  <2>3. c = commentJob[p].id
    BY <2>2 DEF CInv
  <2>4. commentJob[p].user \in Admins \cup {rows[c].user} /\ commentJob[p] # None /\ commentJob'[p] = None
    BY <2>2, <2>3 DEF CInv, DeletersMay, C!Doing
  <2> QED
    BY <2>4
<1>3. CASE ~\E p \in Workers : C!CreateInsert(p) \/ C!Delete(p)
  <2>1. rows' = rows
    BY <1>3 DEF C!Next, commentVars, C!CreateFind, C!DeleteFind, C!StatementFails, C!DeleteActivity
  <2> QED
    BY <2>1
<1> QED
  BY <1>1, <1>2, <1>3

-----------------------------------------------------------------------------
(* The parts side by side.                                                 *)

\* What is proved of a part holds when the others run beside it: they share
\* nothing, so that to a part a step of another is no step.
THEOREM PartsRun == ServicesSpec => Spec /\ C!Spec /\ P!Spec
<1>1. ServicesInit => Init /\ C!Init /\ P!Init
  BY DEF ServicesInit
<1>2. [ServicesNext]_servicesVars =>
         /\ [Next]_vars
         /\ [C!Next]_(C!vars)
         /\ [P!Next]_(P!vars)
  BY DEF ServicesNext, servicesVars, commentVars, pipelineVars, C!vars, P!vars
<1> QED
  BY <1>1, <1>2, PTL DEF ServicesSpec, Spec, C!Spec, P!Spec

\* A request writes behind its gates only, and its entry is of what it wrote.
THEOREM PipelineInductive == ServicesSpec => []PInv
<1>1. P!Init => PInv
  BY DEF P!Init, PInv
<1>2. PInv /\ [P!Next]_(P!vars) => PInv'
  BY PipelineInv DEF pipelineVars, P!vars
<1> QED
  BY <1>1, <1>2, PartsRun, PTL DEF P!Spec

\* A write is committed only for a caller whom its route lets through, for any
\* users and roles and however many requests are under way.
THEOREM WritesAuthorised == ServicesSpec => []WritesAreAuthorised
  BY PipelineInductive, PipelineFacts, PTL

\* An audit entry is of a committed write, and names its caller.
THEOREM EntriesTrue == ServicesSpec => []EntriesAreTrue
  BY PipelineInductive, PipelineFacts, PTL

\* The check of the owner and the DELETE by id are two statements: a comment is
\* nevertheless removed only for its author or an administrator.
THEOREM DeletedByTheirs == ServicesSpec => OnlyTheirsAreDeleted
<1>1. C!Init => CInv
  BY DEF C!Init, CInv, IdsAreUsed, DeletersMay, C!Doing
<1>2. CInv /\ [C!Next]_(C!vars) => CInv'
  BY CommentsInv DEF commentVars, C!vars
<1>3. CInv /\ [C!Next]_(C!vars) =>
        [\A c \in CommentIds :
           rows[c] # None /\ rows'[c] = None =>
             \E p \in Workers :
                 /\ commentJob[p] # None /\ commentJob'[p] = None
                 /\ commentJob[p].user \in Admins \cup {rows[c].user}]_(C!vars)
  BY RemovedByDelete DEF commentVars, C!vars
<1> QED
  BY <1>1, <1>2, <1>3, PartsRun, PTL DEF C!Spec, OnlyTheirsAreDeleted, C!OnlyTheirsAreDeleted
=============================================================================
