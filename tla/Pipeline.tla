------------------------------ MODULE Pipeline ------------------------------
(***************************************************************************)
(* What a request goes through before and after its handler: the chain of  *)
(* internal/router/router.go, with the limiter, middleware/auth.go,        *)
(* middleware/rbac.go and middleware/audit_log.go.  The handler itself is  *)
(* one step that does what it was asked for or does not, and commits a     *)
(* write or has none to commit; what the handlers do is the subject of     *)
(* EventGo, Accounts, Favorites and Comments.                              *)
(***************************************************************************)
EXTENDS Naturals, Sequences

CONSTANTS
    Requests,  \* HTTP requests, each made once
    Users,     \* accounts
    Role,      \* Role[u] is the role in the claims of the tokens of u
    None       \* no good token, no request

Roles == {"user", "organizer", "admin"}

Staff == {"organizer", "admin"}

\* One route of each chain that the routers build, and more where its handlers
\* differ: whether its method is one that AuditLog records, what a success of its
\* handler commits (who removes no favourite, or marks no notification, gets a
\* 200, too), the gates before the handler, and the roles of RequireRole.
Route(recorded, commits, gates, roles) ==
    [recorded |-> recorded, commits |-> commits, gates |-> gates, roles |-> roles]

Routes ==
    {Route(TRUE,  {"write"}, <<"limit">>, Roles),           \* /auth/register
     Route(TRUE,  {"nothing"}, <<"limit">>, Roles),         \* /auth/login
     Route(FALSE, {"nothing"}, <<>>, Roles),                \* /activities
     Route(FALSE, {"nothing"}, <<"auth">>, Roles),          \* /users/me
     Route(TRUE,  {"write"}, <<"auth">>, Roles),            \* sign-up
     Route(TRUE,  {"write", "nothing"}, <<"auth">>, Roles), \* removal of a favourite
     Route(FALSE, {"nothing"}, <<"auth", "role">>, {"admin"}), \* /users
     Route(TRUE,  {"write"}, <<"auth", "role">>, Staff)}    \* publish

VARIABLES
    served,   \* the gin.Context of a request, None before it arrives
    done,     \* requests whose handler did what it was asked for
    effects,  \* requests whose write is committed
    entries,  \* table audit_logs: the request and the operator of an entry
    up        \* whether the process runs

vars == <<served, done, effects, entries, up>>

\* What can be ahead of a request, and how it can be answered.
Chains == {<<>>, <<"limit">>, <<"auth">>, <<"role">>, <<"auth", "role">>}
Statuses == {200, 400, 401, 403, 429, 500}
Phases == {"gates", "back", "answered"}
Callers == Users \cup {None}

\* The gin.Context of a request: the user is the one AuthRequired put there.
Context ==
    [route : Routes, caller : Callers, user : Callers, ahead : Chains,
     status : Statuses, phase : Phases]

Init ==
    /\ served = [r \in Requests |-> None]
    /\ done = {}
    /\ effects = {}
    /\ entries = {}
    /\ up = TRUE

Under(r, phase) == up /\ served[r] # None /\ served[r].phase = phase

\* The request reaches AuditLog, with a token of caller or with no good one.
Arrive(r, route, caller) ==
    /\ up
    /\ served[r] = None
    /\ served' = [served EXCEPT ![r] =
         [route |-> route, caller |-> caller, user |-> None, ahead |-> route.gates,
          status |-> 200, phase |-> "gates"]]
    /\ UNCHANGED <<done, effects, entries, up>>

AtGate(r, gate) ==
    /\ Under(r, "gates")
    /\ served[r].ahead # <<>> /\ Head(served[r].ahead) = gate

Pass(r, user) ==
    served' = [served EXCEPT ![r].ahead = Tail(@), ![r].user = user]

\* AbortWithStatusJSON: the rest of the chain is skipped, and control goes back
\* to what follows c.Next() in AuditLog.
Abort(r, status) ==
    served' = [served EXCEPT ![r].status = status, ![r].phase = "back"]

\* Limit: what the bucket holds is the subject of RateLimiter.
Limit(r) ==
    /\ AtGate(r, "limit")
    /\ Pass(r, None) \/ Abort(r, 429)
    /\ UNCHANGED <<done, effects, entries, up>>

\* Fault variant: the answer is written, but the chain goes on.
AuthRequiredNoAbort(r) ==
    /\ AtGate(r, "auth")
    /\ IF served[r].caller # None
       THEN Pass(r, served[r].caller)
       ELSE served' = [served EXCEPT ![r].status = 401, ![r].ahead = Tail(@)]
    /\ UNCHANGED <<done, effects, entries, up>>

AuthRequired(r) ==
    /\ AtGate(r, "auth")
    /\ IF served[r].caller # None THEN Pass(r, served[r].caller) ELSE Abort(r, 401)
    /\ UNCHANGED <<done, effects, entries, up>>

\* The role is the one AuthRequired put into the context.
RequireRole(r) ==
    /\ AtGate(r, "role")
    /\ LET user == served[r].user IN
         IF user # None /\ Role[user] \in served[r].route.roles
         THEN Pass(r, user)
         ELSE Abort(r, 403)
    /\ UNCHANGED <<done, effects, entries, up>>

AtHandler(r) == Under(r, "gates") /\ served[r].ahead = <<>>

\* The handler does what it was asked for and answers 200; there may have been
\* nothing to write.
Handle(r) ==
    /\ AtHandler(r)
    /\ done' = done \cup {r}
    /\ \E commits \in served[r].route.commits :
         effects' = IF commits = "write" THEN effects \cup {r} ELSE effects
    /\ served' = [served EXCEPT ![r].phase = "back"]
    /\ UNCHANGED <<entries, up>>

\* It answers an error, through wrapError and Fail, and nothing is written.
Refuse(r) ==
    /\ AtHandler(r)
    /\ \E status \in {400, 500} : Abort(r, status)
    /\ UNCHANGED <<done, effects, entries, up>>

\* The connection breaks after COMMIT was sent: the write is there, and the
\* service sees an error.
CommitUnsure(r) ==
    /\ AtHandler(r)
    /\ "write" \in served[r].route.commits
    /\ effects' = effects \cup {r}
    /\ Abort(r, 500)
    /\ UNCHANGED <<done, entries, up>>

\* The statement on audit_logs fails, which is logged and no more.
AuditFails(r) ==
    /\ Under(r, "back")
    /\ served[r].route.recorded
    /\ served[r].status < 400
    /\ served' = [served EXCEPT ![r].phase = "answered"]
    /\ UNCHANGED <<done, effects, entries, up>>

\* Fault variant: what was refused is recorded as well.
AuditLogOfAll(r) ==
    /\ Under(r, "back")
    /\ entries' = IF served[r].route.recorded
                  THEN entries \cup {[of |-> r, operator |-> served[r].user]}
                  ELSE entries
    /\ served' = [served EXCEPT ![r].phase = "answered"]
    /\ UNCHANGED <<done, effects, up>>

\* auditLog after c.Next(); then the answer goes out.
AuditLog(r) ==
    /\ Under(r, "back")
    /\ entries' = IF served[r].route.recorded /\ served[r].status < 400
                  THEN entries \cup {[of |-> r, operator |-> served[r].user]}
                  ELSE entries
    /\ served' = [served EXCEPT ![r].phase = "answered"]
    /\ UNCHANGED <<done, effects, up>>

\* The process stops with what is under way; a new one knows nothing of it.
Crash ==
    /\ up
    /\ up' = FALSE
    /\ UNCHANGED <<served, done, effects, entries>>

Restart ==
    /\ ~up
    /\ up' = TRUE
    /\ served' = [r \in Requests |->
         IF served[r] # None THEN [served[r] EXCEPT !.phase = "answered"] ELSE None]
    /\ UNCHANGED <<done, effects, entries>>

Next ==
    \/ \E r \in Requests :
          \/ \E route \in Routes, caller \in Callers : Arrive(r, route, caller)
          \/ Limit(r) \/ AuthRequired(r) \/ RequireRole(r)
          \/ Handle(r) \/ Refuse(r) \/ CommitUnsure(r)
          \/ AuditLog(r) \/ AuditFails(r)
    \/ Crash \/ Restart

Spec == Init /\ [][Next]_vars

-----------------------------------------------------------------------------
Gated(route) == "auth" \in {route.gates[i] : i \in DOMAIN route.gates}

\* The routers put AuthRequired and RequireRole in front of what needs them: a
\* handler serves, and a write is committed, only for a caller whom the route
\* lets through, also when the gate before has already answered.
WritesAreAuthorised ==
    \A r \in done \cup effects :
        LET route == served[r].route
            caller == served[r].caller
        IN  /\ Gated(route) => caller # None
            /\ caller = None \/ Role[caller] \in route.roles

\* audit_logs tells nothing that did not happen: an entry is of a request with a
\* recorded method, by the caller of that request and nobody else's, whose
\* handler did what it was asked for; the write is committed, unless the handler
\* can do that without one, as a login and the removal of no favourite can.
EntriesAreTrue ==
    \A e \in entries :
        LET route == served[e.of].route IN
        /\ route.recorded /\ e.of \in done
        /\ "nothing" \in route.commits \/ e.of \in effects
        /\ e.operator = IF Gated(route) THEN served[e.of].caller ELSE None

\* AuditLog records the write operations: when a request is over, a write that
\* it committed has its entry.
WritesAreRecorded ==
    \A r \in effects :
        served[r].phase = "answered" => \E e \in entries : e.of = r
=============================================================================
