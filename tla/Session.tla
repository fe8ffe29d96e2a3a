------------------------------- MODULE Session -------------------------------
(***************************************************************************)
(* Who is logged in, as the frontend sees it: stores/authStore.ts in each  *)
(* tab, the localStorage that the tabs share, and the requests that carry  *)
(* a token (utils/request.ts, or fetch with the stored one).  The server   *)
(* knows tokens only (middleware/auth.go): a token is good until it        *)
(* expires, 72 hours after its login.                                      *)
(***************************************************************************)
EXTENDS Naturals

CONSTANTS
    Tabs,       \* browser tabs
    Users,      \* accounts
    Calls,      \* requests that can be under way at once
    MaxTokens,  \* bound on the logins
    Patient,    \* the tabs that wait for their answers before they do more
    None        \* no token, no user, no request

Tokens == 1 .. MaxTokens

VARIABLES
    owner,    \* the user in the claims of a token, None while not issued
    expired,  \* tokens that are not good any more
    token,    \* authStore.token of a tab
    user,     \* authStore.user of a tab: whom the tab shows
    saved,    \* localStorage: gbevent_token and gbevent_user
    at,       \* the page of a tab: the login page or another
    calls     \* requests under way

vars == <<owner, expired, token, user, saved, at, calls>>

Kinds == {"login", "request", "profile", "fetch"}

AnyToken == Tokens \cup {None}

AnyUser == Users \cup {None}

AnyAnswer == {"ok", "401", None}

\* A request: from which tab, with which token, for whom, and what came back.
Call ==
    [tab : Tabs, kind : Kinds, token : AnyToken, user : AnyUser,
     answer : AnyAnswer, got : AnyToken]

NoLogin == [token |-> None, user |-> None]

Init ==
    /\ owner = [k \in Tokens |-> None]
    /\ expired = {}
    /\ token = [t \in Tabs |-> None]
    /\ user = [t \in Tabs |-> None]
    /\ saved = NoLogin
    /\ at = [t \in Tabs |-> "login"]
    /\ calls = [c \in Calls |-> None]

WaitsFor(t) == {c \in Calls : calls[c] # None /\ calls[c].tab = t}

May(t) == t \in Patient => WaitsFor(t) = {}

Send(c, t, kind, tok, who) ==
    /\ calls[c] = None
    /\ May(t)
    /\ calls' = [calls EXCEPT ![c] =
         [tab |-> t, kind |-> kind, token |-> tok, user |-> who,
          answer |-> None, got |-> None]]
    /\ UNCHANGED <<owner, expired, token, user, saved, at>>

-----------------------------------------------------------------------------
(* The pages.                                                              *)

\* Login.vue: the form, sent by request.ts, with the old token if there is one.
\* The button is disabled while a login is under way, the Enter key is not.
SubmitLogin(c, t, u) == at[t] = "login" /\ Send(c, t, "login", token[t], u)

\* A page behind the guard calls the API through request.ts.
Request(c, t) ==
    at[t] = "app" /\ token[t] # None /\ Send(c, t, "request", token[t], user[t])

\* Profile.vue: save.
SaveProfile(c, t) ==
    at[t] = "app" /\ token[t] # None /\ Send(c, t, "profile", token[t], user[t])

\* MyRegistrations, OrganizerActivities, OrganizerRegistrations: fetch with the
\* token of localStorage.
Fetch(c, t) ==
    at[t] = "app" /\ token[t] # None /\ Send(c, t, "fetch", saved.token, user[t])

\* Fault variant: the token stays in localStorage.
LogoutInTab(t) ==
    /\ token' = [token EXCEPT ![t] = None]
    /\ user' = [user EXCEPT ![t] = None]
    /\ UNCHANGED saved

\* authStore.logout.
LogoutStore(t) ==
    /\ token' = [token EXCEPT ![t] = None]
    /\ user' = [user EXCEPT ![t] = None]
    /\ saved' = NoLogin

\* Layout.vue: the button; the router goes to the login page, requests go on.
Logout(t) ==
    /\ at[t] = "app" /\ token[t] # None
    /\ May(t)
    /\ LogoutStore(t)
    /\ at' = [at EXCEPT ![t] = "login"]
    /\ UNCHANGED <<owner, expired, calls>>

\* The tab is loaded anew: the store is made from localStorage, the guard leaves
\* a page that needs a login, and requests under way are forgotten.
Reload(t) ==
    /\ at' = [at EXCEPT ![t] = IF saved.token = None THEN "login" ELSE @]
    /\ token' = [token EXCEPT ![t] = saved.token]
    /\ user' = [user EXCEPT ![t] = saved.user]
    /\ calls' = [c \in Calls |-> IF c \in WaitsFor(t) THEN None ELSE calls[c]]
    /\ UNCHANGED <<owner, expired, saved>>

-----------------------------------------------------------------------------
(* The server.                                                             *)

Good(tok) == tok # None /\ tok \notin expired

\* AuthRequired, and for a login the password: Login signs a token of the user.
Serve(c) ==
    /\ calls[c] # None /\ calls[c].answer = None
    /\ \/ /\ calls[c].kind = "login"
          /\ \/ \E tok \in Tokens :
                  /\ owner[tok] = None
                  /\ \A earlier \in Tokens : earlier < tok => owner[earlier] # None
                  /\ owner' = [owner EXCEPT ![tok] = calls[c].user]
                  /\ calls' = [calls EXCEPT ![c].answer = "ok", ![c].got = tok]
             \/ calls' = [calls EXCEPT ![c].answer = "401"] /\ UNCHANGED owner
       \/ /\ calls[c].kind # "login"
          /\ calls' = [calls EXCEPT ![c].answer =
                         IF Good(calls[c].token) THEN "ok" ELSE "401"]
          /\ UNCHANGED owner
    /\ UNCHANGED <<expired, token, user, saved, at>>

Expire(tok) ==
    /\ owner[tok] # None
    /\ tok \notin expired
    /\ expired' = expired \cup {tok}
    /\ UNCHANGED <<owner, token, user, saved, at, calls>>

-----------------------------------------------------------------------------
(* The answers.                                                            *)

Forget(c) == calls' = [calls EXCEPT ![c] = None]

\* Fault variant: the store keeps the user it had.
LoggedInNoUser(c) ==
    LET t == calls[c].tab
        tok == calls[c].got
    IN  /\ calls[c] # None /\ tok # None
        /\ token' = [token EXCEPT ![t] = tok]
        /\ saved' = [saved EXCEPT !.token = tok]
        /\ at' = [at EXCEPT ![t] = "app"]
        /\ Forget(c)
        /\ UNCHANGED <<owner, expired, user>>

\* authStore.login: token and user, in the store and in localStorage.
LoggedIn(c) ==
    LET t == calls[c].tab
        tok == calls[c].got
    IN  /\ calls[c] # None /\ tok # None
        /\ token' = [token EXCEPT ![t] = tok]
        /\ user' = [user EXCEPT ![t] = calls[c].user]
        /\ saved' = [token |-> tok, user |-> calls[c].user]
        /\ at' = [at EXCEPT ![t] = "app"]
        /\ Forget(c)
        /\ UNCHANGED <<owner, expired>>

\* Fault variant: fetch goes through the interceptor as well.
RefusedAnyCall(c) ==
    LET t == calls[c].tab IN
    /\ calls[c] # None /\ calls[c].answer = "401"
    /\ LogoutStore(t)
    /\ at' = [at EXCEPT ![t] = "login"]
    /\ calls' = [d \in Calls |-> IF d \in WaitsFor(t) THEN None ELSE calls[d]]
    /\ UNCHANGED <<owner, expired>>

\* The interceptor logs out on any 401, and leaves for the login page unless it
\* is there: that loads the tab anew.  fetch has no interceptor.
Refused(c) ==
    LET t == calls[c].tab IN
    /\ calls[c] # None /\ calls[c].answer = "401"
    /\ IF calls[c].kind = "fetch"
       THEN Forget(c) /\ UNCHANGED <<token, user, saved, at>>
       ELSE /\ LogoutStore(t)
            /\ at' = [at EXCEPT ![t] = "login"]
            /\ IF at[t] = "login"
               THEN Forget(c)
               ELSE calls' = [d \in Calls |-> IF d \in WaitsFor(t) THEN None ELSE calls[d]]
    /\ UNCHANGED <<owner, expired>>

\* The answer of the profile is the user of the token that asked.
Done(c) ==
    /\ calls[c] # None /\ calls[c].answer = "ok" /\ calls[c].kind # "login"
    /\ user' = IF calls[c].kind = "profile"
               THEN [user EXCEPT ![calls[c].tab] = owner[calls[c].token]]
               ELSE user
    /\ Forget(c)
    /\ UNCHANGED <<owner, expired, token, saved, at>>

Next ==
    \/ \E c \in Calls, t \in Tabs :
          \/ \E u \in Users : SubmitLogin(c, t, u)
          \/ Request(c, t) \/ SaveProfile(c, t) \/ Fetch(c, t)
    \/ \E t \in Tabs : Logout(t) \/ Reload(t)
    \/ \E c \in Calls : Serve(c) \/ LoggedIn(c) \/ Refused(c) \/ Done(c)
    \/ \E tok \in Tokens : Expire(tok)

Spec == Init /\ [][Next]_vars

-----------------------------------------------------------------------------
\* A patient tab that has a token shows the user the server takes it for,
\* whatever the other tabs do to the localStorage they share; and what that
\* hands to the next tab is such a pair, too.
ShownUserIsTheTokens ==
    /\ \A t \in Patient :
         (token[t] = None /\ user[t] = None) \/ (token[t] # None /\ user[t] = owner[token[t]])
    /\ saved = NoLogin \/ (saved.token # None /\ saved.user = owner[saved.token])

\* A login lasts until its user logs out or its token expires: a patient tab
\* drops a good token for no refusal but that of a login its user asked for.
LoginLasts ==
    [][\A t \in Patient :
         Good(token[t]) /\ token'[t] = None =>
            \/ Logout(t) \/ Reload(t)
            \/ \E c \in WaitsFor(t) : calls[c].kind = "login" /\ Refused(c)]_vars
=============================================================================
