------------------------------ MODULE ListPages ------------------------------
(***************************************************************************)
(* The list pages of the frontend over one Pinia store: pages/Activities   *)
(* and pages/OrganizerActivities share stores/activityStore,               *)
(* OrganizerRegistrations has stores/registrationStore.  A page asks for   *)
(* the list its filter names and writes the answer to the store; after a   *)
(* change it made, it asks again.                                          *)
(*                                                                         *)
(* A list is known by what was asked for and by the version of the table   *)
(* it was read from.  An answer writes the store whoever is on screen.     *)
(***************************************************************************)
EXTENDS Naturals, Sequences, SequencesExt

CONSTANTS
    Pages,       \* "list": asks once; "organizer": asks for the public list,
                 \* then for the organizer's own
    Filters,     \* filters, page numbers, activities: what a page can ask for
    MaxCalls,    \* bound on the requests under way
    MaxVersion,  \* bound on the changes of the table
    MaxErrors,   \* bound on the requests that are refused
    None

VARIABLES
    page,      \* the page on screen
    filter,    \* its filter
    store,     \* store.list: what was asked for, and the version that came
    version,   \* of the table
    written,   \* the version after the last change this page was told of
    calls,     \* requests under way, in the order they were sent
    errors,    \* requests refused so far
    crossed    \* whether an answer overtook an earlier one, or a page that was
               \* left went on asking

vars == <<page, filter, store, version, written, calls, errors, crossed>>

Kinds == {"public", "own", "write"}

Versions == Nat \cup {None}

\* A request: its page, whether that is still the one on screen, what it asks
\* for, and what the page's filter is when its answer comes.
Request ==
    [kind : Kinds, page : Pages, filter : Filters, next : Filters,
     version : Versions, live : BOOLEAN]

Call(kind, g, f) ==
    [kind |-> kind, page |-> g, filter |-> f, next |-> f, version |-> None, live |-> TRUE]

Init ==
    /\ page \in Pages
    /\ filter \in Filters
    /\ store = None
    /\ version = 0
    /\ written = 0
    /\ calls = <<Call("public", page, filter)>>
    /\ errors = 0
    /\ crossed = FALSE

\* onMounted(load) of the next page; the component before it is gone, but not
\* what it is waiting for.
Open(g, f) ==
    /\ <<g, f>> # <<page, filter>>
    /\ Len(calls) < MaxCalls
    /\ page' = g
    /\ filter' = f
    /\ written' = 0
    /\ calls' = Append([i \in DOMAIN calls |-> [calls[i] EXCEPT !.live = FALSE]],
                       Call("public", g, f))
    /\ UNCHANGED <<store, version, errors, crossed>>

\* applyFilter, onPage, the status select: the page's load runs again.
ApplyFilter(f) ==
    /\ f # filter
    /\ Len(calls) < MaxCalls
    /\ filter' = f
    /\ calls' = Append(
         [i \in DOMAIN calls |->
            IF calls[i].live THEN [calls[i] EXCEPT !.next = f] ELSE calls[i]],
         Call("public", page, f))
    /\ UNCHANGED <<page, store, version, written, errors, crossed>>

\* publish, end, remove, onSaved, doCheckin, submitOffline, submitComment.
Write ==
    /\ Len(calls) < MaxCalls
    /\ version + Len(calls) < MaxVersion
    /\ calls' = Append(calls, Call("write", page, filter))
    /\ UNCHANGED <<page, filter, store, version, written, errors, crossed>>

Writes(c) == c.kind = "write"

\* The handler of a request: a list is read, a change is made.
Handle(i) ==
    /\ calls[i].version = None
    /\ version' = IF Writes(calls[i]) THEN version + 1 ELSE version
    /\ calls' = [calls EXCEPT ![i].version = version']
    /\ UNCHANGED <<page, filter, store, written, errors, crossed>>

\* Fault variant: no load after a change.
AfterNothing(c) ==
    IF c.kind = "public" /\ c.page = "organizer"
    THEN <<[Call("own", c.page, c.next) EXCEPT !.live = c.live]>>
    ELSE <<>>

\* What the continuation after the answer sends: the load after a change, or
\* the second request of the organizer's load.
After(c) ==
    CASE Writes(c) -> <<[Call("public", c.page, c.next) EXCEPT !.live = c.live]>>
      [] c.kind = "public" /\ c.page = "organizer" ->
            <<[Call("own", c.page, c.next) EXCEPT !.live = c.live]>>
      [] OTHER -> <<>>

\* The answer of fetchList, or of the fetch for the organizer's own list.
Answer(i) ==
    LET c == calls[i] IN
    /\ c.version # None
    /\ store' = IF Writes(c)
                THEN store
                ELSE [list |-> c.kind, filter |-> c.filter, version |-> c.version]
    /\ written' = IF Writes(c) /\ c.live THEN c.version ELSE written
    /\ calls' = RemoveAt(calls, i) \o After(c)
    /\ crossed' = (crossed \/ i > 1 \/ (~c.live /\ After(c) # <<>>))
    /\ UNCHANGED <<page, filter, version, errors>>

\* The request is refused: the promise rejects and the store keeps its list.
Refuse(i) ==
    /\ calls[i].version = None
    /\ errors < MaxErrors
    /\ errors' = errors + 1
    /\ calls' = RemoveAt(calls, i)
    /\ UNCHANGED <<page, filter, store, version, written, crossed>>

Next ==
    \/ \E g \in Pages, f \in Filters : Open(g, f)
    \/ \E f \in Filters : ApplyFilter(f)
    \/ Write
    \/ \E i \in DOMAIN calls : Handle(i) \/ Answer(i) \/ Refuse(i)

Spec == Init /\ [][Next]_vars

-----------------------------------------------------------------------------
\* A page that waits for nothing, and was refused nothing, shows the list that
\* it and its filter ask for, read no earlier than the last change it made;
\* unless an answer overtook an earlier one or a page that was left went on.
SettledListIsTheOneAsked ==
    calls = <<>> /\ errors = 0 /\ ~crossed =>
        /\ store.list = (IF page = "organizer" THEN "own" ELSE "public")
        /\ store.filter = filter
        /\ store.version >= written
=============================================================================
