------------------------------- MODULE Services -------------------------------
(***************************************************************************)
(* The services beside sign-up and check-in, side by side: Accounts,       *)
(* Comments and Pipeline.  They share no table and no memory, so a step of *)
(* one commutes with every step of the others, and each property is about  *)
(* one of them: it is enough to let one part run, and which one is chosen  *)
(* at the start.                                                           *)
(***************************************************************************)
EXTENDS Accounts, Naturals

CONSTANTS
    Users, Admins, CommentIds, Asked,  \* of Comments
    Requests, Role                     \* of Pipeline, with Users

VARIABLES
    part,                            \* the part that runs
    open, rows, used, commentJob,    \* of Comments
    served, done, effects, entries, up   \* of Pipeline

C == INSTANCE Comments WITH job <- commentJob
P == INSTANCE Pipeline

\* The claims of a token name one of the three roles, and None is no request.
ASSUME RoleAssumption == Role \in [Users -> P!Roles]
ASSUME NoContextAssumption == None \notin P!Context

commentVars == <<open, rows, used, commentJob>>

pipelineVars == <<served, done, effects, entries, up>>

servicesVars == <<part, vars, commentVars, pipelineVars>>

ServicesInit ==
    part \in {"accounts", "comments", "pipeline"} /\ Init /\ C!Init /\ P!Init

ServicesNext ==
    /\ UNCHANGED part
    /\ \/ /\ part = "accounts"
          /\ Next
          /\ UNCHANGED <<commentVars, pipelineVars>>
       \/ /\ part = "comments"
          /\ C!Next
          /\ UNCHANGED <<vars, pipelineVars>>
       \/ /\ part = "pipeline"
          /\ P!Next
          /\ UNCHANGED <<vars, commentVars>>

ServicesSpec == ServicesInit /\ [][ServicesNext]_servicesVars

-----------------------------------------------------------------------------
\* Comments: a comment disappears only by a request of its author or an admin.
OnlyTheirsAreDeleted == C!OnlyTheirsAreDeleted

\* Pipeline: a handler serves only a caller whom its route lets through.
WritesAreAuthorised == P!WritesAreAuthorised

\* Pipeline: an audit entry is of a request that did what it asked for, by its
\* caller, and of a committed write where its handler has one.
EntriesAreTrue == P!EntriesAreTrue

\* Pipeline: a write that a finished request committed has its audit entry.
WritesAreRecorded == P!WritesAreRecorded
=============================================================================
