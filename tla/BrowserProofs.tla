----------------------------- MODULE BrowserProofs -----------------------------
(***************************************************************************)
(* What a browser shows, proved: for any number of tabs, users, requests,  *)
(* filters and notifications, and answers that are late, lost or refused.  *)
(***************************************************************************)
EXTENDS Browser, SequenceTheorems, TLAPS

-----------------------------------------------------------------------------
(* Notifications.                                                          *)

\* What an answer under way is about to flag is read in the table: the flags of
\* a list, one notification, or, unless another list came in, all that is listed.
NoticeFits(k) ==
    LET c == noticeCalls[k] IN
    N!Answered(k) =>
        /\ c.kind = "list" => c.got.list \subseteq N!Rows /\ c.got.read \subseteq read
        /\ c.kind = "one" => c.ids \subseteq read
        /\ c.kind \notin {"list", "one"} => c.kind = "all" /\ (mixed \/ list \subseteq read)

NInv ==
    /\ DOMAIN noticeCalls = Pair
    /\ rows \in Seq(Ids)
    /\ list \subseteq N!Rows
    /\ mixed \in BOOLEAN
    /\ \A k \in Pair :
         /\ noticeCalls[k] # None => noticeCalls[k].kind \in {"list", "one", "all"}
         /\ NoticeFits(k)
    /\ mixed \/ shown \subseteq read

\* The steps of the server and of the pages, which show nothing.
LEMMA UnshownStep ==
  ASSUME NInv, NEW k \in Pair, NEW c,
         UNCHANGED <<rows, list, shown, mixed>>,
         noticeCalls' = [noticeCalls EXCEPT ![k] = c],
         read \subseteq read',
         c # None => c.kind \in {"list", "one", "all"},
         NoticeFits(k)'
  PROVE  NInv'
<1>1. N!Rows' = N!Rows
  BY DEF N!Rows
<1>2. ASSUME NEW j \in Pair, j # k
      PROVE  NoticeFits(j)'
  <2>1. noticeCalls'[j] = noticeCalls[j]
    BY <1>2 DEF NInv
  <2> QED
    BY <1>1, <2>1 DEF NInv, NoticeFits, N!Answered
<1> QED
  BY <1>1, <1>2 DEF NInv

LEMMA NotifyStep ==
  ASSUME NInv, NEW n \in Ids, N!Notify(n)
  PROVE  NInv'
<1>1. /\ rows' = Append(rows, n)
      /\ UNCHANGED <<read, list, shown, noticeCalls, mixed>>
  BY DEF N!Notify
<1>2. rows' \in Seq(Ids) /\ N!Rows \subseteq N!Rows'
  BY <1>1 DEF NInv, N!Rows
<1>3. \A k \in Pair : NoticeFits(k)'
  BY <1>1, <1>2 DEF NInv, NoticeFits, N!Answered
<1> QED
  BY <1>1, <1>2, <1>3 DEF NInv

LEMMA NoticeSendStep ==
  ASSUME NInv, NEW k \in Pair, NEW kind \in {"list", "one", "all"}, NEW ids, N!Send(k, kind, ids)
  PROVE  NInv'
<1> DEFINE c == [kind |-> kind, ids |-> ids, got |-> None]
<1>1. /\ noticeCalls' = [noticeCalls EXCEPT ![k] = c]
      /\ UNCHANGED <<rows, read, list, shown, mixed>>
  BY DEF N!Send
<1>2. c.kind = kind /\ c.got = None
  OBVIOUS
<1>3. NoticeFits(k)'
  BY <1>1, <1>2 DEF NInv, NoticeFits, N!Answered
<1> HIDE DEF c
<1> QED
  BY <1>1, <1>2, <1>3, UnshownStep

LEMMA NoticeHandleStep ==
  ASSUME NInv, NEW k \in Pair, N!HandleList(k) \/ N!HandleMark(k)
  PROVE  NInv'
<1> DEFINE c == noticeCalls[k]
<1>1. /\ c # None /\ c.kind \in {"list", "one", "all"}
      /\ UNCHANGED <<rows, list, shown, mixed>> /\ N!Rows' = N!Rows
  BY DEF N!HandleList, N!HandleMark, NInv, N!Rows
<1>2. CASE N!HandleList(k)
  <2> DEFINE got == [list |-> N!Newest, read |-> read \cap N!Newest]
             d == [c EXCEPT !.got = got]
  <2>1. noticeCalls' = [noticeCalls EXCEPT ![k] = d] /\ UNCHANGED read /\ c.kind = "list"
    BY <1>2 DEF N!HandleList, NInv
  <2>2. d.kind = "list" /\ (d.got = got \/ d.got = c.got)
    BY <2>1
  <2>3. got.list \subseteq N!Rows /\ got.read \subseteq read
    BY DEF N!Newest, N!Rows
  <2>4. c.got = None
    BY <1>2 DEF N!HandleList
  <2> HIDE DEF d, got
  <2>5. NoticeFits(k)'
    BY <1>1, <2>1, <2>2, <2>3, <2>4 DEF NInv, NoticeFits, N!Answered
  <2> QED
    BY <1>1, <2>1, <2>2, <2>5, UnshownStep
<1>3. CASE N!HandleMark(k)
  <2> DEFINE d == [c EXCEPT !.got = [list |-> {}, read |-> {}]]
  <2>1. /\ noticeCalls' = [noticeCalls EXCEPT ![k] = d]
        /\ read' = read \cup IF c.kind = "all" THEN N!Rows ELSE c.ids
        /\ c.kind \in {"one", "all"}
    BY <1>1, <1>3 DEF N!HandleMark, NInv
  <2>2. d.kind = c.kind /\ d.ids = c.ids
    OBVIOUS
  <2> HIDE DEF d
  <2>3. NoticeFits(k)'
    BY <1>1, <2>1, <2>2 DEF NInv, NoticeFits, N!Answered
  <2> QED
    BY <1>1, <2>1, <2>2, <2>3, UnshownStep
<1> QED
  BY <1>2, <1>3

\* The continuation of an answer, and the answer that does not come.
LEMMA NoticeAnswerStep ==
  ASSUME NInv, NEW k \in Pair, N!Deliver(k) \/ N!Lose(k)
  PROVE  NInv'
<1>1. noticeCalls' = [noticeCalls EXCEPT ![k] = None] /\ UNCHANGED <<rows, read>>
  BY DEF N!Deliver, N!Lose
<1>2. N!Rows' = N!Rows /\ ~N!Answered(k)'
  BY <1>1 DEF N!Rows, NInv, N!Answered
<1>3. \A j \in Pair : j # k => noticeCalls'[j] = noticeCalls[j]
  BY <1>1 DEF NInv
<1>4. CASE N!Lose(k)
  <2>1. UNCHANGED <<list, shown, mixed>>
    BY <1>4 DEF N!Lose
  <2> QED
    BY <1>1, <1>2, <1>3, <2>1 DEF NInv, NoticeFits, N!Answered
<1>5. CASE N!Deliver(k)
  <2> DEFINE c == noticeCalls[k]
  <2>1. /\ N!Answered(k) /\ NoticeFits(k) /\ c.kind \in {"list", "one", "all"}
        /\ list' = IF c.kind = "list" THEN c.got.list ELSE list
        /\ shown' = CASE c.kind = "list" -> c.got.read
                      [] c.kind = "one"  -> shown \cup (c.ids \cap list)
                      [] OTHER           -> list
        /\ mixed' = (mixed \/ /\ c.kind = "list"
                              /\ \E j \in Pair : N!Answered(j) /\ noticeCalls[j].kind = "all")
    BY <1>5 DEF N!Deliver, NInv, N!Answered
  <2>2. list' \subseteq N!Rows /\ mixed' \in BOOLEAN /\ (mixed => mixed')
    BY <2>1 DEF NInv, NoticeFits
  <2>3. mixed' \/ shown' \subseteq read
    <3>1. CASE c.kind = "list"
      BY <2>1, <3>1 DEF NoticeFits
    <3>2. CASE c.kind = "one"
      BY <2>1, <3>2 DEF NInv, NoticeFits
    <3>3. CASE c.kind = "all"
      BY <2>1, <2>2, <3>3 DEF NoticeFits
    <3> QED
      BY <2>1, <3>1, <3>2, <3>3
  <2>4. ASSUME NEW j \in Pair, j # k
        PROVE  NoticeFits(j)'
    <3>1. noticeCalls'[j] = noticeCalls[j] /\ (N!Answered(j)' <=> N!Answered(j)) /\ NoticeFits(j)
      BY <1>3, <2>4 DEF N!Answered, NInv
    <3>2. N!Answered(j) /\ noticeCalls[j].kind = "all" => mixed' \/ list' \subseteq read
      BY <2>1, <2>2, <3>1 DEF NoticeFits
    <3> QED
      BY <1>1, <1>2, <3>1, <3>2 DEF NoticeFits
  <2>5. \A j \in Pair : NoticeFits(j)'
    BY <1>2, <2>4 DEF NoticeFits
  <2> QED
    BY <1>1, <1>2, <1>3, <2>2, <2>3, <2>5 DEF NInv
<1> QED
  BY <1>4, <1>5

LEMMA NoticesInv ==
  ASSUME NInv, [N!Next]_noticeVars
  PROVE  NInv'
<1>1. CASE UNCHANGED noticeVars
  BY <1>1 DEF noticeVars, NInv, NoticeFits, N!Answered, N!Rows
<1>2. ASSUME NEW k \in Pair, N!FetchMine(k) \/ N!MarkAll(k) \/ \E n \in Ids : N!MarkReadOne(k, n)
      PROVE  NInv'
  BY <1>2, NoticeSendStep DEF N!FetchMine, N!MarkAll, N!MarkReadOne
<1> QED
  BY <1>1, <1>2, NotifyStep, NoticeHandleStep, NoticeAnswerStep DEF N!Next

-----------------------------------------------------------------------------
(* Favourites.                                                             *)

\* Where the request of a patient user can be, and what its answer will find
\* that the page shows and the table holds.
FavoriteFits(c) ==
    LET flag == favorited[c.user]
        kept == favorites[c.user]
    IN  /\ c.live
        /\ c.kind = "load" =>
             /\ c.at \in {"get", "list", "listed", "unlisted", "cut", "refused", "error"}
             /\ told[c.user] = FALSE
             /\ c.at = "listed" => kept = 1
             /\ c.at = "unlisted" => kept = 0
        /\ c.kind = "add" =>
             /\ c.at \in {"get", "exists", "create", "ok", "refused", "error"}
             /\ flag = FALSE
             /\ c.at = "ok" => kept = 1
             /\ told[c.user] = TRUE /\ c.at \notin {"ok", "error"} => kept = 0
        /\ c.kind = "remove" =>
             /\ c.at \in {"delete", "ok", "error"}
             /\ c.at = "ok" => kept = 0

FavoriteTypes ==
    /\ favorites \in [Users -> {0, 1}]
    /\ favorited \in [Users -> BOOLEAN \cup {None}]
    /\ told \in [Users -> BOOLEAN]
    /\ favoriteCalls \in [Calls -> F!Request \cup {None}]

FlagFits(u) ==
    \/ favorited[u] = TRUE /\ favorites[u] = 1
    \/ favorited[u] = FALSE /\ favorites[u] = 0

\* A patient user has one request under way, and no page that is wrong after it
\* was told.
PatientUser(u) ==
    /\ \A k1, k2 \in F!UnderWay(u) : k1 = k2
    /\ \A k \in F!UnderWay(u) : FavoriteFits(favoriteCalls[k])
    /\ F!UnderWay(u) = {} /\ told[u] = TRUE => FlagFits(u)

FInv == FavoriteTypes /\ \A u \in Users \ Hasty : PatientUser(u)

\* A step on behalf of one user leaves the others alone.
LEMMA OthersUnmoved ==
  ASSUME FInv, NEW u \in Users, NEW v \in Users \ Hasty, v # u,
         favorites'[v] = favorites[v], favorited'[v] = favorited[v], told'[v] = told[v],
         F!UnderWay(v)' = F!UnderWay(v),
         \A k \in F!UnderWay(v) : favoriteCalls'[k] = favoriteCalls[k]
  PROVE  PatientUser(v)'
<1>1. PatientUser(v)
  BY DEF FInv
<1>2. \A k \in F!UnderWay(v) : favoriteCalls[k].user = v
  BY DEF F!UnderWay
<1> QED
  BY <1>1, <1>2 DEF PatientUser, FavoriteFits, FlagFits

\* A statement of a handler: only its user's row and flag can change.
LEMMA ServeStep ==
  ASSUME FInv, NEW k \in Calls, favoriteCalls[k] # None, NEW place \in F!Places,
         favoriteCalls' = [favoriteCalls EXCEPT ![k].at = place],
         favorites' \in [Users -> {0, 1}], favorited' \in [Users -> BOOLEAN \cup {None}],
         told' = told,
         \A v \in Users : v # favoriteCalls[k].user =>
            favorites'[v] = favorites[v] /\ favorited'[v] = favorited[v],
         favoriteCalls[k].user \notin Hasty => FavoriteFits(favoriteCalls[k])'
  PROVE  FInv'
<1> DEFINE c == favoriteCalls[k]
           d == [c EXCEPT !.at = place]
<1>1. c \in F!Request
  BY DEF FInv, FavoriteTypes
<1>2. d \in F!Request /\ d.user = c.user
  BY <1>1 DEF F!Request
<1>3. d # None /\ favoriteCalls' = [favoriteCalls EXCEPT ![k] = d]
  BY <1>2, NoRequestAssumption DEF FInv, FavoriteTypes
<1> HIDE DEF d
<1>4. FavoriteTypes'
  BY <1>2, <1>3 DEF FInv, FavoriteTypes
<1>5. \A v : F!UnderWay(v)' = F!UnderWay(v)
  BY <1>2, <1>3 DEF F!UnderWay, FInv, FavoriteTypes
<1>6. c.user \in Users /\ k \in F!UnderWay(c.user)
  BY <1>1 DEF F!Request, F!UnderWay
<1>7. ASSUME NEW v \in Users \ Hasty, v # c.user
      PROVE  PatientUser(v)'
  <2>1. \A j \in F!UnderWay(v) : j # k /\ j \in Calls
    BY <1>7 DEF F!UnderWay
  <2>2. \A j \in F!UnderWay(v) : favoriteCalls'[j] = favoriteCalls[j]
    BY <1>3, <2>1 DEF FInv, FavoriteTypes
  <2> QED
    BY <1>5, <1>6, <1>7, <2>2, OthersUnmoved
<1>8. ASSUME c.user \notin Hasty
      PROVE  PatientUser(c.user)'
  <2>1. \A j \in F!UnderWay(c.user) : j = k
    BY <1>6, <1>8 DEF FInv, PatientUser
  <2>2. F!UnderWay(c.user)' = {k}
    BY <1>5, <1>6, <2>1
  <2>3. FavoriteFits(favoriteCalls[k])'
    BY <1>8
  <2>4. c.user' = c.user
    BY <1>2, <1>3 DEF FInv, FavoriteTypes
  <2> QED
    BY <2>2, <2>3, <2>4 DEF PatientUser, F!UnderWay
<1> QED
  BY <1>4, <1>7, <1>8 DEF FInv

LEMMA RequestFacts ==
  ASSUME FInv, NEW k \in Calls, favoriteCalls[k] # None
  PROVE  LET c == favoriteCalls[k] IN
         /\ c \in F!Request /\ c.user \in Users /\ c.kind \in {"load", "add", "remove"}
         /\ k \in F!UnderWay(c.user)
         /\ c.user \notin Hasty => FavoriteFits(c)
<1>1. favoriteCalls[k] \in F!Request
  BY DEF FInv, FavoriteTypes
<1>2. favoriteCalls[k].user \in Users /\ favoriteCalls[k].kind \in {"load", "add", "remove"}
  BY <1>1 DEF F!Request
<1> QED
  BY <1>1, <1>2 DEF F!UnderWay, FInv, PatientUser

LEMMA MoveFields ==
  ASSUME FInv, NEW k \in Calls, favoriteCalls[k] # None, NEW place \in F!Places, F!Move(k, place)
  PROVE  /\ favoriteCalls' = [favoriteCalls EXCEPT ![k].at = place]
         /\ favoriteCalls'[k].user = favoriteCalls[k].user
         /\ favoriteCalls'[k].kind = favoriteCalls[k].kind
         /\ favoriteCalls'[k].live = favoriteCalls[k].live
         /\ favoriteCalls'[k].at = place
         /\ told' = told
  BY RequestFacts DEF F!Move, FInv, FavoriteTypes, F!Request

LEMMA GetStep ==
  ASSUME FInv, NEW k \in Calls, F!Get(k)
  PROVE  FInv'
<1> DEFINE c == favoriteCalls[k]
           place == CASE ~there -> "refused"
                      [] c.kind = "add" -> "exists"
                      [] OTHER -> "list"
<1>1. c # None /\ c.at = "get" /\ UNCHANGED favorites /\ F!Move(k, place)
  BY DEF F!Get, F!Doing
<1>2. favorited' = IF there /\ c.kind = "load" /\ c.live
                   THEN [favorited EXCEPT ![c.user] = FALSE]
                   ELSE favorited
  BY DEF F!Get
<1>3. place \in F!Places
  BY DEF F!Places, F!Answers
<1>4. /\ c.user \in Users /\ c.kind \in {"load", "add", "remove"}
      /\ c.user \notin Hasty => FavoriteFits(c)
  BY <1>1, RequestFacts
<1>5. /\ favoriteCalls' = [favoriteCalls EXCEPT ![k].at = place]
      /\ favoriteCalls'[k].user = c.user /\ favoriteCalls'[k].kind = c.kind
      /\ favoriteCalls'[k].live = c.live /\ favoriteCalls'[k].at = place
      /\ told' = told
  BY <1>1, <1>3, MoveFields
<1>6. /\ favorites' \in [Users -> {0, 1}] /\ favorited' \in [Users -> BOOLEAN \cup {None}]
      /\ \A v \in Users : v # c.user => favorites'[v] = favorites[v] /\ favorited'[v] = favorited[v]
  BY <1>1, <1>2, <1>4 DEF FInv, FavoriteTypes
<1>7. ASSUME c.user \notin Hasty
      PROVE  FavoriteFits(favoriteCalls[k])'
  <2>1. CASE ~there
    BY <1>1, <1>2, <1>4, <1>5, <1>7, <2>1 DEF FavoriteFits
  <2>2. CASE there /\ c.kind = "add"
    BY <1>1, <1>2, <1>4, <1>5, <1>7, <2>2 DEF FavoriteFits
  <2>3. CASE there /\ c.kind # "add"
    <3>1. c.kind = "load" /\ c.live /\ told[c.user] = FALSE
      BY <1>1, <1>4, <1>7, <2>3 DEF FavoriteFits
    <3>2. place = "list"
      BY <2>3
    <3> HIDE DEF place
    <3> QED
      BY <1>5, <3>1, <3>2 DEF FavoriteFits
  <2> QED
    BY <2>1, <2>2, <2>3
<1> QED
  BY <1>1, <1>3, <1>5, <1>6, <1>7, ServeStep

\* What a statement of a patient user's handler moves on to, and what it leaves
\* in the table.
Follows(c, place, kept) ==
    \/ /\ c.kind = "load" /\ place \in {"listed", "unlisted", "cut", "error"}
       /\ place = "listed" => kept = 1
       /\ place = "unlisted" => kept = 0
    \/ /\ c.kind = "add" /\ place \in {"create", "ok", "refused", "error"}
       /\ place = "ok" => kept = 1
       /\ told[c.user] = TRUE /\ place \in {"create", "refused"} => kept = 0
    \/ /\ c.kind = "remove" /\ place \in {"ok", "error"}
       /\ place = "ok" => kept = 0

\* Exists, Create, Delete, List and a failing statement move no flag, and no row
\* but their user's.
LEMMA TableStep ==
  ASSUME FInv, NEW k \in Calls, NEW place \in F!Places, NEW kept \in {0, 1},
         favoriteCalls[k] # None, F!Move(k, place), UNCHANGED favorited,
         \/ UNCHANGED favorites /\ kept = favorites[favoriteCalls[k].user]
         \/ favorites' = [favorites EXCEPT ![favoriteCalls[k].user] = kept],
         favoriteCalls[k].user \notin Hasty => Follows(favoriteCalls[k], place, kept)
  PROVE  FInv'
<1> DEFINE c == favoriteCalls[k]
<1>1. /\ c.user \in Users /\ (c.user \notin Hasty => FavoriteFits(c))
  BY RequestFacts
<1>2. /\ favoriteCalls' = [favoriteCalls EXCEPT ![k].at = place]
      /\ favoriteCalls'[k].user = c.user /\ favoriteCalls'[k].kind = c.kind
      /\ favoriteCalls'[k].live = c.live /\ favoriteCalls'[k].at = place
      /\ told' = told
  BY MoveFields
<1>3. /\ favorites' \in [Users -> {0, 1}] /\ favorited' \in [Users -> BOOLEAN \cup {None}]
      /\ \A v \in Users : v # c.user => favorites'[v] = favorites[v] /\ favorited'[v] = favorited[v]
      /\ favorites'[c.user] = kept
  BY <1>1 DEF FInv, FavoriteTypes
<1>4. ASSUME c.user \notin Hasty
      PROVE  FavoriteFits(favoriteCalls[k])'
  BY <1>1, <1>2, <1>3, <1>4 DEF FavoriteFits, Follows
<1> QED
  BY <1>2, <1>3, <1>4, ServeStep

LEMMA HandlersStep ==
  ASSUME FInv, NEW k \in Calls, F!Handle(k)
  PROVE  FInv'
<1> DEFINE c == favoriteCalls[k]
           kept == favorites[c.user]
<1>1. CASE F!Get(k)
  BY <1>1, GetStep
<1>2. ASSUME ~F!Get(k)
      PROVE  /\ c # None /\ c.user \in Users /\ kept \in {0, 1}
             /\ c.kind \in {"load", "add", "remove"} /\ UNCHANGED favorited
             /\ c.user \notin Hasty => FavoriteFits(c)
  <2>1. c # None /\ UNCHANGED favorited
    BY <1>2 DEF F!Handle, F!Exists, F!Create, F!Delete, F!List, F!Fails, F!Doing
  <2> QED
    BY <2>1, RequestFacts DEF FInv, FavoriteTypes
<1>3. {"create", "ok", "listed", "unlisted", "cut", "refused", "error"} \subseteq F!Places
  BY DEF F!Places, F!Answers
<1>4. CASE ~F!Get(k) /\ F!Exists(k)
  <2> DEFINE place == IF kept > 0 THEN "refused" ELSE "create"
  <2>1. c.at = "exists" /\ F!Move(k, place) /\ UNCHANGED favorites
    BY <1>4 DEF F!Exists, F!Doing
  <2>2. place \in F!Places /\ place \in {"create", "refused"}
    BY <1>3
  <2> HIDE DEF place
  <2>3. c.user \notin Hasty => Follows(c, place, kept)
    BY <1>2, <1>4, <2>1, <2>2 DEF FavoriteFits, Follows
  <2> QED
    BY <1>2, <1>4, <2>1, <2>2, <2>3, TableStep
<1>5. CASE ~F!Get(k) /\ F!Create(k)
  <2>1. c.user \notin Hasty => Follows(c, "ok", 1) /\ Follows(c, "error", kept)
    BY <1>2, <1>5 DEF F!Create, F!Doing, FavoriteFits, Follows
  <2>2. CASE F!Move(k, "ok") /\ favorites' = [favorites EXCEPT ![c.user] = 1]
    BY <1>2, <1>3, <1>5, <2>1, <2>2, TableStep
  <2>3. CASE F!Move(k, "error") /\ UNCHANGED favorites
    BY <1>2, <1>3, <1>5, <2>1, <2>3, TableStep
  <2> QED
    BY <1>5, <2>2, <2>3 DEF F!Create
<1>6. CASE ~F!Get(k) /\ F!Delete(k)
  <2>1. c.user \notin Hasty => Follows(c, "ok", 0)
    BY <1>2, <1>6 DEF F!Delete, F!Doing, FavoriteFits, Follows
  <2>2. F!Move(k, "ok") /\ favorites' = [favorites EXCEPT ![c.user] = 0]
    BY <1>6 DEF F!Delete
  <2> QED
    BY <1>2, <1>3, <1>6, <2>1, <2>2, TableStep
<1>7. CASE ~F!Get(k) /\ F!List(k)
  <2>1. PICK place \in {"listed", "unlisted", "cut"} :
          /\ F!Move(k, place) /\ UNCHANGED favorites
          /\ place = "listed" => kept = 1
          /\ place = "unlisted" => kept = 0
    BY <1>2, <1>7 DEF F!List
  <2>2. c.user \notin Hasty => Follows(c, place, kept)
    BY <1>2, <1>7, <2>1 DEF F!List, F!Doing, FavoriteFits, Follows
  <2> QED
    BY <1>2, <1>3, <1>7, <2>1, <2>2, TableStep
<1>8. CASE ~F!Get(k) /\ F!Fails(k)
  <2>1. PICK left \in {0, 1} :
          \/ UNCHANGED favorites /\ left = kept
          \/ favorites' = [favorites EXCEPT ![c.user] = left]
    BY <1>2, <1>8 DEF F!Fails
  <2>2. F!Move(k, "error") /\ (c.user \notin Hasty => Follows(c, "error", left))
    BY <1>2, <1>8 DEF F!Fails, Follows
  <2> QED
    BY <1>2, <1>3, <1>8, <2>1, <2>2, TableStep
<1> QED
  BY <1>1, <1>4, <1>5, <1>6, <1>7, <1>8 DEF F!Handle

\* What the page makes of an answer.
LEMMA FavoriteAnswerStep ==
  ASSUME FInv, NEW k \in Calls, F!Deliver(k)
  PROVE  FInv'
<1> DEFINE c == favoriteCalls[k]
<1>1. /\ c # None /\ c.at \in F!Answers
      /\ favoriteCalls' = [favoriteCalls EXCEPT ![k] = None] /\ UNCHANGED favorites
  BY DEF F!Deliver, F!Answered
<1>2. PICK u \in Users : u = c.user
  BY <1>1, RequestFacts
<1>3. /\ c.kind \in {"load", "add", "remove"} /\ k \in F!UnderWay(u)
      /\ u \notin Hasty => FavoriteFits(c)
  BY <1>1, <1>2, RequestFacts
<1>4. /\ favorited' \in [Users -> BOOLEAN \cup {None}]
      /\ \A v \in Users : v # u => favorited'[v] = favorited[v]
      /\ u \notin Hasty => favorited'[u] = F!Shown(u, c.kind, c.at)
  <2>1. F!Shown(u, c.kind, c.at) \in BOOLEAN \cup {None}
    BY <1>3 DEF F!Shown, FInv, FavoriteTypes
  <2>2. favorited' = IF c.live THEN [favorited EXCEPT ![u] = F!Shown(u, c.kind, c.at)]
                     ELSE favorited
    BY <1>2 DEF F!Deliver
  <2>3. u \notin Hasty => c.live
    BY <1>3 DEF FavoriteFits
  <2> QED
    BY <1>3, <2>1, <2>2, <2>3 DEF FInv, FavoriteTypes
<1>5. /\ told' \in [Users -> BOOLEAN]
      /\ \A v \in Users : v # u => told'[v] = told[v]
      /\ u \notin Hasty /\ told'[u] = TRUE =>
           \/ c.at \in {"ok", "listed", "unlisted"}
           \/ c.at = "refused" /\ told[u] = TRUE
  <2> DEFINE says == F!Told(u, c.at)
  <2>1. says \in BOOLEAN
    BY DEF F!Told
  <2>2. says = TRUE => \/ c.at \in {"ok", "listed", "unlisted"}
                       \/ c.at = "refused" /\ told[u] = TRUE
    BY DEF F!Told, FInv, FavoriteTypes
  <2>3. told' = IF c.live THEN [told EXCEPT ![u] = says] ELSE told
    BY <1>2 DEF F!Deliver
  <2>4. u \notin Hasty => c.live
    BY <1>3 DEF FavoriteFits
  <2> HIDE DEF says
  <2>5. told' \in [Users -> BOOLEAN] /\ \A v \in Users : v # u => told'[v] = told[v]
    BY <2>1, <2>3 DEF FInv, FavoriteTypes
  <2>6. u \notin Hasty => told'[u] = says
    BY <2>3, <2>4 DEF FInv, FavoriteTypes
  <2> QED
    BY <2>2, <2>5, <2>6
<1>6. FavoriteTypes'
  <2>1. favorites' \in [Users -> {0, 1}]
    BY <1>1 DEF FInv, FavoriteTypes
  <2>2. favoriteCalls' \in [Calls -> F!Request \cup {None}]
    BY <1>1 DEF FInv, FavoriteTypes
  <2> QED
    BY <1>4, <1>5, <2>1, <2>2 DEF FavoriteTypes
<1>7. \A v \in Users : v # u => F!UnderWay(v)' = F!UnderWay(v)
  BY <1>1, <1>2 DEF F!UnderWay, FInv, FavoriteTypes
<1>8. ASSUME NEW v \in Users \ Hasty, v # u
      PROVE  PatientUser(v)'
  <2>1. \A j \in F!UnderWay(v) : j # k /\ j \in Calls
    BY <1>2, <1>8 DEF F!UnderWay
  <2>2. \A j \in F!UnderWay(v) : favoriteCalls'[j] = favoriteCalls[j]
    BY <1>1, <2>1 DEF FInv, FavoriteTypes
  <2> QED
    BY <1>1, <1>3, <1>4, <1>5, <1>7, <1>8, <2>2, OthersUnmoved
<1>9. ASSUME u \notin Hasty
      PROVE  PatientUser(u)'
  <2>1. \A j \in F!UnderWay(u) : j = k
    BY <1>3, <1>9 DEF FInv, PatientUser
  <2>2. \A v : v = u => F!UnderWay(v)' = {}
    BY <1>1, <2>1 DEF F!UnderWay, FInv, FavoriteTypes
  <2>3. ASSUME told'[u] = TRUE PROVE FlagFits(u)'
    <3>1. /\ favorited'[u] = F!Shown(u, c.kind, c.at) /\ FavoriteFits(c) /\ c.user = u
          /\ c.at \in {"ok", "listed", "unlisted"} \/ (c.at = "refused" /\ told[u] = TRUE)
      BY <1>2, <1>3, <1>4, <1>5, <1>9, <2>3
    <3>2. \/ favorited'[u] = TRUE /\ favorites[u] = 1
          \/ favorited'[u] = FALSE /\ favorites[u] = 0
      <4>1. CASE c.kind = "load"
        <5>1. c.at \in {"listed", "unlisted"}
          BY <3>1, <4>1 DEF FavoriteFits
        <5> QED
          BY <3>1, <4>1, <5>1 DEF F!Shown, FavoriteFits
      <4>2. CASE c.kind = "add"
        BY <3>1, <4>2 DEF F!Shown, FavoriteFits
      <4>3. CASE c.kind = "remove"
        BY <3>1, <4>3 DEF F!Shown, FavoriteFits
      <4> QED
        BY <1>3, <4>1, <4>2, <4>3
    <3> QED
      BY <1>1, <3>2 DEF FlagFits
  <2> QED
    BY <2>2, <2>3 DEF PatientUser
<1> QED
  BY <1>6, <1>8, <1>9 DEF FInv

\* A click and a page that opens.  A patient user waits for nothing then.
LEMMA FavoriteSendStep ==
  ASSUME FInv, NEW k \in Calls, NEW u \in Users, F!Load(k, u) \/ F!ToggleFavorite(k, u)
  PROVE  FInv'
<1>1. PICK kind \in {"load", "add", "remove"}, place \in {"get", "delete"} :
         /\ F!Send(k, u, kind, place)
         /\ kind = "load" => /\ place = "get" /\ favorited' = [favorited EXCEPT ![u] = None]
                             /\ told' = [told EXCEPT ![u] = FALSE]
         /\ kind = "add" => /\ place = "get" /\ UNCHANGED <<favorited, told>>
                            /\ favorited[u] = FALSE
         /\ kind = "remove" => place = "delete" /\ UNCHANGED <<favorited, told>>
  BY DEF F!Load, F!ToggleFavorite, FInv, FavoriteTypes
<1> DEFINE new == [user |-> u, kind |-> kind, at |-> place, live |-> TRUE]
<1>2. /\ favoriteCalls[k] = None /\ (u \in Hasty \/ F!UnderWay(u) = {})
      /\ favoriteCalls' = [j \in Calls |->
            CASE j = k -> new
              [] kind = "load" /\ j \in F!UnderWay(u) -> [favoriteCalls[j] EXCEPT !.live = FALSE]
              [] OTHER -> favoriteCalls[j]]
      /\ UNCHANGED favorites
  BY <1>1 DEF F!Send
<1>3. new \in F!Request
  BY DEF F!Request, F!Places, F!Answers
<1>4. new # None /\ new.user = u /\ new.kind = kind /\ new.at = place /\ new.live = TRUE
  BY <1>3, NoRequestAssumption
<1> HIDE DEF new
<1>5. ASSUME NEW j \in F!UnderWay(u)
      PROVE  /\ [favoriteCalls[j] EXCEPT !.live = FALSE] \in F!Request
             /\ [favoriteCalls[j] EXCEPT !.live = FALSE].user = u
             /\ [favoriteCalls[j] EXCEPT !.live = FALSE] # None
  <2>1. favoriteCalls[j] \in F!Request /\ favoriteCalls[j].user = u
    BY DEF F!UnderWay, FInv, FavoriteTypes
  <2>2. [favoriteCalls[j] EXCEPT !.live = FALSE] \in F!Request
    BY <2>1 DEF F!Request
  <2> QED
    BY <2>1, <2>2, NoRequestAssumption DEF F!Request
<1>6. FavoriteTypes'
  BY <1>1, <1>2, <1>3, <1>5 DEF FInv, FavoriteTypes
<1>7. \A v \in Users : v # u => F!UnderWay(v)' = F!UnderWay(v)
  BY <1>2, <1>4, <1>5 DEF F!UnderWay
<1>8. ASSUME NEW v \in Users \ Hasty, v # u
      PROVE  PatientUser(v)'
  <2>1. \A j \in F!UnderWay(v) : j \in Calls /\ j # k /\ j \notin F!UnderWay(u)
    BY <1>2, <1>8 DEF F!UnderWay
  <2>2. \A j \in F!UnderWay(v) : favoriteCalls'[j] = favoriteCalls[j]
    BY <1>2, <2>1
  <2>3. favorited'[v] = favorited[v] /\ told'[v] = told[v]
    BY <1>1, <1>8 DEF FInv, FavoriteTypes
  <2> QED
    BY <1>2, <1>7, <1>8, <2>2, <2>3, OthersUnmoved
<1>9. ASSUME u \notin Hasty
      PROVE  PatientUser(u)'
  <2>1. F!UnderWay(u)' = {k}
    BY <1>2, <1>4, <1>9 DEF F!UnderWay
  <2>2. told[u] = TRUE => FlagFits(u)
    BY <1>2, <1>9 DEF FInv, PatientUser
  <2>3. favoriteCalls'[k] = new /\ favorites' = favorites
    BY <1>2 DEF F!UnderWay
  <2>4. FavoriteFits(favoriteCalls[k])'
    <3>1. CASE kind = "load"
      <4>1. told'[u] = FALSE
        BY <1>1, <3>1 DEF FInv, FavoriteTypes
      <4> QED
        BY <1>1, <1>4, <2>3, <3>1, <4>1 DEF FavoriteFits
    <3>2. CASE kind = "add"
      <4>1. favorited[u] = FALSE /\ UNCHANGED <<favorited, told>> /\ place = "get"
        BY <1>1, <3>2
      <4>2. told[u] = TRUE => favorites[u] = 0
        BY <2>2, <4>1 DEF FlagFits
      <4> QED
        BY <1>4, <2>3, <3>2, <4>1, <4>2 DEF FavoriteFits
    <3>3. CASE kind = "remove"
      BY <1>1, <1>4, <2>3, <3>3 DEF FavoriteFits
    <3> QED
      BY <3>1, <3>2, <3>3
  <2> QED
    BY <2>1, <2>4 DEF PatientUser
<1> QED
  BY <1>6, <1>8, <1>9 DEF FInv

LEMMA FavoritesInv ==
  ASSUME FInv, [F!Next]_favoriteVars
  PROVE  FInv'
<1>1. CASE UNCHANGED favoriteVars \/ F!DeleteActivity
  <2>1. UNCHANGED <<favorites, favorited, told, favoriteCalls>>
    BY <1>1 DEF favoriteVars, F!DeleteActivity
  <2>2. \A v \in Users \ Hasty : PatientUser(v)'
    BY <2>1 DEF FInv, PatientUser, FavoriteFits, FlagFits, F!UnderWay
  <2> QED
    BY <2>1, <2>2 DEF FInv, FavoriteTypes
<1> QED
  BY <1>1, HandlersStep, FavoriteAnswerStep, FavoriteSendStep DEF F!Next
-----------------------------------------------------------------------------
(* The session.                                                            *)

SessionTypes ==
    /\ owner \in [S!Tokens -> S!AnyUser]
    /\ token \in [Tabs -> S!AnyToken]
    /\ user \in [Tabs -> S!AnyUser]
    /\ saved \in [token : S!AnyToken, user : S!AnyUser]
    /\ sessionCalls \in [Pair -> S!Call \cup {None}]

\* A token with the user it was issued to.
Issued(k, u) == k \in S!Tokens /\ u \in Users /\ owner[k] = u

\* What a tab or localStorage holds: nothing, or a token and its user.
LoginFits(k, u) == (k = None /\ u = None) \/ Issued(k, u)

CallFits(r) ==
    /\ r.kind = "login" => r.user \in Users
    /\ r.kind \in {"request", "profile"} => r.token \in S!Tokens
    /\ r.got # None => Issued(r.got, r.user)

\* What the interceptor or the profile page will do with the answer of a patient
\* tab's request is about the token the tab still has.
TabFits(r) ==
    r.kind \in {"request", "profile"} =>
        /\ r.token = token[r.tab]
        /\ r.answer = "401" => r.token \in expired

PatientTab(t) ==
    /\ LoginFits(token[t], user[t])
    /\ \A c1, c2 \in S!WaitsFor(t) : c1 = c2
    /\ \A c \in S!WaitsFor(t) : TabFits(sessionCalls[c])

SInv ==
    /\ SessionTypes
    /\ LoginFits(saved.token, saved.user)
    /\ \A c \in Pair : sessionCalls[c] # None => CallFits(sessionCalls[c])
    /\ \A t \in Patient : PatientTab(t)

\* A token keeps its user.
OwnersKept == \A k \in S!Tokens, u \in Users : owner[k] = u => owner'[k] = u

LEMMA IssuedStays ==
  ASSUME OwnersKept, NEW k, NEW u, LoginFits(k, u)
  PROVE  LoginFits(k, u)'
  BY DEF OwnersKept, LoginFits, Issued, S!Tokens

LEMMA CallStays ==
  ASSUME OwnersKept, NEW r, CallFits(r)
  PROVE  CallFits(r)'
  BY DEF OwnersKept, CallFits, Issued, S!Tokens

\* A tab that a step does not touch, but for requests of it that end.
LEMMA TabUnmoved ==
  ASSUME OwnersKept, expired \subseteq expired', NEW t \in Patient, PatientTab(t),
         token'[t] = token[t], user'[t] = user[t],
         \A c \in S!WaitsFor(t)' : c \in S!WaitsFor(t) /\ sessionCalls'[c] = sessionCalls[c]
  PROVE  PatientTab(t)'
<1>1. LoginFits(token[t], user[t])'
  BY IssuedStays DEF PatientTab
<1>2. \A c1, c2 \in S!WaitsFor(t)' : c1 = c2
  BY DEF PatientTab
<1>3. ASSUME NEW c \in S!WaitsFor(t)'
      PROVE  TabFits(sessionCalls[c])'
  <2>1. sessionCalls'[c] = sessionCalls[c] /\ TabFits(sessionCalls[c])
    BY <1>3 DEF PatientTab
  <2>2. sessionCalls[c].tab = t
    BY <1>3 DEF S!WaitsFor
  <2> QED
    BY <2>1, <2>2 DEF TabFits
<1> QED
  BY <1>1, <1>2, <1>3 DEF PatientTab

LEMMA CallFacts ==
  ASSUME SInv, NEW c \in Pair, sessionCalls[c] # None
  PROVE  LET r == sessionCalls[c] IN
         /\ r \in S!Call /\ r.tab \in Tabs /\ r.kind \in S!Kinds /\ r.token \in S!AnyToken
         /\ r.user \in S!AnyUser /\ r.answer \in S!AnyAnswer /\ r.got \in S!AnyToken
         /\ CallFits(r)
         /\ c \in S!WaitsFor(r.tab)
<1>1. sessionCalls[c] \in S!Call
  BY DEF SInv, SessionTypes
<1> QED
  BY <1>1 DEF SInv, S!WaitsFor, S!Call

\* A request is sent with the token the tab has, or the saved one for fetch.
LEMMA SendStep ==
  ASSUME SInv, NEW c \in Pair, NEW t \in Tabs, NEW kind \in S!Kinds,
         NEW tok \in S!AnyToken, NEW who \in S!AnyUser,
         S!Send(c, t, kind, tok, who),
         kind = "login" => who \in Users,
         kind \in {"request", "profile"} => tok \in S!Tokens /\ tok = token[t]
  PROVE  SInv'
<1> DEFINE r == [tab |-> t, kind |-> kind, token |-> tok, user |-> who,
                 answer |-> None, got |-> None]
<1>1. /\ sessionCalls[c] = None /\ (t \in Patient => S!WaitsFor(t) = {})
      /\ sessionCalls' = [sessionCalls EXCEPT ![c] = r]
      /\ UNCHANGED <<owner, expired, token, user, saved>>
  BY DEF S!Send, S!May
<1>2. r \in S!Call
  BY DEF S!Call, S!AnyAnswer, S!AnyToken
<1>3. /\ r # None /\ r.tab = t /\ r.kind = kind /\ r.token = tok /\ r.user = who
      /\ r.answer = None /\ r.got = None
  BY <1>2, NoRequestAssumption
<1> HIDE DEF r
<1>4. SessionTypes'
  BY <1>1, <1>2 DEF SInv, SessionTypes
<1>5. OwnersKept /\ expired \subseteq expired'
  BY <1>1 DEF OwnersKept
<1>6. LoginFits(saved.token, saved.user)'
  BY <1>1, <1>5, IssuedStays DEF SInv
<1>7. CallFits(r)
  BY <1>3 DEF CallFits
<1>8. ASSUME NEW d \in Pair, sessionCalls'[d] # None
      PROVE  CallFits(sessionCalls[d])'
  <2>1. CASE d = c
    <3>1. sessionCalls'[d] = r
      BY <1>1, <2>1 DEF SInv, SessionTypes
    <3> QED
      BY <1>5, <1>7, <3>1, CallStays DEF CallFits, Issued
  <2>2. CASE d # c
    BY <1>1, <1>5, <1>8, <2>2, CallStays DEF SInv, SessionTypes
  <2> QED
    BY <2>1, <2>2
<1>9. ASSUME NEW v \in Patient, v # t
      PROVE  PatientTab(v)'
  <2>1. \A d \in S!WaitsFor(v)' : d \in S!WaitsFor(v) /\ sessionCalls'[d] = sessionCalls[d]
    BY <1>1, <1>3, <1>9 DEF S!WaitsFor, SInv, SessionTypes
  <2> QED
    BY <1>1, <1>5, <2>1, TabUnmoved DEF SInv
<1>10. ASSUME t \in Patient
       PROVE  PatientTab(t)'
  <2>1. S!WaitsFor(t)' = {c}
    BY <1>1, <1>3, <1>10 DEF S!WaitsFor, SInv, SessionTypes
  <2>2. LoginFits(token[t], user[t])'
    BY <1>1, <1>5, <1>10, IssuedStays DEF SInv, PatientTab
  <2>3. sessionCalls'[c] = r
    BY <1>1 DEF SInv, SessionTypes
  <2>4. TabFits(sessionCalls[c])'
    BY <1>1, <1>3, <2>3, NoValueAssumption DEF TabFits
  <2> QED
    BY <2>1, <2>2, <2>4 DEF PatientTab
<1> QED
  BY <1>4, <1>6, <1>8, <1>9, <1>10 DEF SInv

\* The four requests of the pages.
LEMMA PageStep ==
  ASSUME SInv, NEW c \in Pair, NEW t \in Tabs,
         \/ \E u \in Users : S!SubmitLogin(c, t, u)
         \/ S!Request(c, t) \/ S!SaveProfile(c, t) \/ S!Fetch(c, t)
  PROVE  SInv'
<1>1. /\ token[t] \in S!AnyToken /\ user[t] \in S!AnyUser /\ saved.token \in S!AnyToken
      /\ token[t] # None => token[t] \in S!Tokens
  BY DEF SInv, SessionTypes, S!AnyToken
<1>2. {"login", "request", "profile", "fetch"} = S!Kinds /\ Users \subseteq S!AnyUser
  BY DEF S!Kinds, S!AnyUser
<1>3. ASSUME NEW u \in Users, S!SubmitLogin(c, t, u)
      PROVE  SInv'
  <2>1. S!Send(c, t, "login", token[t], u)
    BY <1>3 DEF S!SubmitLogin
  <2> QED
    BY <1>1, <1>2, <2>1, SendStep
<1>4. CASE S!Request(c, t)
  <2>1. token[t] # None /\ S!Send(c, t, "request", token[t], user[t])
    BY <1>4 DEF S!Request
  <2> QED
    BY <1>1, <1>2, <2>1, SendStep
<1>5. CASE S!SaveProfile(c, t)
  <2>1. token[t] # None /\ S!Send(c, t, "profile", token[t], user[t])
    BY <1>5 DEF S!SaveProfile
  <2> QED
    BY <1>1, <1>2, <2>1, SendStep
<1>6. CASE S!Fetch(c, t)
  <2>1. S!Send(c, t, "fetch", saved.token, user[t])
    BY <1>6 DEF S!Fetch
  <2> QED
    BY <1>1, <1>2, <2>1, SendStep
<1> QED
  BY <1>3, <1>4, <1>5, <1>6

\* The server answers a request of tab t with r.
LEMMA AnsweredStep ==
  ASSUME SInv, NEW c \in Pair, NEW r \in S!Call, sessionCalls[c] # None,
         sessionCalls' = [sessionCalls EXCEPT ![c] = r],
         r.tab = sessionCalls[c].tab,
         CallFits(r)', r.tab \in Patient => TabFits(r),
         owner' \in [S!Tokens -> S!AnyUser], OwnersKept,
         UNCHANGED <<expired, token, user, saved>>
  PROVE  SInv'
<1>1. r # None
  BY NoRequestAssumption
<1>2. SessionTypes'
  BY DEF SInv, SessionTypes
<1>3. LoginFits(saved.token, saved.user)'
  BY IssuedStays DEF SInv
<1>4. ASSUME NEW d \in Pair, sessionCalls'[d] # None
      PROVE  CallFits(sessionCalls[d])'
  <2>1. CASE d = c
    <3>1. sessionCalls'[d] = r
      BY <2>1 DEF SInv, SessionTypes
    <3> QED
      BY <3>1 DEF CallFits, Issued
  <2>2. CASE d # c
    BY <1>4, <2>2, CallStays DEF SInv, SessionTypes
  <2> QED
    BY <2>1, <2>2
<1>5. \A v : S!WaitsFor(v)' = S!WaitsFor(v)
  BY <1>1 DEF S!WaitsFor, SInv, SessionTypes
<1>6. ASSUME NEW v \in Patient
      PROVE  PatientTab(v)'
  <2>1. LoginFits(token[v], user[v])'
    BY IssuedStays DEF SInv, PatientTab
  <2>2. ASSUME NEW d \in S!WaitsFor(v)
        PROVE  TabFits(sessionCalls[d])'
    <3>1. CASE d = c
      <4>1. r.tab = v /\ sessionCalls'[d] = r
        BY <2>2, <3>1 DEF S!WaitsFor, SInv, SessionTypes
      <4> QED
        BY <1>6, <4>1 DEF TabFits
    <3>2. CASE d # c
      <4>1. sessionCalls'[d] = sessionCalls[d] /\ TabFits(sessionCalls[d])
        BY <2>2, <3>2 DEF S!WaitsFor, SInv, SessionTypes, PatientTab
      <4> QED
        BY <4>1 DEF TabFits
    <3> QED
      BY <3>1, <3>2
  <2> QED
    BY <1>5, <2>1, <2>2 DEF SInv, PatientTab
<1> QED
  BY <1>2, <1>3, <1>4, <1>6 DEF SInv

LEMMA ServerStep ==
  ASSUME SInv, NEW c \in Pair, S!Serve(c)
  PROVE  SInv'
<1> DEFINE r == sessionCalls[c]
<1>1. r # None /\ r.answer = None /\ UNCHANGED <<expired, token, user, saved>>
  BY DEF S!Serve
<1>2. /\ r \in S!Call /\ r.kind \in S!Kinds /\ r.token \in S!AnyToken
      /\ r.user \in S!AnyUser /\ r.got \in S!AnyToken /\ CallFits(r) /\ c \in S!WaitsFor(r.tab)
  BY <1>1, CallFacts
<1>3. r.tab \in Patient => TabFits(r)
  BY <1>2 DEF SInv, PatientTab
<1>4. "ok" \in S!AnyAnswer /\ "401" \in S!AnyAnswer
  BY DEF S!AnyAnswer
<1>5. ASSUME r.kind = "login", NEW tok \in S!Tokens, owner[tok] = None,
             owner' = [owner EXCEPT ![tok] = r.user],
             sessionCalls' = [sessionCalls EXCEPT ![c].answer = "ok", ![c].got = tok]
      PROVE  SInv'
  <2> DEFINE ok == [r EXCEPT !.answer = "ok"]
  <2>1. ok \in S!Call /\ ok.tab = r.tab /\ ok.kind = r.kind /\ ok.user = r.user
    BY <1>2, <1>4 DEF S!Call
  <2> HIDE DEF ok
  <2>2. tok \in S!AnyToken
    BY DEF S!AnyToken
  <2>8. PICK s \in S!Call : s = [ok EXCEPT !.got = tok]
    BY <2>1, <2>2 DEF S!Call
  <2>3. s.tab = r.tab /\ s.kind = "login" /\ s.user = r.user /\ s.got = tok
    BY <1>5, <2>1, <2>2, <2>8 DEF S!Call
  <2>4. sessionCalls' = [sessionCalls EXCEPT ![c] = s]
    BY <1>5, <2>8 DEF ok, SInv, SessionTypes
  <2>5. r.user \in Users
    BY <1>2, <1>5 DEF CallFits
  <2>6. owner' \in [S!Tokens -> S!AnyUser] /\ owner'[tok] = r.user /\ OwnersKept
    BY <1>2, <1>5, NoValueAssumption DEF SInv, SessionTypes, OwnersKept
  <2>7. CallFits(s)'
    BY <2>3, <2>5, <2>6 DEF CallFits, Issued
  <2>9. TabFits(s)
    BY <2>3 DEF TabFits
  <2> QED
    BY <1>1, <2>3, <2>4, <2>6, <2>7, <2>9, AnsweredStep
<1>6. ASSUME NEW answer \in {"ok", "401"}, UNCHANGED owner,
             sessionCalls' = [sessionCalls EXCEPT ![c].answer = answer],
             r.kind # "login" /\ answer = "401" => ~S!Good(r.token)
      PROVE  SInv'
  <2>7. PICK s \in S!Call : s = [r EXCEPT !.answer = answer]
    BY <1>2, <1>4 DEF S!Call
  <2>1. /\ s.tab = r.tab /\ s.kind = r.kind /\ s.user = r.user
        /\ s.token = r.token /\ s.got = r.got /\ s.answer = answer
    BY <1>2, <1>4, <2>7 DEF S!Call
  <2>2. sessionCalls' = [sessionCalls EXCEPT ![c] = s]
    BY <1>6, <2>7 DEF SInv, SessionTypes
  <2>3. CallFits(s)'
    BY <1>2, <1>6, <2>1 DEF CallFits, Issued
  <2>4. r.kind \in {"request", "profile"} => r.token # None
    BY <1>2, NoValueAssumption DEF CallFits, S!Tokens
  <2>5. r.tab \in Patient => TabFits(s)
    BY <1>3, <1>6, <2>1, <2>4 DEF TabFits, S!Good
  <2>6. owner' \in [S!Tokens -> S!AnyUser] /\ OwnersKept
    BY <1>6 DEF SInv, SessionTypes, OwnersKept
  <2> QED
    BY <1>1, <2>1, <2>2, <2>3, <2>5, <2>6, AnsweredStep
<1>7. CASE r.kind = "login"
  <2>1. \/ \E tok \in S!Tokens :
             /\ owner[tok] = None
             /\ owner' = [owner EXCEPT ![tok] = r.user]
             /\ sessionCalls' = [sessionCalls EXCEPT ![c].answer = "ok", ![c].got = tok]
        \/ sessionCalls' = [sessionCalls EXCEPT ![c].answer = "401"] /\ UNCHANGED owner
    BY <1>7 DEF S!Serve
  <2> QED
    BY <1>5, <1>6, <1>7, <2>1
<1>8. CASE r.kind # "login"
  <2> DEFINE answer == IF S!Good(r.token) THEN "ok" ELSE "401"
  <2>1. UNCHANGED owner /\ sessionCalls' = [sessionCalls EXCEPT ![c].answer = answer]
    BY <1>8 DEF S!Serve
  <2>2. answer \in {"ok", "401"} /\ (answer = "401" => ~S!Good(r.token))
    OBVIOUS
  <2> HIDE DEF answer
  <2> QED
    BY <1>6, <2>1, <2>2
<1> QED
  BY <1>7, <1>8

\* A step that ends requests and gives one tab another login, or none.
LEMMA LoginStep ==
  ASSUME SInv, UNCHANGED <<owner, expired>>, NEW t \in Tabs,
         NEW k \in S!AnyToken, NEW u \in S!AnyUser,
         t \in Patient => LoginFits(k, u),
         token' = [token EXCEPT ![t] = k], user' = [user EXCEPT ![t] = u],
         saved' \in [token : S!AnyToken, user : S!AnyUser],
         LoginFits(saved'.token, saved'.user),
         sessionCalls' \in [Pair -> S!Call \cup {None}],
         \A c \in Pair : sessionCalls'[c] \in {sessionCalls[c], None},
         t \in Patient => k = token[t] \/ S!WaitsFor(t)' = {}
  PROVE  SInv'
<1>1. SessionTypes'
  BY DEF SInv, SessionTypes
<1>2. OwnersKept /\ expired \subseteq expired'
  BY DEF OwnersKept
<1>3. LoginFits(saved.token, saved.user)'
  BY <1>2 DEF LoginFits, Issued
<1>4. ASSUME NEW c \in Pair, sessionCalls'[c] # None
      PROVE  CallFits(sessionCalls[c])'
  BY <1>2, <1>4, CallStays DEF SInv
<1>5. \A v : \A c \in S!WaitsFor(v)' : c \in S!WaitsFor(v) /\ sessionCalls'[c] = sessionCalls[c]
  BY DEF S!WaitsFor
<1>6. ASSUME NEW v \in Patient, v # t
      PROVE  PatientTab(v)'
  <2>1. token'[v] = token[v] /\ user'[v] = user[v]
    BY <1>6, PatientAssumption DEF SInv, SessionTypes
  <2> QED
    BY <1>2, <1>5, <1>6, <2>1, TabUnmoved DEF SInv
<1>7. ASSUME t \in Patient
      PROVE  PatientTab(t)'
  <2>1. token'[t] = k /\ user'[t] = u
    BY DEF SInv, SessionTypes
  <2>2. LoginFits(token[t], user[t])'
    BY <1>2, <1>7, <2>1, IssuedStays DEF LoginFits, Issued
  <2>3. \A c1, c2 \in S!WaitsFor(t)' : c1 = c2
    BY <1>5, <1>7 DEF SInv, PatientTab
  <2>4. ASSUME NEW c \in S!WaitsFor(t)'
        PROVE  TabFits(sessionCalls[c])'
    <3>1. sessionCalls'[c] = sessionCalls[c] /\ TabFits(sessionCalls[c]) /\ c \in S!WaitsFor(t)
      BY <1>5, <1>7, <2>4 DEF SInv, PatientTab
    <3>2. sessionCalls[c].tab = t /\ k = token[t]
      BY <1>7, <2>4, <3>1 DEF S!WaitsFor
    <3> QED
      BY <2>1, <3>1, <3>2 DEF TabFits
  <2> QED
    BY <2>2, <2>3, <2>4 DEF PatientTab
<1> QED
  BY <1>1, <1>3, <1>4, <1>6, <1>7 DEF SInv

\* The one request a patient tab waits for has ended.
LEMMA ForgetStep ==
  ASSUME SInv, NEW c \in Pair, sessionCalls[c] # None, S!Forget(c),
         NEW t, t = sessionCalls[c].tab
  PROVE  /\ sessionCalls' \in [Pair -> S!Call \cup {None}]
         /\ \A d \in Pair : sessionCalls'[d] \in {sessionCalls[d], None}
         /\ t \in Patient => S!WaitsFor(t)' = {}
<1>1. sessionCalls' = [sessionCalls EXCEPT ![c] = None]
  BY DEF S!Forget
<1>2. c \in S!WaitsFor(t)
  BY CallFacts
<1>3. ASSUME t \in Patient
      PROVE  S!WaitsFor(t)' = {}
  <2>1. \A d \in S!WaitsFor(t) : d = c
    BY <1>2, <1>3 DEF SInv, PatientTab
  <2> QED
    BY <1>1, <2>1 DEF S!WaitsFor, SInv, SessionTypes
<1> QED
  BY <1>1, <1>3 DEF SInv, SessionTypes

\* A tab that is left or loaded anew forgets its requests.
LEMMA AllForgotten ==
  ASSUME SInv, NEW t,
         sessionCalls' = [d \in Pair |-> IF d \in S!WaitsFor(t) THEN None ELSE sessionCalls[d]]
  PROVE  /\ sessionCalls' \in [Pair -> S!Call \cup {None}]
         /\ \A d \in Pair : sessionCalls'[d] \in {sessionCalls[d], None}
         /\ S!WaitsFor(t)' = {}
  BY DEF SInv, SessionTypes, S!WaitsFor

LEMMA TabStep ==
  ASSUME SInv, NEW t \in Tabs, S!Logout(t) \/ S!Reload(t)
  PROVE  SInv'
<1>1. /\ None \in S!AnyToken /\ None \in S!AnyUser /\ LoginFits(None, None)
      /\ saved.token \in S!AnyToken /\ saved.user \in S!AnyUser
      /\ LoginFits(saved.token, saved.user)
  BY DEF SInv, SessionTypes, S!AnyToken, S!AnyUser, LoginFits
<1>2. CASE S!Logout(t)
  <2>1. /\ UNCHANGED <<owner, expired, sessionCalls>> /\ saved' = S!NoLogin
        /\ token' = [token EXCEPT ![t] = None] /\ user' = [user EXCEPT ![t] = None]
        /\ t \in Patient => S!WaitsFor(t) = {}
    BY <1>2 DEF S!Logout, S!LogoutStore, S!May
  <2>2. saved' \in [token : S!AnyToken, user : S!AnyUser] /\ LoginFits(saved'.token, saved'.user)
    BY <1>1, <2>1 DEF S!NoLogin
  <2>3. t \in Patient => S!WaitsFor(t)' = {}
    BY <2>1 DEF S!WaitsFor
  <2>4. sessionCalls' \in [Pair -> S!Call \cup {None}]
    BY <2>1 DEF SInv, SessionTypes
  <2> QED
    BY <1>1, <2>1, <2>2, <2>3, <2>4, LoginStep
<1>3. CASE S!Reload(t)
  <2>1. /\ UNCHANGED <<owner, expired, saved>>
        /\ token' = [token EXCEPT ![t] = saved.token] /\ user' = [user EXCEPT ![t] = saved.user]
        /\ sessionCalls' = [d \in Pair |-> IF d \in S!WaitsFor(t) THEN None ELSE sessionCalls[d]]
    BY <1>3 DEF S!Reload
  <2>2. saved' \in [token : S!AnyToken, user : S!AnyUser] /\ LoginFits(saved'.token, saved'.user)
    BY <1>1, <2>1 DEF SInv, SessionTypes
  <2> QED
    BY <1>1, <2>1, <2>2, AllForgotten, LoginStep
<1> QED
  BY <1>2, <1>3

LEMMA ExpireStep ==
  ASSUME SInv, NEW tok \in S!Tokens, S!Expire(tok)
  PROVE  SInv'
<1>1. /\ UNCHANGED <<owner, token, user, saved, sessionCalls>>
      /\ expired \subseteq expired' /\ OwnersKept
  BY DEF S!Expire, OwnersKept
<1>2. SessionTypes'
  BY <1>1 DEF SInv, SessionTypes
<1>3. LoginFits(saved.token, saved.user)'
  BY <1>1, IssuedStays DEF SInv
<1>4. \A c \in Pair : sessionCalls'[c] # None => CallFits(sessionCalls[c])'
  BY <1>1 DEF SInv, CallFits, Issued
<1>5. ASSUME NEW t \in Patient
      PROVE  PatientTab(t)'
  <2>1. \A c \in S!WaitsFor(t)' : c \in S!WaitsFor(t) /\ sessionCalls'[c] = sessionCalls[c]
    BY <1>1 DEF S!WaitsFor
  <2> QED
    BY <1>1, <2>1, TabUnmoved DEF SInv
<1> QED
  BY <1>2, <1>3, <1>4, <1>5 DEF SInv

\* The continuations.
LEMMA LoggedInStep ==
  ASSUME SInv, NEW c \in Pair, S!LoggedIn(c)
  PROVE  SInv'
<1> DEFINE r == sessionCalls[c]
<1>1. /\ r # None /\ r.got # None /\ S!Forget(c) /\ UNCHANGED <<owner, expired>>
      /\ token' = [token EXCEPT ![r.tab] = r.got]
      /\ user' = [user EXCEPT ![r.tab] = r.user]
      /\ saved' = [token |-> r.got, user |-> r.user]
  BY DEF S!LoggedIn
<1>2. PICK t \in Tabs : t = r.tab
  BY <1>1, CallFacts
<1>4. r.got \in S!AnyToken /\ r.user \in S!AnyUser /\ LoginFits(r.got, r.user)
  BY <1>1, CallFacts DEF CallFits, LoginFits
<1>5. /\ sessionCalls' \in [Pair -> S!Call \cup {None}]
      /\ \A d \in Pair : sessionCalls'[d] \in {sessionCalls[d], None}
      /\ t \in Patient => S!WaitsFor(t)' = {}
  BY <1>1, <1>2, ForgetStep
<1>3. saved' \in [token : S!AnyToken, user : S!AnyUser] /\ LoginFits(saved'.token, saved'.user)
  BY <1>1, <1>4
<1> QED
  BY <1>1, <1>2, <1>3, <1>4, <1>5, LoginStep

LEMMA RefusedStep ==
  ASSUME SInv, NEW c \in Pair, S!Refused(c)
  PROVE  SInv'
<1> DEFINE r == sessionCalls[c]
<1>1. r # None /\ UNCHANGED <<owner, expired>>
  BY DEF S!Refused
<1>6. PICK t \in Tabs : t = r.tab
  BY <1>1, CallFacts
<1>2. /\ token[t] \in S!AnyToken /\ user[t] \in S!AnyUser
      /\ t \in Patient => LoginFits(token[t], user[t])
  BY <1>6 DEF SInv, SessionTypes, PatientTab
<1>3. None \in S!AnyToken /\ None \in S!AnyUser /\ LoginFits(None, None)
  BY DEF S!AnyToken, S!AnyUser, LoginFits
<1>4. CASE r.kind = "fetch"
  <2>1. S!Forget(c) /\ UNCHANGED <<token, user, saved>>
    BY <1>4, <1>6 DEF S!Refused
  <2>2. /\ token' = [token EXCEPT ![t] = token[t]]
        /\ user' = [user EXCEPT ![t] = user[t]]
    BY <2>1 DEF SInv, SessionTypes
  <2>3. saved' \in [token : S!AnyToken, user : S!AnyUser] /\ LoginFits(saved'.token, saved'.user)
    BY <2>1 DEF SInv, SessionTypes
  <2>4. /\ sessionCalls' \in [Pair -> S!Call \cup {None}]
        /\ \A d \in Pair : sessionCalls'[d] \in {sessionCalls[d], None}
    BY <1>1, <1>6, <2>1, ForgetStep
  <2> QED
    BY <1>1, <1>2, <2>1, <2>2, <2>3, <2>4, LoginStep
<1>5. CASE r.kind # "fetch"
  <2>1. /\ token' = [token EXCEPT ![t] = None] /\ user' = [user EXCEPT ![t] = None]
        /\ saved' = S!NoLogin
        /\ \/ S!Forget(c)
           \/ sessionCalls' = [d \in Pair |-> IF d \in S!WaitsFor(t) THEN None ELSE sessionCalls[d]]
    BY <1>5, <1>6 DEF S!Refused, S!LogoutStore
  <2>2. saved' \in [token : S!AnyToken, user : S!AnyUser] /\ LoginFits(saved'.token, saved'.user)
    BY <1>3, <2>1 DEF S!NoLogin
  <2>3. /\ sessionCalls' \in [Pair -> S!Call \cup {None}]
        /\ \A d \in Pair : sessionCalls'[d] \in {sessionCalls[d], None}
        /\ t \in Patient => S!WaitsFor(t)' = {}
    BY <1>1, <1>6, <2>1, ForgetStep, AllForgotten
  <2> QED
    BY <1>1, <1>2, <1>3, <2>1, <2>2, <2>3, LoginStep
<1> QED
  BY <1>4, <1>5

LEMMA DoneStep ==
  ASSUME SInv, NEW c \in Pair, S!Done(c)
  PROVE  SInv'
<1> DEFINE r == sessionCalls[c]
<1>1. r # None /\ S!Forget(c) /\ UNCHANGED <<owner, expired, token, saved>>
  BY DEF S!Done
<1>2. PICK t \in Tabs : t = r.tab
  BY <1>1, CallFacts
<1>3. CallFits(r) /\ c \in S!WaitsFor(t)
  BY <1>1, <1>2, CallFacts
<1>4. PICK w \in S!AnyUser : w = IF r.kind = "profile" THEN owner[r.token] ELSE user[t]
  BY <1>3 DEF SInv, SessionTypes, CallFits
<1>5. user' = [user EXCEPT ![t] = w]
  BY <1>2, <1>4 DEF S!Done, SInv, SessionTypes
<1>6. token[t] \in S!AnyToken /\ token' = [token EXCEPT ![t] = token[t]]
  BY <1>1 DEF SInv, SessionTypes
<1>7. ASSUME t \in Patient
      PROVE  LoginFits(token[t], w)
  <2>1. LoginFits(token[t], user[t]) /\ TabFits(r)
    BY <1>3, <1>7 DEF SInv, PatientTab
  <2>2. CASE r.kind = "profile"
    <3>1. r.token \in S!Tokens /\ r.token = token[t]
      BY <1>2, <1>3, <2>1, <2>2 DEF CallFits, TabFits
    <3>2. r.token # None
      BY <3>1, NoValueAssumption DEF S!Tokens
    <3> QED
      BY <1>4, <2>1, <2>2, <3>1, <3>2 DEF LoginFits, Issued
  <2> QED
    BY <1>4, <2>1, <2>2
<1>8. saved' \in [token : S!AnyToken, user : S!AnyUser] /\ LoginFits(saved'.token, saved'.user)
  BY <1>1 DEF SInv, SessionTypes
<1>9. /\ sessionCalls' \in [Pair -> S!Call \cup {None}]
      /\ \A d \in Pair : sessionCalls'[d] \in {sessionCalls[d], None}
  BY <1>1, <1>2, ForgetStep
<1> QED
  BY <1>1, <1>5, <1>6, <1>7, <1>8, <1>9, LoginStep

LEMMA SessionInv ==
  ASSUME SInv, [S!Next]_sessionVars
  PROVE  SInv'
<1>1. CASE UNCHANGED sessionVars
  <2>1. UNCHANGED <<owner, expired, token, user, saved, sessionCalls>>
    BY <1>1 DEF sessionVars
  <2> QED
    BY <2>1 DEF SInv, SessionTypes, LoginFits, Issued, CallFits, PatientTab, TabFits, S!WaitsFor
<1> QED
  BY <1>1, PageStep, TabStep, ServerStep, ExpireStep, LoggedInStep, RefusedStep, DoneStep
  DEF S!Next

\* A tab that is shown a user has a token of that user.
LEMMA SessionFacts ==
  ASSUME SInv
  PROVE  S!ShownUserIsTheTokens
<1>1. \A k \in S!Tokens : k # None
  BY NoValueAssumption DEF S!Tokens
<1>2. ASSUME NEW k, NEW u, LoginFits(k, u)
      PROVE  (k = None /\ u = None) \/ (k # None /\ u = owner[k])
  BY <1>1, <1>2 DEF LoginFits, Issued
<1>3. saved = S!NoLogin \/ (saved.token # None /\ saved.user = owner[saved.token])
  <2>1. CASE saved.token = None /\ saved.user = None
    BY <2>1 DEF S!NoLogin, SInv, SessionTypes
  <2> QED
    BY <1>2, <2>1 DEF SInv
<1> QED
  BY <1>2, <1>3 DEF SInv, PatientTab, S!ShownUserIsTheTokens

\* A good token goes with a logout, a new page, or the refusal of a login.
LEMMA TokensKept ==
  ASSUME SInv, S!Next, NEW t \in Patient, S!Good(token[t]), token'[t] = None
  PROVE  \/ S!Logout(t) \/ S!Reload(t)
         \/ \E c \in S!WaitsFor(t) : sessionCalls[c].kind = "login" /\ S!Refused(c)
<1>1. t \in Tabs /\ token[t] # None /\ token[t] \notin expired
  BY PatientAssumption DEF S!Good
<1>2. CASE \E v \in Tabs : S!Logout(v) \/ S!Reload(v)
  BY <1>1, <1>2 DEF S!Logout, S!LogoutStore, S!Reload, SInv, SessionTypes
<1>3. ASSUME NEW c \in Pair, S!LoggedIn(c)
      PROVE  FALSE
  BY <1>1, <1>3 DEF S!LoggedIn, SInv, SessionTypes
<1>4. ASSUME NEW c \in Pair, S!Refused(c)
      PROVE  c \in S!WaitsFor(t) /\ sessionCalls[c].kind = "login"
  <2> DEFINE r == sessionCalls[c]
  <2>1. r # None /\ r.answer = "401"
    BY <1>4 DEF S!Refused
  <2>2. r.kind \in S!Kinds /\ c \in S!WaitsFor(r.tab)
    BY <2>1, CallFacts
  <2>3. r.kind # "fetch" /\ r.tab = t
    BY <1>1, <1>4 DEF S!Refused, S!LogoutStore, SInv, SessionTypes
  <2>4. TabFits(r)
    BY <2>2, <2>3 DEF SInv, PatientTab
  <2>5. ~(r.kind \in {"request", "profile"})
    BY <1>1, <2>1, <2>3, <2>4 DEF TabFits
  <2> QED
    BY <2>2, <2>3, <2>5 DEF S!Kinds
<1>5. CASE UNCHANGED token
  BY <1>1, <1>5
<1>6. ASSUME NEW c \in Pair, NEW v \in Tabs,
             (\E u \in Users : S!SubmitLogin(c, v, u))
             \/ S!Request(c, v) \/ S!SaveProfile(c, v) \/ S!Fetch(c, v)
      PROVE  UNCHANGED token
  BY <1>6 DEF S!SubmitLogin, S!Request, S!SaveProfile, S!Fetch, S!Send
<1>7. \A c \in Pair : S!Serve(c) \/ S!Done(c) => UNCHANGED token
  BY DEF S!Serve, S!Done
<1>8. \A k \in S!Tokens : S!Expire(k) => UNCHANGED token
  BY DEF S!Expire
<1> QED
  BY <1>2, <1>3, <1>4, <1>5, <1>6, <1>7, <1>8 DEF S!Next

-----------------------------------------------------------------------------
(* The pages with a list.                                                  *)

\* A request saw no version that is still to come, and what it sends next is
\* about the page on screen, if that is its own.
ListCallFits(c) ==
    /\ c.version # None => c.version <= version
    /\ c.kind = "own" => c.page = "organizer"
    /\ c.live => c.page = page /\ c.next = filter

\* The load is over with the answer.
Final(c) == c.kind = "own" \/ (c.kind = "public" /\ c.page # "organizer")

\* The last request will show what the page asks for, or sends one that will.
LastFits(c) ==
    /\ c.live /\ c.filter = filter
    /\ Final(c) => c.version = None \/ c.version >= written

Clean == errors = 0 /\ ~crossed

LInv ==
    /\ listCalls \in Seq(L!Request)
    /\ version \in Nat /\ written \in Nat /\ errors \in Nat
    /\ crossed \in BOOLEAN
    /\ page \in Pages /\ filter \in Filters
    /\ written <= version
    /\ \A i \in DOMAIN listCalls : ListCallFits(listCalls[i])
    /\ Clean =>
         IF listCalls = <<>>
         THEN L!SettledListIsTheOneAsked
         ELSE LastFits(listCalls[Len(listCalls)])

\* The requests of a page: it asks for what the page and its filter are then.
LEMMA CallMade ==
  ASSUME NEW kind \in L!Kinds, NEW g \in Pages, NEW f \in Filters
  PROVE  LET c == L!Call(kind, g, f) IN
         /\ c \in L!Request
         /\ c.kind = kind /\ c.page = g /\ c.filter = f /\ c.next = f
         /\ c.version = None /\ c.live
<1>1. None \in L!Versions
  BY DEF L!Versions
<1> QED
  BY <1>1 DEF L!Request, L!Call

\* A page asks, and what was asked before is left behind it.
LEMMA AskStep ==
  ASSUME LInv, NEW s \in Seq(L!Request), NEW c \in L!Request,
         listCalls' = Append(s, c), UNCHANGED <<version, errors, crossed>>,
         page' \in Pages, filter' \in Filters, written' \in {written, 0},
         \A i \in DOMAIN s : ListCallFits(s[i])',
         c.version = None, c.kind # "own", c.live, c.page = page',
         c.filter = filter', c.next = filter'
  PROVE  LInv'
<1>1. listCalls' \in Seq(L!Request) /\ Len(listCalls') = Len(s) + 1 /\ listCalls' # <<>>
  OBVIOUS
<1>2. /\ listCalls'[Len(listCalls')] = c
      /\ \A i \in DOMAIN listCalls' : i = Len(s) + 1 \/ (i \in DOMAIN s /\ listCalls'[i] = s[i])
  OBVIOUS
<1>3. ListCallFits(c)' /\ LastFits(c)'
  BY DEF ListCallFits, LastFits
<1>4. \A i \in DOMAIN listCalls' : ListCallFits(listCalls[i])'
  BY <1>1, <1>2, <1>3
<1>5. written' \in Nat /\ written' <= version'
  BY DEF LInv
<1> QED
  BY <1>1, <1>2, <1>3, <1>4, <1>5 DEF LInv

LEMMA PagesStep ==
  ASSUME LInv,
         \/ \E g \in Pages, f \in Filters : L!Open(g, f)
         \/ \E f \in Filters : L!ApplyFilter(f)
         \/ L!Write
  PROVE  LInv'
<1>1. ASSUME NEW i \in DOMAIN listCalls
      PROVE  listCalls[i] \in L!Request /\ ListCallFits(listCalls[i])
  BY DEF LInv
<1>2. "public" \in L!Kinds /\ "write" \in L!Kinds /\ page \in Pages /\ filter \in Filters
  BY DEF L!Kinds, LInv
<1>3. ASSUME NEW g \in Pages, NEW f \in Filters, L!Open(g, f)
      PROVE  LInv'
  <2>1. PICK c \in L!Request :
          /\ c = L!Call("public", g, f) /\ c.kind = "public" /\ c.page = g /\ c.filter = f
          /\ c.next = f /\ c.version = None /\ c.live
    BY <1>2, CallMade
  <2>2. PICK s : s = [i \in DOMAIN listCalls |-> [listCalls[i] EXCEPT !.live = FALSE]]
    OBVIOUS
  <2>3. /\ page' = g /\ filter' = f /\ written' = 0 /\ listCalls' = Append(s, c)
        /\ UNCHANGED <<version, errors, crossed>>
    BY <1>3, <2>1, <2>2 DEF L!Open
  <2>4. ASSUME NEW i \in DOMAIN s
        PROVE  s[i] \in L!Request /\ ListCallFits(s[i])'
    BY <1>1, <2>2, <2>3, <2>4 DEF L!Request, ListCallFits
  <2>5. s \in Seq(L!Request)
    BY <2>2, <2>4 DEF LInv
  <2> QED
    BY <2>1, <2>3, <2>4, <2>5, AskStep
<1>4. ASSUME NEW f \in Filters, L!ApplyFilter(f)
      PROVE  LInv'
  <2>1. PICK c \in L!Request :
          /\ c = L!Call("public", page, f) /\ c.kind = "public" /\ c.page = page /\ c.filter = f
          /\ c.next = f /\ c.version = None /\ c.live
    BY <1>2, CallMade
  <2>2. PICK s : s = [i \in DOMAIN listCalls |->
                       IF listCalls[i].live THEN [listCalls[i] EXCEPT !.next = f] ELSE listCalls[i]]
    OBVIOUS
  <2>3. /\ page' = page /\ filter' = f /\ written' = written /\ listCalls' = Append(s, c)
        /\ UNCHANGED <<version, errors, crossed>>
    BY <1>4, <2>1, <2>2 DEF L!ApplyFilter
  <2>4. ASSUME NEW i \in DOMAIN s
        PROVE  s[i] \in L!Request /\ ListCallFits(s[i])'
    <3>1. CASE listCalls[i].live
      BY <1>1, <2>2, <2>3, <2>4, <3>1 DEF L!Request, ListCallFits
    <3>2. CASE ~listCalls[i].live
      BY <1>1, <2>2, <2>3, <2>4, <3>2 DEF ListCallFits
    <3> QED
      BY <3>1, <3>2
  <2>5. s \in Seq(L!Request)
    BY <2>2, <2>4 DEF LInv
  <2> QED
    BY <1>2, <2>1, <2>3, <2>4, <2>5, AskStep
<1>5. CASE L!Write
  <2>1. PICK c \in L!Request :
          /\ c = L!Call("write", page, filter) /\ c.kind = "write" /\ c.page = page
          /\ c.filter = filter /\ c.next = filter /\ c.version = None /\ c.live
    BY <1>2, CallMade
  <2>2. PICK s \in Seq(L!Request) : s = listCalls
    BY DEF LInv
  <2>3. /\ listCalls' = Append(s, c)
        /\ UNCHANGED <<page, filter, written, version, errors, crossed>>
    BY <1>5, <2>1, <2>2 DEF L!Write
  <2>4. \A i \in DOMAIN s : ListCallFits(s[i])'
    BY <1>1, <2>2, <2>3 DEF ListCallFits
  <2> QED
    BY <1>2, <2>1, <2>3, <2>4, AskStep
<1> QED
  BY <1>3, <1>4, <1>5

\* The server.
LEMMA ListHandleStep ==
  ASSUME LInv, NEW i \in DOMAIN listCalls, L!Handle(i)
  PROVE  LInv'
<1>1. /\ listCalls' = [listCalls EXCEPT ![i].version = version']
      /\ UNCHANGED <<page, filter, store, written, errors, crossed>>
      /\ version' \in {version, version + 1}
  BY DEF L!Handle
<1>2. version' \in Nat /\ version <= version' /\ version' # None /\ version' \in L!Versions
      /\ written' <= version'
  BY <1>1, NoValueAssumption DEF LInv, L!Versions
<1>9. listCalls[i] \in L!Request
  BY DEF LInv
<1>10. [listCalls[i] EXCEPT !.version = version'] \in L!Request
  BY <1>2, <1>9 DEF L!Request
<1>3. PICK c \in L!Request : c = [listCalls[i] EXCEPT !.version = version']
  BY <1>10
<1>4. /\ c.kind = listCalls[i].kind /\ c.page = listCalls[i].page /\ c.filter = listCalls[i].filter
      /\ c.next = listCalls[i].next /\ c.live = listCalls[i].live /\ c.version = version'
  BY <1>3 DEF LInv, L!Request
<1>5. listCalls' = [listCalls EXCEPT ![i] = c]
  BY <1>1, <1>3 DEF LInv
<1>6. /\ listCalls' \in Seq(L!Request) /\ Len(listCalls') = Len(listCalls)
      /\ DOMAIN listCalls' = DOMAIN listCalls /\ listCalls' # <<>> /\ listCalls # <<>>
      /\ listCalls'[i] = c
      /\ \A j \in DOMAIN listCalls : j # i => listCalls'[j] = listCalls[j]
  BY <1>5 DEF LInv
<1>7. ASSUME NEW j \in DOMAIN listCalls'
      PROVE  ListCallFits(listCalls[j])'
  <2>1. ListCallFits(listCalls[j]) /\ ListCallFits(listCalls[i])
    BY <1>6 DEF LInv
  <2>2. CASE j = i
    BY <1>1, <1>2, <1>4, <1>6, <2>1, <2>2 DEF ListCallFits
  <2>3. CASE j # i
    <3>1. listCalls'[j] = listCalls[j] /\ listCalls[j] \in L!Request
      BY <1>6, <2>3 DEF LInv
    <3>2. listCalls[j].version # None => listCalls[j].version \in Nat
      BY <3>1 DEF L!Request, L!Versions
    <3>3. listCalls[j].version # None => listCalls[j].version <= version'
      BY <1>2, <2>1, <3>2 DEF ListCallFits, LInv
    <3> QED
      BY <1>1, <2>1, <3>1, <3>3 DEF ListCallFits
  <2> QED
    BY <2>2, <2>3
<1>8. ASSUME Clean'
      PROVE  LastFits(listCalls[Len(listCalls)])'
  <2>1. LastFits(listCalls[Len(listCalls)]) /\ Len(listCalls) \in DOMAIN listCalls
    BY <1>1, <1>6, <1>8 DEF LInv, Clean
  <2>2. CASE Len(listCalls) = i
    BY <1>1, <1>2, <1>4, <1>6, <2>1, <2>2 DEF LastFits, Final, LInv
  <2>3. CASE Len(listCalls) # i
    <3>1. listCalls'[Len(listCalls')] = listCalls[Len(listCalls)]
      BY <1>6, <2>1, <2>3
    <3> QED
      BY <1>1, <2>1, <3>1 DEF LastFits, Final
  <2> QED
    BY <2>2, <2>3
<1> QED
  BY <1>1, <1>2, <1>6, <1>7, <1>8 DEF LInv

\* The list without the answered request: what stays of a request is as it was.
LEMMA RestFacts ==
  ASSUME NEW s \in Seq(L!Request), NEW i \in DOMAIN s
  PROVE  LET rest == L!RemoveAt(s, i) IN
         /\ rest \in Seq(L!Request) /\ Len(rest) = Len(s) - 1
         /\ \A j \in DOMAIN rest : \E k \in DOMAIN s : rest[j] = s[k]
         /\ i = 1 /\ Len(s) > 1 => rest[Len(rest)] = s[Len(s)]
<1>1. i \in 1 .. Len(s) /\ Len(s) \in Nat
  OBVIOUS
<1>11. \A j \in 1 .. Len(s) : s[j] \in L!Request
  OBVIOUS
<1>12. /\ SubSeq(s, 1, i - 1) \in Seq(L!Request)
       /\ Len(SubSeq(s, 1, i - 1)) = i - 1
       /\ \A j \in 1 .. i - 1 : SubSeq(s, 1, i - 1)[j] = s[j]
  <2>1. 1 \in Int /\ i - 1 \in Int /\ \A j \in 1 .. i - 1 : s[j] \in L!Request
    BY <1>1, <1>11
  <2>2. /\ SubSeq(s, 1, i - 1) \in Seq(L!Request)
        /\ Len(SubSeq(s, 1, i - 1)) = IF 1 <= i - 1 THEN i - 1 - 1 + 1 ELSE 0
        /\ \A j \in 1 .. i - 1 - 1 + 1 : SubSeq(s, 1, i - 1)[j] = s[1 + j - 1]
    BY <2>1, SubSeqProperties
  <2> QED
    BY <1>1, <2>2
<1>13. /\ SubSeq(s, i + 1, Len(s)) \in Seq(L!Request)
       /\ Len(SubSeq(s, i + 1, Len(s))) = Len(s) - i
       /\ \A j \in 1 .. Len(s) - i : SubSeq(s, i + 1, Len(s))[j] = s[j + i]
  <2>1. i + 1 \in Int /\ Len(s) \in Int /\ \A j \in i + 1 .. Len(s) : s[j] \in L!Request
    BY <1>1, <1>11
  <2>2. /\ SubSeq(s, i + 1, Len(s)) \in Seq(L!Request)
        /\ Len(SubSeq(s, i + 1, Len(s))) = IF i + 1 <= Len(s) THEN Len(s) - (i + 1) + 1 ELSE 0
        /\ \A j \in 1 .. Len(s) - (i + 1) + 1 : SubSeq(s, i + 1, Len(s))[j] = s[i + 1 + j - 1]
    BY <2>1, SubSeqProperties
  <2> QED
    BY <1>1, <2>2
<1>2. PICK a \in Seq(L!Request) : a = SubSeq(s, 1, i - 1)
  BY <1>12
<1>3. PICK b \in Seq(L!Request) : b = SubSeq(s, i + 1, Len(s))
  BY <1>13
<1>4. Len(a) = i - 1 /\ \A j \in 1 .. i - 1 : a[j] = s[j]
  BY <1>2, <1>12
<1>5. Len(b) = Len(s) - i /\ \A j \in 1 .. Len(s) - i : b[j] = s[j + i]
  BY <1>3, <1>13
<1>6. PICK rest \in Seq(L!Request) : rest = a \o b
  BY ConcatProperties
<1>7. L!RemoveAt(s, i) = rest
  BY <1>2, <1>3, <1>6 DEF L!RemoveAt
<1>8. /\ Len(rest) = Len(s) - 1
      /\ \A j \in 1 .. i - 1 : rest[j] = s[j]
      /\ \A j \in i .. Len(s) - 1 : rest[j] = s[j + 1]
  <2>1. /\ Len(rest) = Len(a) + Len(b)
        /\ \A j \in 1 .. Len(a) + Len(b) :
              rest[j] = IF j <= Len(a) THEN a[j] ELSE b[j - Len(a)]
    BY <1>6, ConcatProperties
  <2>2. \A j \in i .. Len(s) - 1 : b[j - (i - 1)] = s[j + 1]
    BY <1>1, <1>5
  <2>3. Len(rest) = Len(s) - 1 /\ Len(a) + Len(b) = Len(s) - 1
    BY <1>1, <1>4, <1>5, <2>1
  <2>4. \A j \in 1 .. i - 1 : rest[j] = s[j]
    BY <1>1, <1>4, <1>5, <2>1
  <2>5. ASSUME NEW j \in i .. Len(s) - 1
        PROVE  rest[j] = s[j + 1]
    <3>1. j \in 1 .. Len(a) + Len(b) /\ ~(j <= Len(a)) /\ j - Len(a) = j - (i - 1)
      BY <1>1, <1>4, <2>3
    <3>2. rest[j] = b[j - (i - 1)]
      BY <2>1, <3>1
    <3> QED
      BY <2>2, <3>2
  <2> QED
    BY <2>3, <2>4, <2>5
<1>9. \A j \in DOMAIN rest : \E k \in DOMAIN s : rest[j] = s[k]
  <2> SUFFICES ASSUME NEW j \in DOMAIN rest
               PROVE  \E k \in DOMAIN s : rest[j] = s[k]
    OBVIOUS
  <2>3. j \in 1 .. Len(s) - 1 /\ j \in DOMAIN s /\ j + 1 \in DOMAIN s
    BY <1>1, <1>8
  <2>1. CASE j < i
    <3>1. rest[j] = s[j]
      BY <1>1, <1>8, <2>1, <2>3
    <3> QED
      BY <2>3, <3>1
  <2>2. CASE j >= i
    <3>1. rest[j] = s[j + 1]
      BY <1>1, <1>8, <2>2, <2>3
    <3> QED
      BY <2>3, <3>1
  <2> QED
    BY <1>1, <2>1, <2>2
<1>10. i = 1 /\ Len(s) > 1 => rest[Len(rest)] = s[Len(s)]
  BY <1>1, <1>8
<1> QED
  BY <1>7, <1>8, <1>9, <1>10

\* What is sent after an answer asks for what its page asks for now.
LEMMA AfterFacts ==
  ASSUME NEW c \in L!Request
  PROVE  \/ Final(c) /\ L!After(c) = <<>>
         \/ /\ ~Final(c)
            /\ \E d \in L!Request :
                 /\ L!After(c) = <<d>>
                 /\ d.kind \in {"public", "own"} /\ d.page = c.page /\ d.filter = c.next
                 /\ d.next = c.next /\ d.version = None /\ d.live = c.live
                 /\ d.kind = "own" => c.page = "organizer"
<1>1. c.kind \in L!Kinds /\ c.page \in Pages /\ c.next \in Filters /\ c.live \in BOOLEAN
  BY DEF L!Request
<1>2. "public" \in L!Kinds /\ "own" \in L!Kinds
  BY DEF L!Kinds
<1>3. ASSUME NEW kind \in {"public", "own"}
      PROVE  LET d == [L!Call(kind, c.page, c.next) EXCEPT !.live = c.live] IN
             /\ d \in L!Request /\ d.kind = kind /\ d.page = c.page /\ d.filter = c.next
             /\ d.next = c.next /\ d.version = None /\ d.live = c.live
  <2>1. PICK e \in L!Request :
          /\ e = L!Call(kind, c.page, c.next) /\ e.kind = kind /\ e.page = c.page
          /\ e.filter = c.next /\ e.next = c.next /\ e.version = None
    BY <1>1, <1>2, CallMade
  <2> QED
    BY <1>1, <2>1 DEF L!Request
<1>4. CASE Final(c)
  BY <1>4 DEF Final, L!After, L!Writes
<1>5. CASE c.kind = "write"
  <2>1. L!After(c) = <<[L!Call("public", c.page, c.next) EXCEPT !.live = c.live]>>
    BY <1>5 DEF L!After, L!Writes
  <2>2. ~Final(c)
    BY <1>5 DEF Final
  <2> QED
    BY <1>3, <2>1, <2>2
<1>6. CASE c.kind = "public" /\ c.page = "organizer"
  <2>1. L!After(c) = <<[L!Call("own", c.page, c.next) EXCEPT !.live = c.live]>>
    BY <1>6 DEF L!After, L!Writes
  <2>2. ~Final(c)
    BY <1>6 DEF Final
  <2> QED
    BY <1>3, <1>6, <2>1, <2>2
<1> QED
  BY <1>1, <1>4, <1>5, <1>6 DEF Final, L!Kinds

\* A refused request leaves a list that may be another page's.
LEMMA RefuseStep ==
  ASSUME LInv, NEW i \in DOMAIN listCalls, L!Refuse(i)
  PROVE  LInv'
<1>1. /\ errors' = errors + 1 /\ listCalls' = L!RemoveAt(listCalls, i)
      /\ UNCHANGED <<page, filter, store, version, written, crossed>>
  BY DEF L!Refuse
<1>2. ~Clean' /\ errors' \in Nat
  BY <1>1 DEF LInv, Clean
<1>3. /\ listCalls' \in Seq(L!Request)
      /\ \A j \in DOMAIN listCalls' : \E k \in DOMAIN listCalls : listCalls'[j] = listCalls[k]
  BY <1>1, RestFacts DEF LInv
<1>4. ASSUME NEW j \in DOMAIN listCalls'
      PROVE  ListCallFits(listCalls[j])'
  <2>1. PICK k \in DOMAIN listCalls : listCalls'[j] = listCalls[k]
    BY <1>3
  <2> QED
    BY <1>1, <2>1 DEF LInv, ListCallFits
<1> QED
  BY <1>1, <1>2, <1>3, <1>4 DEF LInv

\* A list that comes is shown, and the load after a change is sent.
LEMMA ListAnswerStep ==
  ASSUME LInv, NEW i \in DOMAIN listCalls, L!Answer(i)
  PROVE  LInv'
<1>1. PICK c \in L!Request : c = listCalls[i]
  BY DEF LInv
<1>2. PICK rest \in Seq(L!Request) : rest = L!RemoveAt(listCalls, i)
  BY RestFacts DEF LInv
<1>3. /\ Len(rest) = Len(listCalls) - 1 /\ i \in 1 .. Len(listCalls) /\ Len(listCalls) \in Nat
      /\ \A j \in DOMAIN rest : \E k \in DOMAIN listCalls : rest[j] = listCalls[k]
      /\ i = 1 /\ Len(listCalls) > 1 => rest[Len(rest)] = listCalls[Len(listCalls)]
  BY <1>2, RestFacts DEF LInv
<1>4. /\ c.version # None
      /\ store' = IF L!Writes(c) THEN store
                  ELSE [list |-> c.kind, filter |-> c.filter, version |-> c.version]
      /\ written' = IF L!Writes(c) /\ c.live THEN c.version ELSE written
      /\ listCalls' = rest \o L!After(c)
      /\ crossed' = (crossed \/ i > 1 \/ (~c.live /\ L!After(c) # <<>>))
      /\ UNCHANGED <<page, filter, version, errors>>
  BY <1>1, <1>2 DEF L!Answer
<1>5. c.version \in Nat /\ c.version <= version /\ ListCallFits(c)
  BY <1>1, <1>4 DEF LInv, ListCallFits, L!Request, L!Versions
<1>6. written' \in Nat /\ written' <= version' /\ crossed' \in BOOLEAN
  BY <1>4, <1>5 DEF LInv
<1>7. ASSUME NEW j \in DOMAIN rest
      PROVE  ListCallFits(rest[j])'
  <2>1. PICK k \in DOMAIN listCalls : rest[j] = listCalls[k]
    BY <1>3
  <2>2. ListCallFits(listCalls[k])
    BY DEF LInv
  <2> QED
    BY <1>4, <2>1, <2>2 DEF ListCallFits
<1>8. Clean' => Clean /\ i = 1 /\ (c.live \/ L!After(c) = <<>>)
  <2> DEFINE over == i > 1
             on == ~c.live /\ L!After(c) # <<>>
  <2>1. i \in Nat /\ ~over => i = 1
    BY <1>3
  <2>2. crossed' = (crossed \/ over \/ on) /\ errors' = errors /\ over \in BOOLEAN /\ on \in BOOLEAN
    BY <1>4
  <2> HIDE DEF over, on
  <2>3. Clean' => Clean /\ ~over /\ ~on
    BY <2>2 DEF Clean, LInv
  <2> QED
    BY <1>3, <2>1, <2>3 DEF on
<1>9. CASE ~Final(c)
  <2>1. PICK d \in L!Request :
          /\ L!After(c) = <<d>>
          /\ d.kind \in {"public", "own"} /\ d.page = c.page /\ d.filter = c.next
          /\ d.next = c.next /\ d.version = None /\ d.live = c.live
          /\ d.kind = "own" => c.page = "organizer"
    BY <1>9, AfterFacts
  <2>2. listCalls' = Append(rest, d)
    BY <1>4, <2>1
  <2>3. /\ listCalls' \in Seq(L!Request) /\ listCalls' # <<>> /\ Len(listCalls') = Len(rest) + 1
        /\ listCalls'[Len(listCalls')] = d
        /\ \A j \in DOMAIN listCalls' :
             listCalls'[j] = d \/ (j \in DOMAIN rest /\ listCalls'[j] = rest[j])
    BY <2>2
  <2>4. ListCallFits(d)'
    BY <1>4, <1>5, <2>1 DEF ListCallFits
  <2>5. \A j \in DOMAIN listCalls' : ListCallFits(listCalls[j])'
    BY <1>7, <2>3, <2>4
  <2>6. L!After(c) # <<>>
    BY <2>1
  <2>7. Clean' => LastFits(d)'
    BY <1>4, <1>5, <1>8, <2>1, <2>6 DEF LastFits, ListCallFits
  <2> QED
    BY <1>4, <1>6, <2>3, <2>5, <2>7 DEF LInv
<1>10. CASE Final(c)
  <2>1. L!After(c) = <<>> /\ ~L!Writes(c)
    BY <1>10, AfterFacts DEF Final, L!Writes
  <2>2. listCalls' = rest /\ written' = written
    BY <1>4, <2>1
  <2>3. \A j \in DOMAIN listCalls' : ListCallFits(listCalls[j])'
    BY <1>7, <2>2
  <2>4. ASSUME Clean'
        PROVE  IF listCalls' = <<>>
               THEN L!SettledListIsTheOneAsked'
               ELSE LastFits(listCalls[Len(listCalls)])'
    <3>1. LastFits(listCalls[Len(listCalls)]) /\ i = 1
      BY <1>3, <1>8, <2>4 DEF LInv
    <3>2. CASE Len(listCalls) > 1
      <4>1. listCalls' # <<>> /\ listCalls'[Len(listCalls')] = listCalls[Len(listCalls)]
        BY <1>3, <2>2, <3>1, <3>2
      <4> QED
        BY <1>4, <2>2, <3>1, <4>1 DEF LastFits, Final
    <3>3. CASE Len(listCalls) = 1
      <4>1. listCalls' = <<>> /\ LastFits(c)
        BY <1>1, <1>3, <2>2, <3>1, <3>3
      <4>2. c.live /\ c.filter = filter /\ c.version >= written /\ c.page = page
        BY <1>4, <1>5, <1>10, <4>1 DEF LastFits, ListCallFits
      <4>3. c.kind = IF page = "organizer" THEN "own" ELSE "public"
        BY <1>5, <1>10, <4>2 DEF Final, ListCallFits
      <4>4. store' = [list |-> c.kind, filter |-> c.filter, version |-> c.version]
        BY <1>4, <2>1
      <4> QED
        BY <1>4, <2>2, <4>1, <4>2, <4>3, <4>4 DEF L!SettledListIsTheOneAsked
    <3> QED
      BY <1>3, <3>2, <3>3
  <2> QED
    BY <1>4, <1>6, <2>2, <2>3, <2>4 DEF LInv
<1> QED
  BY <1>9, <1>10

LEMMA ListsInv ==
  ASSUME LInv, [L!Next]_listVars
  PROVE  LInv'
<1>1. CASE UNCHANGED listVars
  BY <1>1 DEF listVars, LInv, Clean, LastFits, Final, ListCallFits, L!SettledListIsTheOneAsked
<1> QED
  BY <1>1, PagesStep, ListHandleStep, ListAnswerStep, RefuseStep DEF L!Next

-----------------------------------------------------------------------------
(* The parts side by side.                                                 *)

\* What is proved of a part holds whichever part runs: to the others its steps
\* are none.
THEOREM BrowserPartsRun == Spec => S!Spec /\ L!Spec /\ F!Spec /\ N!Spec
<1>1. Init => S!Init /\ L!Init /\ F!Init /\ N!Init
  BY DEF Init
<1>2. [Next]_vars =>
         /\ [S!Next]_(S!vars)
         /\ [L!Next]_(L!vars)
         /\ [F!Next]_(F!vars)
         /\ [N!Next]_(N!vars)
  BY DEF Next, vars, sessionVars, listVars, favoriteVars, noticeVars,
         S!vars, L!vars, F!vars, N!vars
<1> QED
  BY <1>1, <1>2, PTL DEF Spec, S!Spec, L!Spec, F!Spec, N!Spec

LEMMA SessionInductive == S!Spec => []SInv
<1>1. S!Init => SInv
  <2> SUFFICES ASSUME S!Init
               PROVE  SInv
    OBVIOUS
  <2>1. SessionTypes /\ LoginFits(saved.token, saved.user)
    BY DEF S!Init, S!NoLogin, SessionTypes, LoginFits, S!AnyToken, S!AnyUser
  <2>2. \A t \in Tabs : LoginFits(token[t], user[t]) /\ S!WaitsFor(t) = {}
    BY DEF S!Init, LoginFits, S!WaitsFor
  <2>3. \A c \in Pair : sessionCalls[c] = None
    BY DEF S!Init
  <2> QED
    BY <2>1, <2>2, <2>3, PatientAssumption DEF SInv, PatientTab
<1>2. SInv /\ [S!Next]_(S!vars) => SInv'
  BY SessionInv DEF sessionVars, S!vars
<1> QED
  BY <1>1, <1>2, PTL DEF S!Spec

\* A patient tab shows the user of its token, and so does localStorage, for any
\* number of tabs that share it, tokens and requests.
THEOREM ShownUser == Spec => []ShownUserIsTheTokens
<1>1. SInv => ShownUserIsTheTokens
  BY SessionFacts DEF ShownUserIsTheTokens
<1> QED
  BY <1>1, BrowserPartsRun, SessionInductive, PTL

\* A patient tab drops a good token for a logout, a reload, or the refusal of a
\* login its user asked for, and for nothing else.
THEOREM LoginStays == Spec => LoginLasts
<1>1. SInv /\ [S!Next]_(S!vars) =>
        [\A t \in Patient :
           S!Good(token[t]) /\ token'[t] = None =>
              \/ S!Logout(t) \/ S!Reload(t)
              \/ \E c \in S!WaitsFor(t) : sessionCalls[c].kind = "login" /\ S!Refused(c)]_(S!vars)
  BY TokensKept
<1> QED
  BY <1>1, BrowserPartsRun, SessionInductive, PTL DEF S!Spec, LoginLasts, S!LoginLasts

\* A page that waits for nothing shows the list its filter asks for, for any
\* filters and however many requests are under way.
THEOREM SettledList == Spec => []SettledListIsTheOneAsked
<1>1. L!Init => LInv
  <2> SUFFICES ASSUME L!Init
               PROVE  LInv
    OBVIOUS
  <2>1. PICK c \in L!Request :
          /\ c = L!Call("public", page, filter)
          /\ c.kind = "public" /\ c.page = page /\ c.filter = filter /\ c.next = filter
          /\ c.version = None /\ c.live
    BY CallMade DEF L!Init, L!Kinds
  <2>2. listCalls = <<c>>
    BY <2>1 DEF L!Init
  <2>3. /\ listCalls \in Seq(L!Request) /\ listCalls # <<>> /\ Len(listCalls) = 1
        /\ DOMAIN listCalls = {1} /\ listCalls[1] = c
    BY <2>2
  <2>4. ListCallFits(c) /\ LastFits(c)
    BY <2>1 DEF ListCallFits, LastFits
  <2>5. /\ version = 0 /\ written = 0 /\ errors = 0 /\ crossed = FALSE
        /\ page \in Pages /\ filter \in Filters
    BY DEF L!Init
  <2>6. version \in Nat /\ written \in Nat /\ errors \in Nat /\ written <= version
    BY <2>5
  <2>7. \A i \in DOMAIN listCalls : ListCallFits(listCalls[i])
    BY <2>3, <2>4
  <2>8. LastFits(listCalls[Len(listCalls)])
    BY <2>3, <2>4
  <2> QED
    BY <2>3, <2>5, <2>6, <2>7, <2>8 DEF LInv
<1>2. LInv /\ [L!Next]_(L!vars) => LInv'
  BY ListsInv DEF listVars, L!vars
<1>3. LInv => SettledListIsTheOneAsked
  BY DEF LInv, Clean, SettledListIsTheOneAsked, L!SettledListIsTheOneAsked
<1> QED
  BY <1>1, <1>2, <1>3, BrowserPartsRun, PTL DEF L!Spec

LEMMA FavoritesInductive == F!Spec => []FInv
<1>1. F!Init => FInv
  <2> SUFFICES ASSUME F!Init
               PROVE  FInv
    OBVIOUS
  <2>1. FavoriteTypes
    BY DEF F!Init, FavoriteTypes
  <2>2. \A u \in Users : told[u] = FALSE /\ F!UnderWay(u) = {}
    BY DEF F!Init, F!UnderWay
  <2> QED
    BY <2>1, <2>2 DEF FInv, PatientUser
<1>2. FInv /\ [F!Next]_(F!vars) => FInv'
  BY FavoritesInv DEF favoriteVars, F!vars
<1> QED
  BY <1>1, <1>2, PTL DEF F!Spec

\* However many requests of a user run at once, the activity is at most once
\* among the user's favourites.
THEOREM FavoritedOnce == Spec => []FavoritedAtMostOnce
<1>1. FInv => FavoritedAtMostOnce
  <2> SUFFICES ASSUME FInv, NEW u \in Users
               PROVE  favorites[u] <= 1
    BY DEF FavoritedAtMostOnce, F!FavoritedAtMostOnce
  <2>1. favorites[u] \in {0, 1}
    BY DEF FInv, FavoriteTypes
  <2> QED
    BY <2>1
<1> QED
  BY <1>1, BrowserPartsRun, FavoritesInductive, PTL

\* The button of a patient user whose last answer was a good one tells the
\* truth, whatever the others do and whichever statements fail.
THEOREM ButtonIsTrue == Spec => []ButtonTellsTheTruth
<1>1. FInv => ButtonTellsTheTruth
  <2> SUFFICES ASSUME FInv, NEW u \in Users \ Hasty, F!UnderWay(u) = {}, told[u]
               PROVE  favorited[u] = (favorites[u] > 0)
    BY DEF ButtonTellsTheTruth, F!ButtonTellsTheTruth
  <2>1. told[u] = TRUE
    BY DEF FInv, FavoriteTypes
  <2>2. FlagFits(u)
    BY <2>1 DEF FInv, PatientUser
  <2> DEFINE held == favorites[u] > 0
  <2>3. \/ favorited[u] = TRUE /\ held
        \/ favorited[u] = FALSE /\ ~held
    BY <2>2 DEF FlagFits
  <2>4. held \in BOOLEAN
    OBVIOUS
  <2>5. favorited[u] = held
    <3> HIDE DEF held
    <3> QED
      BY <2>3, <2>4
  <2> QED
    BY <2>5
<1> QED
  BY <1>1, BrowserPartsRun, FavoritesInductive, PTL

\* What is shown as read is read in the table, for any number of notifications
\* and with answers that come late or are lost.
THEOREM ReadIsRead == Spec => []ShownReadIsRead
<1>1. N!Init => NInv
  <2> SUFFICES ASSUME N!Init
               PROVE  NInv
    OBVIOUS
  <2>1. /\ rows = <<>> /\ list = {} /\ shown = {} /\ mixed = FALSE
        /\ noticeCalls = [k \in Pair |-> None]
    BY DEF N!Init
  <2>2. rows \in Seq(Ids)
    BY <2>1
  <2>3. \A k \in Pair : noticeCalls[k] = None /\ NoticeFits(k)
    BY <2>1 DEF NoticeFits, N!Answered
  <2> QED
    BY <2>1, <2>2, <2>3 DEF NInv
<1>2. NInv /\ [N!Next]_(N!vars) => NInv'
  BY NoticesInv DEF noticeVars, N!vars
<1>3. NInv => ShownReadIsRead
  BY DEF NInv, ShownReadIsRead, N!ShownReadIsRead
<1> QED
  BY <1>1, <1>2, <1>3, BrowserPartsRun, PTL DEF N!Spec
=============================================================================
