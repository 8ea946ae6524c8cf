------------------------ MODULE AuthenticatorProofs ------------------------
(***************************************************************************)
(* The authenticator shows identities with their own URLs, adds to the      *)
(* profile it has read and leaves the adapter as it was: for every number   *)
(* of requests, applications, names and failures.                           *)
(***************************************************************************)
EXTENDS Authenticator, FiniteSetTheorems, TLAPS

----------------------------------------------------------------------------
(* The invariant.  It says what a request has in hand at each of its awaits: *)
(* identities that own their names, lookups that answer for them, a profile  *)
(* that is the one in the bucket and what the request adds to it.            *)

Kinds == {"none", "auth", "signin", "sethub"}
Phases == {"idle", "names", "lookups", "page", "connect", "read", "upload", "answer",
           "answered", "dead"}
Statuses == {0, 200, 302, 400, 502}
Profiles == Profile \cup {NoProfile}
LookupResult == [st: {"pending", "rejected", "done"}, url: Int, profile: Profiles]
IdSeq == Seq(Identity)
LookedSeq == Seq(LookupResult)
IdSet == SUBSET Identity
Pages == SUBSET Link

RequestRecord ==
    [kind: Kinds, phase: Phases, link: Link, index: Nat, ids: IdSeq, looked: LookedSeq,
     shown: IdSet, data: Profiles, page: Pages, status: Statuses, blind: BOOLEAN,
     raced: BOOLEAN]

\* TypeOK, with the requests as one set of records.
Typed ==
    /\ coerce \in BOOLEAN /\ nonce \in 0..MaxRestarts
    /\ req \in [Requests -> RequestRecord]
    /\ profile \in [Indices -> Profiles]
    /\ failures \in 0..MaxFailures

\* The identities of the wallet are being loaded.
Loading(x) == x.kind = "auth" /\ x.phase \in {"names", "lookups"}

\* The names that a request has found, each of them once, up to the index that
\* it has got to.
Listed(x) ==
    /\ x.phase \in {"names", "lookups"} => x.kind = "auth"
    /\ \A k \in DOMAIN x.ids : x.ids[k].name \in Names /\ Right(x.ids[k])
    /\ \A j, k \in DOMAIN x.ids : x.ids[j].name = x.ids[k].name => j = k
    /\ x.phase \in {"idle", "names"} => \A k \in DOMAIN x.ids : x.ids[k].index < x.index

\* A lookup that is done has the URL of its name.
Answers(x) ==
    x.phase = "lookups" =>
        /\ DOMAIN x.looked = DOMAIN x.ids
        /\ \A k \in DOMAIN x.ids : x.looked[k].st = "done" => x.looked[k].url = Url(x.ids[k].name)

\* What is shown, and what is followed, is an identity.
Linked(x) ==
    /\ \A id \in x.shown : Right(id)
    /\ \A link \in x.page : Right(link.id)
    /\ Right(x.link.id)

\* What is about to be uploaded lists the application, and keeps all else that
\* is in the bucket if the request has seen it; before the answer, the profile
\* lists the application, if that was asked for.
Ready(x) ==
    /\ x.phase = "upload" =>
        /\ x.data # NoProfile /\ x.data.apps[x.link.app] = "own"
        /\ x.blind \/ x.raced \/ Keeps(profile[x.link.id.index], x.data, x.link.app)
    /\ x.phase = "answer" /\ x.link.write =>
        \/ x.raced
        \/ /\ profile[x.link.id.index] # NoProfile
           /\ profile[x.link.id.index].apps[x.link.app] = "own"

RequestInv(x) == Listed(x) /\ Answers(x) /\ Linked(x) /\ Ready(x)

InOrder == Typed /\ CoercionRestored /\ \A r \in Requests : RequestInv(req[r])

----------------------------------------------------------------------------
(* The data. *)

\* What the assumptions say of indices and names.
LEMMA Bounds ==
    /\ Indices \subseteq Nat /\ 0 \in Indices /\ NoName \notin Names /\ Apps # {}
    /\ \A i \in Indices : NamesAt[i] \in Seq(STRING)
    /\ \A n \in Nat : n <= MaxNameIndex => n \in Indices
    /\ MaxNameIndex \in Nat /\ MaxRestarts \in Nat /\ MaxFailures \in Nat
  BY AuthenticatorAssumption

\* A name has one owner.
LEMMA OneOwner ==
    /\ \A i \in Indices : \A n \in ToSet(NamesAt[i]) : n \in Names /\ IndexOf(n) = i
    /\ \A n \in Names : IndexOf(n) \in Indices /\ n \in ToSet(NamesAt[IndexOf(n)])
  <1>1. \A i \in Indices : \A n \in ToSet(NamesAt[i]) : n \in Names
    BY DEF Names
  <1>2. \A n \in Names : \E i \in Indices : n \in ToSet(NamesAt[i])
    BY DEF Names
  <1>3. \A n \in Names : IndexOf(n) \in Indices /\ n \in ToSet(NamesAt[IndexOf(n)])
    BY <1>2 DEF IndexOf
  <1>4. ASSUME NEW i \in Indices, NEW n \in ToSet(NamesAt[i])
        PROVE  IndexOf(n) = i
    <2>1. n \in ToSet(NamesAt[i]) \cap ToSet(NamesAt[IndexOf(n)]) /\ IndexOf(n) \in Indices
      BY <1>1, <1>3
    <2>2. QED
      BY <2>1, AuthenticatorAssumption
  <1>5. QED
    BY <1>1, <1>3, <1>4

\* What a lookup answers is about its name.
LEMMA LookupRight ==
    ASSUME Typed, NEW n \in Names \cup {NoName}, NEW result \in LookupResults(n)
    PROVE  /\ result \in LookupResult
           /\ result.st = "done" => n \in Names /\ result.url = Url(n)
           /\ result.profile # NoProfile =>
                n \in Names /\ result.profile = profile[IndexOf(n)]
  <1>1. Rejected \in LookupResult /\ Rejected.st = "rejected" /\ Rejected.profile = NoProfile
    BY DEF Rejected, Result, LookupResult, NoUrl, Profiles
  <1>2. CASE result = Rejected
    BY <1>1, <1>2
  <1>3. CASE result # Rejected
    <2>1. n \in Names /\ \E p \in {Stored(n), NoProfile} : result = Result("done", Url(n), p)
      BY <1>3 DEF LookupResults
    <2>2. PICK p \in {Stored(n), NoProfile} : result = Result("done", Url(n), p)
      BY <2>1
    <2>3. Url(n) \in Int
      BY <2>1, OneOwner, Bounds DEF Url, Elsewhere, NoUrl
    <2>4. p # NoProfile => p = profile[IndexOf(n)]
      BY <2>2 DEF Stored
    <2>5. p \in Profiles
      BY <2>1, <2>4, OneOwner DEF Typed, Profiles
    <2>6. /\ result = [st |-> "done", url |-> Url(n), profile |-> p]
          /\ result.st = "done" /\ result.url = Url(n) /\ result.profile = p
      BY <2>2 DEF Result
    <2>7. QED
      BY <2>1, <2>3, <2>4, <2>5, <2>6 DEF LookupResult
  <1>4. QED
    BY <1>2, <1>3

\* A failure is counted.
LEMMA FailsTyped ==
    ASSUME Typed, Fails \/ UNCHANGED failures
    PROVE  failures' \in 0..MaxFailures
  BY Bounds DEF Typed, Fails

----------------------------------------------------------------------------
(* What is dealt out to the identities. *)

\* As long as the lookups went well, the rank of a lookup is its position.
LEMMA RankOfFirst ==
    ASSUME NEW looked \in Seq(LookupResult), NEW k \in DOMAIN looked,
           \A j \in 1..k : looked[j].st = "done"
    PROVE  /\ k \in Done(looked)
           /\ \A j \in Done(looked) : Rank(looked, j) = k <=> j = k
  <1>1. PICK n \in Nat : n = Len(looked)
    OBVIOUS
  <1>2. DOMAIN looked = 1..n /\ k \in Nat /\ 1 <= k /\ k <= n
    BY <1>1
  <1>3. 1..k \subseteq Done(looked) /\ Done(looked) \subseteq 1..n
    BY <1>2 DEF Done
  <1>4. k \in Done(looked)
    BY <1>2, <1>3
  <1>5. ASSUME NEW j \in Done(looked)
        PROVE  Rank(looked, j) = k <=> j = k
    <2>1. PICK below : below = {m \in Done(looked) : m <= j}
      OBVIOUS
    <2>2. j \in Nat /\ 1 <= j /\ j <= n
      BY <1>2, <1>3, <1>5
    <2>3. Rank(looked, j) = Cardinality(below)
      BY <2>1 DEF Rank
    <2>4. CASE j <= k
      <3>1. below = 1..j
        BY <1>2, <1>3, <2>1, <2>2, <2>4
      <3>2. Cardinality(1..j) = j
        BY <2>2, FS_Interval
      <3>3. QED
        BY <2>3, <3>1, <3>2
    <2>5. CASE j > k
      <3>1. IsFiniteSet(1..n) /\ below \subseteq 1..n
        BY <1>1, <1>3, <2>1, FS_Interval
      <3>2. IsFiniteSet(below) /\ Cardinality(below) \in Nat
        BY <3>1, FS_Subset, FS_CardinalityType
      <3>3. IsFiniteSet(1..k) /\ Cardinality(1..k) = k
        BY <1>2, FS_Interval
      <3>4. j \notin 1..k
        BY <2>5, <1>2, <2>2
      <3>5. IsFiniteSet((1..k) \cup {j}) /\ Cardinality((1..k) \cup {j}) = k + 1
        BY <3>3, <3>4, FS_AddElement
      <3>6. (1..k) \cup {j} \subseteq below
        BY <1>2, <1>3, <2>1, <2>2, <2>5
      <3>7. Cardinality((1..k) \cup {j}) <= Cardinality(below)
        BY <3>2, <3>6, FS_Subset
      <3>8. QED
        BY <1>2, <2>3, <2>5, <3>2, <3>5, <3>7
    <2>6. QED
      BY <1>2, <2>2, <2>4, <2>5
  <1>6. QED
    BY <1>4, <1>5

\* Names and indices stay, and the first identities get their own URLs.
LEMMA FilledInRight ==
    ASSUME NEW ids \in Seq(Identity), NEW looked \in Seq(LookupResult),
           DOMAIN looked = DOMAIN ids
    PROVE  /\ DOMAIN FilledIn(ids, looked) = DOMAIN ids
           /\ \A k \in DOMAIN ids :
                /\ FilledIn(ids, looked)[k] \in Identity
                /\ FilledIn(ids, looked)[k].name = ids[k].name
                /\ FilledIn(ids, looked)[k].index = ids[k].index
                /\ (\A j \in 1..k : looked[j].st = "done") =>
                      FilledIn(ids, looked)[k].url = looked[k].url
  <1>1. DOMAIN FilledIn(ids, looked) = DOMAIN ids
    BY DEF FilledIn
  <1>2. ASSUME NEW k \in DOMAIN ids
        PROVE  /\ FilledIn(ids, looked)[k] \in Identity
               /\ FilledIn(ids, looked)[k].name = ids[k].name
               /\ FilledIn(ids, looked)[k].index = ids[k].index
               /\ (\A j \in 1..k : looked[j].st = "done") =>
                     FilledIn(ids, looked)[k].url = looked[k].url
    <2>1. PICK id \in Identity : id = ids[k]
      BY <1>2
    <2>2. PICK u : u = IF \E j \in Done(looked) : Rank(looked, j) = k
                       THEN looked[CHOOSE j \in Done(looked) : Rank(looked, j) = k].url
                       ELSE id.url
      OBVIOUS
    <2>3. FilledIn(ids, looked)[k] = [id EXCEPT !.url = u]
      BY <1>2, <2>1, <2>2 DEF FilledIn
    <2>4. u \in Int
      <3>1. \A j \in Done(looked) : looked[j].url \in Int
        <4>1. \A j \in DOMAIN looked : looked[j] \in LookupResult
          OBVIOUS
        <4>2. QED
          BY <4>1 DEF Done, LookupResult
      <3>2. id.url \in Int
        BY DEF Identity
      <3>3. CASE \E j \in Done(looked) : Rank(looked, j) = k
        <4>1. PICK j \in Done(looked) : j = CHOOSE i \in Done(looked) : Rank(looked, i) = k
          BY <3>3
        <4>2. u = looked[j].url
          BY <2>2, <3>3, <4>1
        <4>3. QED
          BY <3>1, <4>2
      <3>4. CASE ~\E j \in Done(looked) : Rank(looked, j) = k
        BY <2>2, <3>2, <3>4
      <3>5. QED
        BY <3>3, <3>4
    <2>5. ASSUME \A j \in 1..k : looked[j].st = "done"
          PROVE  u = looked[k].url
      <3>1. /\ k \in Done(looked)
            /\ \A j \in Done(looked) : Rank(looked, j) = k <=> j = k
        BY <1>2, <2>5, RankOfFirst
      <3>2. k = CHOOSE j \in Done(looked) : Rank(looked, j) = k
        BY <3>1
      <3>3. QED
        BY <2>2, <3>1, <3>2
    <2>6. QED
      BY <2>1, <2>3, <2>4, <2>5 DEF Identity
  <1>3. QED
    BY <1>1, <1>2

\* The index after those of the names found is an index.
LEMMA NextIndex ==
    ASSUME NEW ids \in Seq(Identity),
           \A k \in DOMAIN ids : ids[k].name \in Names,
           \A j, k \in DOMAIN ids : ids[j].name = ids[k].name => j = k
    PROVE  Len(ids) + 1 \in Indices
  <1>1. PICK n \in Nat : n = Len(ids)
    OBVIOUS
  <1>2. DOMAIN ids = 1..n
    BY <1>1
  <1>3. PICK f : f = [k \in 1..n |-> ids[k].name]
    OBVIOUS
  <1>4. f \in [1..n -> Names] /\ \A j, k \in 1..n : f[j] = f[k] => j = k
    BY <1>2, <1>3
  <1>5. f \in Injection(1..n, Names)
    BY <1>4 DEF Injection, IsInjective
  <1>6. IsFiniteSet(Names) /\ 1..(Cardinality(Names) + 1) \subseteq Indices
    BY AuthenticatorAssumption
  <1>7. Cardinality(1..n) <= Cardinality(Names) /\ Cardinality(Names) \in Nat
    BY <1>5, <1>6, FS_Injection, FS_CardinalityType
  <1>8. Cardinality(1..n) = n
    BY FS_Interval
  <1>9. QED
    BY <1>1, <1>6, <1>7, <1>8

----------------------------------------------------------------------------
(* Requests. *)

\* A request as it arrives.
LEMMA NewRequestTyped ==
    NewRequest \in RequestRecord /\ Right(NewLink.id) /\ NewRequest.link = NewLink
  <1>1. PICK a \in Apps : a = CHOOSE b \in Apps : TRUE
    BY Bounds
  <1>2. PICK id \in Identity : id = [name |-> NoName, index |-> 0, url |-> NoUrl]
    <2>1. NoName \in Names \cup {NoName} /\ 0 \in Int /\ NoUrl \in Int
      BY DEF NoUrl
    <2>2. QED
      BY <2>1 DEF Identity
  <1>3. NewLink = [id |-> id, app |-> a, write |-> FALSE, nonce |-> 0]
    BY <1>1, <1>2 DEF NewLink
  <1>4. NewLink \in Link /\ NewLink.id = id
    BY <1>3 DEF Link
  <1>5. Right(id)
    BY <1>2, Bounds DEF Right
  <1>6. NewRequest \in RequestRecord /\ NewRequest.link = NewLink
    <2>1. /\ "none" \in Kinds /\ "idle" \in Phases /\ 0 \in Statuses /\ NoProfile \in Profiles
          /\ <<>> \in IdSeq /\ <<>> \in LookedSeq /\ {} \in IdSet /\ {} \in Pages
      BY DEF Kinds, Phases, Statuses, Profiles, IdSeq, LookedSeq, IdSet, Pages
    <2>2. QED
      BY <1>4, <2>1 DEF NewRequest, RequestRecord
  <1>7. QED
    BY <1>4, <1>5, <1>6

Over(kind, phase, status, page) ==
    [NewRequest EXCEPT !.kind = kind, !.phase = phase, !.status = status, !.page = page]

\* An answered request has only its page, one that was stopped not even that.
LEMMA AnsweredTyped ==
    ASSUME NEW kind \in Kinds,
           NEW phase \in {"answered", "dead"}, NEW status \in Statuses,
           NEW page \in Pages, \A link \in page : Right(link.id), NEW x,
           x = Over(kind, phase, status, page)
    PROVE  /\ x \in RequestRecord /\ x.phase = phase /\ x.status = status /\ x.kind = kind
           /\ RequestInv(x)
  <1>0. PICK n \in RequestRecord : n = NewRequest
    BY NewRequestTyped
  <1>1. /\ n = NewRequest
        /\ x = [n EXCEPT !.kind = kind, !.phase = phase, !.status = status, !.page = page]
    BY <1>0 DEF Over
  <1>2. x \in RequestRecord
    <2>1. phase \in Phases
      BY DEF Phases
    <2>2. [n EXCEPT !.kind = kind, !.phase = phase, !.status = status, !.page = page]
            \in RequestRecord
      BY <2>1 DEF RequestRecord
    <2>3. QED
      BY <1>1, <2>2
  <1>3. n.ids = <<>> /\ n.shown = {} /\ n.link = NewLink
    BY <1>1, NewRequestTyped DEF NewRequest
  <1>4. /\ x.phase = phase /\ x.status = status /\ x.kind = kind /\ x.page = page
        /\ x.ids = <<>> /\ x.shown = {} /\ x.link = NewLink
    BY <1>1, <1>3 DEF RequestRecord
  <1>5. DOMAIN x.ids = {}
    BY <1>4
  <1>6. Listed(x) /\ Answers(x) /\ Linked(x)
    BY <1>4, <1>5, NewRequestTyped DEF Listed, Answers, Linked
  <1>7. Ready(x)
    BY <1>4 DEF Ready
  <1>8. QED
    BY <1>2, <1>4, <1>6, <1>7 DEF RequestInv

\* One request changes.
LEMMA OneRequest ==
    ASSUME Typed, NEW r \in Requests, NEW x \in RequestRecord,
           req' = [req EXCEPT ![r] = x]
    PROVE  /\ req' \in [Requests -> RequestRecord] /\ req'[r] = x
           /\ \A q \in Requests \ {r} : req'[q] = req[q]
  BY DEF Typed

\* The fields of a request.
LEMMA Parts ==
    ASSUME Typed, NEW r \in Requests
    PROVE  req[r] \in RequestRecord
  BY DEF Typed

\* A step of one request that uploads nothing: what is left to show of it.
LEMMA Composed ==
    ASSUME InOrder, NEW r \in Requests, NEW x \in RequestRecord,
           req' = [req EXCEPT ![r] = x], RequestInv(x), UNCHANGED profile,
           coerce' \in BOOLEAN, nonce' \in 0..MaxRestarts, failures' \in 0..MaxFailures,
           coerce' => Loading(x) \/ (coerce /\ ~Loading(req[r]))
    PROVE  InOrder'
  <1>1. Typed
    BY DEF InOrder
  <1>2. /\ req' \in [Requests -> RequestRecord] /\ req'[r] = x
        /\ \A q \in Requests \ {r} : req'[q] = req[q]
    BY <1>1, OneRequest
  <1>3. Typed'
    BY <1>1, <1>2 DEF Typed
  <1>4. CoercionRestored'
    <2>1. SUFFICES ASSUME coerce'
                   PROVE  \E q \in Requests : Loading(req'[q])
      BY DEF CoercionRestored, At, Loading
    <2>2. CASE Loading(x)
      BY <1>2, <2>2
    <2>3. CASE coerce /\ ~Loading(req[r])
      <3>1. PICK q \in Requests : Loading(req[q])
        BY <2>3 DEF InOrder, CoercionRestored, At, Loading
      <3>2. q # r
        BY <2>3, <3>1
      <3>3. QED
        BY <1>2, <3>1, <3>2
    <2>4. QED
      BY <2>1, <2>2, <2>3
  <1>5. ASSUME NEW q \in Requests
        PROVE  RequestInv(req[q])'
    <2>1. PICK y \in RequestRecord : y = req'[q] /\ RequestInv(y)
      BY <1>1, <1>2 DEF InOrder, Typed
    <2>2. Listed(req[q])' /\ Answers(req[q])' /\ Linked(req[q])'
      BY <2>1, SMTT(30) DEF RequestInv, Listed, Answers, Linked
    <2>3. Ready(y)'
      BY <2>1 DEF RequestInv, Ready
    <2>4. Ready(req[q])'
      BY <2>1, <2>3 DEF Ready
    <2>5. QED
      BY <2>2, <2>4 DEF RequestInv
  <1>6. QED
    BY <1>3, <1>4, <1>5 DEF InOrder

\* A request is answered.
LEMMA Ended ==
    ASSUME InOrder, NEW r \in Requests, NEW status \in Statuses, NEW page \in Pages,
           \A link \in page : Right(link.id),
           req' = [req EXCEPT ![r] = Answered(r, status, page)],
           UNCHANGED <<nonce, profile>>, Fails \/ UNCHANGED failures,
           \/ coerce' = FALSE
           \/ coerce' = coerce /\ ~Loading(req[r])
    PROVE  InOrder'
  <1>1. Typed
    BY DEF InOrder
  <1>2. PICK kind \in Kinds : kind = req[r].kind
    BY <1>1, Parts DEF RequestRecord
  <1>3. PICK phase \in {"answered", "dead"} : phase = "answered"
    OBVIOUS
  <1>4. PICK x : x = Over(kind, phase, status, page) /\ x = Answered(r, status, page)
    BY <1>2, <1>3 DEF Answered, Over
  <1>5. coerce' \in BOOLEAN /\ nonce' \in 0..MaxRestarts /\ failures' \in 0..MaxFailures
    BY <1>1, FailsTyped DEF Typed
  <1>6. req' = [req EXCEPT ![r] = x]
    BY <1>4
  <1>7. coerce' => coerce /\ ~Loading(req[r])
    OBVIOUS
  <1>8. x \in RequestRecord /\ RequestInv(x)
    <2>1. kind \in Kinds /\ phase \in {"answered", "dead"} /\ status \in Statuses /\ page \in Pages
      OBVIOUS
    <2>2. \A link \in page : Right(link.id)
      OBVIOUS
    <2>3. x = Over(kind, phase, status, page)
      BY <1>4
    <2>4. QED
      BY ONLY <2>1, <2>2, <2>3, AnsweredTyped
  <1>9. QED
    BY <1>5, <1>6, <1>7, <1>8, Composed

----------------------------------------------------------------------------
(* The steps: requests that arrive. *)

\* A request begins with an identity to look at, or to load them all.
LEMMA Began ==
    ASSUME InOrder, NEW r \in Requests, NEW x \in RequestRecord,
           req[r].phase = "idle", req' = [req EXCEPT ![r] = x],
           x.ids = req[r].ids, x.index = req[r].index, x.shown = req[r].shown,
           x.page = req[r].page, Right(x.link.id),
           x.phase \in {"answered", "names", "connect", "read"},
           x.phase = "names" => x.kind = "auth",
           UNCHANGED <<nonce, profile, failures>>,
           coerce' = coerce \/ (coerce' = TRUE /\ x.phase = "names")
    PROVE  InOrder'
  <1>1. Typed /\ RequestInv(req[r]) /\ ~Loading(req[r])
    BY DEF InOrder, Loading
  <1>2. Listed(x)
    BY <1>1 DEF RequestInv, Listed
  <1>3. Answers(x) /\ Ready(x)
    BY DEF Answers, Ready
  <1>4. Linked(x)
    BY <1>1 DEF RequestInv, Linked
  <1>5. coerce' \in BOOLEAN /\ nonce' \in 0..MaxRestarts /\ failures' \in 0..MaxFailures
    BY <1>1 DEF Typed
  <1>6. coerce' => Loading(x) \/ (coerce /\ ~Loading(req[r]))
    BY <1>1 DEF Loading
  <1>7. RequestInv(x)
    BY <1>2, <1>3, <1>4 DEF RequestInv
  <1>8. QED
    BY <1>5, <1>6, <1>7, Composed

\* /auth without a request is answered at once.
LEMMA AuthWithoutRequestKeeps ==
    ASSUME InOrder, NEW r \in Requests, AuthWithoutRequest(r)
    PROVE  InOrder'
  <1>1. Typed /\ Right(req[r].link.id) /\ req[r].phase = "idle"
    BY DEF InOrder, RequestInv, Linked, AuthWithoutRequest, Offer
  <1>2. PICK old \in RequestRecord : old = req[r]
    BY <1>1, Parts
  <1>3. PICK status \in Statuses : status = 400
    BY DEF Statuses
  <1>4. PICK x \in RequestRecord :
            x = [old EXCEPT !.kind = "auth", !.phase = "answered", !.status = status]
    <2>1. "auth" \in Kinds /\ "answered" \in Phases
      BY DEF Kinds, Phases
    <2>2. [old EXCEPT !.kind = "auth", !.phase = "answered", !.status = status]
            \in RequestRecord
      BY <2>1 DEF RequestRecord
    <2>3. QED
      BY <2>2
  <1>5. /\ x.phase = "answered" /\ x.ids = old.ids /\ x.index = old.index
        /\ x.shown = old.shown /\ x.page = old.page /\ x.link = old.link
    BY <1>4 DEF RequestRecord
  <1>6. req' = [req EXCEPT ![r] = x]
    BY <1>1, <1>2, <1>4, <1>3, ZenonT(40) DEF AuthWithoutRequest, Typed
  <1>7. UNCHANGED <<coerce, nonce, profile, failures>>
    BY DEF AuthWithoutRequest
  <1>8. QED
    BY <1>1, <1>2, <1>5, <1>6, <1>7, Began

\* Loading the identities begins.
LEMMA AuthKeeps ==
    ASSUME InOrder, NEW r \in Requests, Auth(r)
    PROVE  InOrder'
  <1>1. /\ Typed /\ Right(req[r].link.id) /\ req[r].phase = "idle"
        /\ coerce' = TRUE /\ UNCHANGED <<nonce, profile, failures>>
    BY DEF InOrder, RequestInv, Linked, Auth, Offer
  <1>2. PICK old \in RequestRecord : old = req[r]
    BY <1>1, Parts
  <1>3. PICK a \in Apps, w \in BOOLEAN :
            req' = [req EXCEPT ![r].kind = "auth", ![r].phase = "names",
                               ![r].link.app = a, ![r].link.write = w]
    BY DEF Auth
  <1>4. PICK was \in Link : was = old.link
    BY DEF RequestRecord
  <1>5. PICK link \in Link : link = [was EXCEPT !.app = a, !.write = w] /\ link.id = was.id
    <2>1. [was EXCEPT !.app = a, !.write = w] \in Link
      BY DEF Link
    <2>2. [was EXCEPT !.app = a, !.write = w].id = was.id
      BY DEF Link
    <2>3. QED
      BY <2>1, <2>2
  <1>6. PICK x \in RequestRecord :
            x = [old EXCEPT !.kind = "auth", !.phase = "names", !.link = link]
    <2>1. "auth" \in Kinds /\ "names" \in Phases
      BY DEF Kinds, Phases, Statuses
    <2>2. [old EXCEPT !.kind = "auth", !.phase = "names", !.link = link] \in RequestRecord
      BY <2>1 DEF RequestRecord
    <2>3. QED
      BY <2>2
  <1>7. /\ x.phase = "names" /\ x.ids = old.ids /\ x.index = old.index
        /\ x.shown = old.shown /\ x.page = old.page /\ x.link = link /\ x.kind = "auth"
    BY <1>6 DEF RequestRecord
  <1>8. req' = [req EXCEPT ![r] = x]
    <2>1. [old EXCEPT !.kind = "auth", !.phase = "names", !.link.app = a, !.link.write = w]
            = [old EXCEPT !.kind = "auth", !.phase = "names", !.link = link]
      BY <1>4, <1>5 DEF RequestRecord
    <2>2. req' = [req EXCEPT ![r] = [old EXCEPT !.kind = "auth", !.phase = "names",
                                                !.link.app = a, !.link.write = w]]
      BY <1>1, <1>2, <1>3, ZenonT(40) DEF Typed
    <2>3. QED
      BY <1>6, <2>1, <2>2
  <1>9. QED
    BY <1>1, <1>2, <1>4, <1>5, <1>7, <1>8, Began

\* A link is followed.
LEMMA SignInKeeps ==
    ASSUME InOrder, NEW r \in Requests, SignIn(r)
    PROVE  InOrder'
  <1>1. Typed /\ req[r].phase = "idle" /\ UNCHANGED <<coerce, nonce, profile, failures>>
    BY DEF InOrder, SignIn, Offer
  <1>2. PICK old \in RequestRecord : old = req[r]
    BY <1>1, Parts
  <1>3. \A q \in Requests : \A l \in req[q].page : l \in Link /\ Right(l.id)
    BY <1>1, Parts DEF InOrder, RequestInv, Linked, RequestRecord, Pages
  <1>4. PICK link \in OldLinks \cup UNION {req[q].page : q \in Requests} :
            req' = [req EXCEPT ![r].kind = "signin", ![r].phase = "connect", ![r].link = link]
    BY DEF SignIn
  <1>5. link \in Link /\ Right(link.id)
    BY <1>3, <1>4, AuthenticatorAssumption
  <1>6. PICK x \in RequestRecord :
            x = [old EXCEPT !.kind = "signin", !.phase = "connect", !.link = link]
    <2>1. "signin" \in Kinds /\ "connect" \in Phases
      BY DEF Kinds, Phases, Statuses
    <2>2. [old EXCEPT !.kind = "signin", !.phase = "connect", !.link = link] \in RequestRecord
      BY <1>5, <2>1 DEF RequestRecord
    <2>3. QED
      BY <2>2
  <1>7. /\ x.phase = "connect" /\ x.ids = old.ids /\ x.index = old.index
        /\ x.shown = old.shown /\ x.page = old.page /\ x.link = link
    BY <1>6 DEF RequestRecord
  <1>8. req' = [req EXCEPT ![r] = x]
    BY <1>1, <1>2, <1>4, <1>6 DEF Typed
  <1>9. QED
    BY <1>1, <1>2, <1>5, <1>7, <1>8, Began

\* gaia_sethub is given one of the names.
LEMMA SetHubKeeps ==
    ASSUME InOrder, NEW r \in Requests, SetHub(r)
    PROVE  InOrder'
  <1>1. Typed /\ req[r].phase = "idle" /\ UNCHANGED <<coerce, nonce, profile, failures>>
    BY DEF InOrder, SetHub, Offer
  <1>2. PICK old \in RequestRecord : old = req[r]
    BY <1>1, Parts
  <1>3. PICK n \in Names, a \in Apps :
            req' = [req EXCEPT ![r].kind = "sethub", ![r].phase = "read", ![r].link.app = a,
                       ![r].link.id = [name |-> n, index |-> IndexOf(n), url |-> NoUrl]]
    BY DEF SetHub
  <1>4. PICK id \in Identity : id = [name |-> n, index |-> IndexOf(n), url |-> NoUrl]
    <2>1. PICK i \in Indices : i = IndexOf(n)
      BY OneOwner
    <2>2. NoUrl \in Int /\ i \in Int
      BY Bounds DEF NoUrl
    <2>3. [name |-> n, index |-> i, url |-> NoUrl] \in Identity
      BY <2>2 DEF Identity
    <2>4. QED
      BY <2>1, <2>3
  <1>5. Right(id)
    BY <1>4, OneOwner DEF Right
  <1>6. PICK was \in Link : was = old.link
    BY DEF RequestRecord
  <1>7. PICK link \in Link : link = [was EXCEPT !.app = a, !.id = id] /\ link.id = id
    <2>1. [was EXCEPT !.app = a, !.id = id] \in Link
      BY DEF Link
    <2>2. [was EXCEPT !.app = a, !.id = id].id = id
      BY DEF Link
    <2>3. QED
      BY <2>1, <2>2
  <1>8. PICK x \in RequestRecord :
            x = [old EXCEPT !.kind = "sethub", !.phase = "read", !.link = link]
    <2>1. "sethub" \in Kinds /\ "read" \in Phases
      BY DEF Kinds, Phases, Statuses
    <2>2. [old EXCEPT !.kind = "sethub", !.phase = "read", !.link = link] \in RequestRecord
      BY <2>1 DEF RequestRecord
    <2>3. QED
      BY <2>2
  <1>9. /\ x.phase = "read" /\ x.ids = old.ids /\ x.index = old.index
        /\ x.shown = old.shown /\ x.page = old.page /\ x.link = link
    BY <1>8 DEF RequestRecord
  <1>10. req' = [req EXCEPT ![r] = x]
    <2>1. [old EXCEPT !.kind = "sethub", !.phase = "read", !.link.app = a, !.link.id = id]
            = [old EXCEPT !.kind = "sethub", !.phase = "read", !.link = link]
      BY <1>6, <1>7 DEF RequestRecord
    <2>2. req' = [req EXCEPT ![r] = [old EXCEPT !.kind = "sethub", !.phase = "read",
                                                !.link.app = a, !.link.id = id]]
      BY <1>1, <1>2, <1>3, <1>4, ZenonT(40) DEF Typed
    <2>3. QED
      BY <1>8, <2>1, <2>2
  <1>11. QED
    BY <1>1, <1>2, <1>5, <1>7, <1>9, <1>10, Began

----------------------------------------------------------------------------
(* The steps: the identities are loaded. *)

\* The identities of one address.
LEMMA OwnedRight ==
    ASSUME NEW i \in Indices, NEW owned,
           owned = [k \in DOMAIN NamesAt[i] |->
                      [name |-> NamesAt[i][k], index |-> i, url |-> NoUrl]]
    PROVE  /\ owned \in Seq(Identity)
           /\ \A k \in DOMAIN owned : /\ owned[k].name \in Names /\ Right(owned[k])
                                      /\ owned[k].index = i
           /\ \A j, k \in DOMAIN owned : owned[j].name = owned[k].name => j = k
  <1>1. PICK s \in Seq(STRING) : s = NamesAt[i] /\ IsInjective(s)
    BY AuthenticatorAssumption
  <1>2. PICK n \in Nat : n = Len(s) /\ DOMAIN s = 1..n
    OBVIOUS
  <1>3. ASSUME NEW k \in 1..n
        PROVE  /\ owned[k] \in Identity /\ owned[k].name = s[k] /\ owned[k].name \in Names
               /\ owned[k].index = i /\ Right(owned[k])
    <2>1. s[k] \in ToSet(NamesAt[i]) /\ s[k] \in Names
      BY <1>1, <1>2, OneOwner DEF ToSet
    <2>2. i \in Int /\ NoUrl \in Int
      BY Bounds DEF NoUrl
    <2>3. PICK id \in Identity : id = [name |-> s[k], index |-> i, url |-> NoUrl]
      BY <2>1, <2>2 DEF Identity
    <2>4. owned[k] = id
      BY <1>1, <1>2, <2>3
    <2>5. id.name = s[k] /\ id.index = i
      BY <2>3
    <2>6. QED
      BY <2>1, <2>4, <2>5 DEF Right
  <1>4. DOMAIN owned = 1..n /\ owned = [k \in 1..n |-> owned[k]]
    BY <1>1, <1>2
  <1>5. owned \in [1..n -> Identity]
    BY <1>3, <1>4
  <1>6. owned \in Seq(Identity)
    BY <1>5
  <1>7. \A j, k \in 1..n : s[j] = s[k] => j = k
    BY <1>1, <1>2 DEF IsInjective
  <1>8. ASSUME NEW j \in DOMAIN owned, NEW k \in DOMAIN owned, owned[j].name = owned[k].name
        PROVE  j = k
    <2>1. j \in 1..n /\ k \in 1..n /\ owned[j].name = s[j] /\ owned[k].name = s[k]
      BY <1>3, <1>4
    <2>2. QED
      BY <1>7, <1>8, <2>1
  <1>9. \A k \in DOMAIN owned : owned[k].name \in Names /\ Right(owned[k]) /\ owned[k].index = i
    BY <1>3, <1>4
  <1>10. QED
    BY <1>6, <1>8, <1>9

\* An address owns names, or is the one to stop at.
LEMMA NamesOwnedKeeps ==
    ASSUME InOrder, NEW r \in Requests, NamesOwned(r)
    PROVE  InOrder'
  <1>1. /\ Typed /\ RequestInv(req[r]) /\ At(r, "auth", "names")
        /\ req[r].index <= MaxNameIndex
        /\ UNCHANGED <<coerce, nonce, profile, failures>>
    BY DEF InOrder, NamesOwned
  <1>2. PICK old \in RequestRecord : old = req[r]
    BY <1>1, Parts
  <1>3. PICK i \in Indices : i = old.index
    BY <1>1, <1>2, Bounds DEF RequestRecord
  <1>4. PICK owned :
            owned = [k \in DOMAIN NamesAt[i] |->
                       [name |-> NamesAt[i][k], index |-> i, url |-> NoUrl]]
    OBVIOUS
  <1>5. PICK ids \in Seq(Identity) : ids = old.ids
    BY DEF RequestRecord, IdSeq
  <1>6. /\ \A k \in DOMAIN ids : ids[k].name \in Names /\ Right(ids[k]) /\ ids[k].index < i
        /\ \A j, k \in DOMAIN ids : ids[j].name = ids[k].name => j = k
        /\ old.kind = "auth" /\ old.phase = "names" /\ Linked(old)
    BY <1>1, <1>2, <1>3, <1>5 DEF RequestInv, Listed, At
  <1>7. req' = IF owned # <<>>
               THEN [req EXCEPT ![r].index = i + 1, ![r].ids = @ \o owned]
               ELSE [req EXCEPT ![r].phase = "lookups",
                                ![r].looked = [k \in DOMAIN ids |-> Pending]]
    BY <1>2, <1>3, <1>4, <1>5 DEF NamesOwned
  <1>8. coerce' \in BOOLEAN /\ nonce' \in 0..MaxRestarts /\ failures' \in 0..MaxFailures
    BY <1>1 DEF Typed
  <1>9. i \in Nat
    BY Bounds
  <1>10. CASE owned # <<>>
    <2>1. /\ owned \in Seq(Identity)
          /\ \A k \in DOMAIN owned : /\ owned[k].name \in Names /\ Right(owned[k])
                                     /\ owned[k].index = i
          /\ \A j, k \in DOMAIN owned : owned[j].name = owned[k].name => j = k
      BY <1>4, OwnedRight
    <2>2. PICK more \in Seq(Identity) : more = ids \o owned
      <3>1. ids \o owned \in Seq(Identity)
        BY <2>1
      <3>2. QED
        BY <3>1
    <2>3. PICK m \in Nat, n \in Nat : /\ m = Len(ids) /\ n = Len(owned)
                                      /\ DOMAIN ids = 1..m /\ DOMAIN owned = 1..n
      BY <2>1
    <2>4. /\ DOMAIN more = 1..(m + n)
          /\ \A k \in 1..m : more[k] = ids[k]
          /\ \A k \in 1..(m + n) : k > m => more[k] = owned[k - m] /\ k - m \in 1..n
      BY <2>1, <2>2, <2>3
    <2>5. ASSUME NEW k \in DOMAIN more
          PROVE  more[k].name \in Names /\ Right(more[k]) /\ more[k].index < i + 1
      <3>1. CASE k \in 1..m
        <4>1. /\ more[k] = ids[k] /\ ids[k].name \in Names /\ Right(ids[k])
              /\ ids[k].index < i
          BY <1>6, <2>3, <2>4, <3>1
        <4>2. ids[k].index \in Nat
          BY <4>1, Bounds DEF Right
        <4>3. QED
          BY <1>9, <4>1, <4>2
      <3>2. CASE k > m
        <4>1. more[k] = owned[k - m] /\ k - m \in DOMAIN owned
          BY <2>3, <2>4, <3>2
        <4>2. more[k].name \in Names /\ Right(more[k]) /\ more[k].index = i
          BY <2>1, <4>1
        <4>3. QED
          BY <1>9, <4>2
      <3>3. QED
        BY <2>4, <3>1, <3>2
    <2>6. ASSUME NEW j \in DOMAIN more, NEW k \in DOMAIN more, more[j].name = more[k].name
          PROVE  j = k
      <3>1. CASE j \in 1..m /\ k \in 1..m
        BY <1>6, <2>3, <2>4, <2>6, <3>1
      <3>2. CASE j > m /\ k > m
        <4>1. /\ more[j] = owned[j - m] /\ j - m \in DOMAIN owned
              /\ more[k] = owned[k - m] /\ k - m \in DOMAIN owned
          BY <2>3, <2>4, <3>2
        <4>2. j - m = k - m
          BY <2>1, <2>6, <4>1
        <4>3. j \in Nat /\ k \in Nat
          BY <2>3, <2>4
        <4>4. QED
          BY <2>3, <4>2, <4>3
      <3>3. ASSUME NEW a \in DOMAIN ids, NEW b \in DOMAIN owned PROVE ids[a].name # owned[b].name
        <4>1. /\ ids[a].index \in Indices /\ ids[a].name \in ToSet(NamesAt[ids[a].index])
              /\ owned[b].name \in ToSet(NamesAt[i])
          BY <1>6, <2>1, Bounds DEF Right
        <4>2. PICK l \in Nat : l = ids[a].index /\ l < i
          BY <1>6, <4>1, Bounds
        <4>3. IndexOf(ids[a].name) = l /\ IndexOf(owned[b].name) = i
          BY <4>1, <4>2, OneOwner
        <4>4. QED
          BY <1>9, <4>2, <4>3
      <3>4. CASE j \in 1..m /\ k > m
        <4>1. j \in DOMAIN ids /\ more[j] = ids[j]
          BY <2>3, <2>4, <3>4
        <4>2. k - m \in DOMAIN owned /\ more[k] = owned[k - m]
          BY <2>3, <2>4, <3>4
        <4>3. QED
          BY <2>6, <3>3, <4>1, <4>2
      <3>5. CASE j > m /\ k \in 1..m
        <4>1. k \in DOMAIN ids /\ more[k] = ids[k]
          BY <2>3, <2>4, <3>5
        <4>2. j - m \in DOMAIN owned /\ more[j] = owned[j - m]
          BY <2>3, <2>4, <3>5
        <4>3. QED
          BY <2>6, <3>3, <4>1, <4>2
      <3>6. QED
        BY <2>4, <3>1, <3>2, <3>4, <3>5
    <2>7. PICK x \in RequestRecord : x = [old EXCEPT !.index = i + 1, !.ids = more]
      <3>1. i + 1 \in Nat /\ more \in IdSeq
        BY <1>9 DEF IdSeq
      <3>2. [old EXCEPT !.index = i + 1, !.ids = more] \in RequestRecord
        BY <3>1 DEF RequestRecord
      <3>3. QED
        BY <3>2
    <2>8. /\ x.index = i + 1 /\ x.ids = more /\ x.phase = "names" /\ x.kind = "auth"
          /\ x.shown = old.shown /\ x.page = old.page /\ x.link = old.link
      BY <1>6, <2>7 DEF RequestRecord
    <2>9. req' = [req EXCEPT ![r] = x]
      BY <1>1, <1>2, <1>5, <1>7, <1>10, <2>2, <2>7 DEF Typed
    <2>10. Listed(x)
      BY <2>5, <2>6, <2>8 DEF Listed
    <2>11. Answers(x) /\ Ready(x)
      BY <2>8 DEF Answers, Ready
    <2>12. Linked(x)
      BY <1>6, <2>8 DEF Linked
    <2>13. RequestInv(x) /\ Loading(x)
      BY <2>8, <2>10, <2>11, <2>12 DEF RequestInv, Loading
    <2>14. QED
      BY <1>1, <1>8, <2>9, <2>13, Composed
  <1>11. CASE owned = <<>>
    <2>1. PICK looked \in LookedSeq : looked = [k \in DOMAIN ids |-> Pending]
      <3>1. PICK p \in LookupResult : p = Pending
        <4>1. "pending" \in {"pending", "rejected", "done"} /\ NoUrl \in Int
              /\ NoProfile \in Profiles
          BY DEF Profiles, NoUrl
        <4>2. Pending \in LookupResult
          BY <4>1 DEF Pending, Result, LookupResult
        <4>3. QED
          BY <4>2
      <3>2. PICK m \in Nat : m = Len(ids) /\ DOMAIN ids = 1..m
        OBVIOUS
      <3>3. [k \in 1..m |-> p] \in [1..m -> LookupResult]
        OBVIOUS
      <3>4. [k \in 1..m |-> p] \in Seq(LookupResult)
        BY <3>3
      <3>5. QED
        BY <3>1, <3>2, <3>4 DEF LookedSeq
    <2>2. /\ DOMAIN looked = DOMAIN ids
          /\ \A k \in DOMAIN ids : looked[k].st # "done"
      BY <2>1 DEF Pending, Result
    <2>3. PICK x \in RequestRecord : x = [old EXCEPT !.phase = "lookups", !.looked = looked]
      <3>1. "lookups" \in Phases
        BY DEF Phases
      <3>2. [old EXCEPT !.phase = "lookups", !.looked = looked] \in RequestRecord
        BY <3>1 DEF RequestRecord
      <3>3. QED
        BY <3>2
    <2>4. /\ x.index = i /\ x.ids = ids /\ x.phase = "lookups" /\ x.kind = "auth"
          /\ x.looked = looked
          /\ x.shown = old.shown /\ x.page = old.page /\ x.link = old.link
      BY <1>3, <1>5, <1>6, <2>3 DEF RequestRecord
    <2>5. req' = [req EXCEPT ![r] = x]
      BY <1>1, <1>2, <1>7, <1>11, <2>1, <2>3 DEF Typed
    <2>6. Listed(x)
      BY <1>6, <2>4 DEF Listed
    <2>7. Answers(x) /\ Ready(x)
      BY <2>2, <2>4 DEF Answers, Ready
    <2>8. Linked(x)
      BY <1>6, <2>4 DEF Linked
    <2>9. RequestInv(x) /\ Loading(x)
      BY <2>4, <2>6, <2>7, <2>8 DEF RequestInv, Loading
    <2>10. QED
      BY <1>1, <1>8, <2>5, <2>9, Composed
  <1>12. QED
    BY <1>10, <1>11

\* Loading the names fails: the catch block restores the adapter.
LEMMA NamesFailKeeps ==
    ASSUME InOrder, NEW r \in Requests, NamesFail(r)
    PROVE  InOrder'
  <1>1. PICK status \in Statuses : status = 400
    BY DEF Statuses
  <1>2. PICK page \in Pages : page = {}
    BY DEF Pages
  <1>3. /\ req' = [req EXCEPT ![r] = Answered(r, status, page)]
        /\ UNCHANGED <<nonce, profile>> /\ coerce' = FALSE
        /\ Fails \/ UNCHANGED failures
    BY <1>1, <1>2 DEF NamesFail, Answer
  <1>4. \A link \in page : Right(link.id)
    BY <1>2
  <1>5. QED
    BY <1>3, <1>4, Ended

\* One of the lookups is done or rejected.
LEMMA NameLookedKeeps ==
    ASSUME InOrder, NEW r \in Requests, NEW k \in DOMAIN req[r].looked, NameLooked(r, k)
    PROVE  InOrder'
  <1>1. /\ Typed /\ RequestInv(req[r]) /\ At(r, "auth", "lookups")
        /\ UNCHANGED <<coerce, nonce, profile>>
    BY DEF InOrder, NameLooked
  <1>2. PICK old \in RequestRecord : old = req[r]
    BY <1>1, Parts
  <1>3. /\ old.kind = "auth" /\ old.phase = "lookups" /\ Listed(old) /\ Linked(old)
        /\ DOMAIN old.looked = DOMAIN old.ids
        /\ \A j \in DOMAIN old.ids :
            old.looked[j].st = "done" => old.looked[j].url = Url(old.ids[j].name)
    BY <1>1, <1>2 DEF RequestInv, Answers, At
  <1>4. k \in DOMAIN old.ids
    BY <1>2, <1>3
  <1>5. PICK n \in Names : n = old.ids[k].name
    BY <1>3, <1>4 DEF Listed
  <1>6. PICK result \in LookupResults(n) :
            /\ Lookup(n, result)
            /\ req' = [req EXCEPT ![r].looked[k] = result]
    BY <1>2, <1>5 DEF NameLooked
  <1>7. n \in Names \cup {NoName}
    OBVIOUS
  <1>8. result \in LookupResult /\ (result.st = "done" => result.url = Url(n))
    BY <1>1, <1>6, <1>7, LookupRight
  <1>9. PICK was \in Seq(LookupResult) : was = old.looked
    BY DEF RequestRecord, LookedSeq
  <1>10. PICK looked \in LookedSeq : looked = [was EXCEPT ![k] = result]
    <2>1. [was EXCEPT ![k] = result] \in Seq(LookupResult)
      <3>1. PICK m \in Nat : m = Len(was) /\ DOMAIN was = 1..m
        OBVIOUS
      <3>2. was \in [1..m -> LookupResult]
        BY <3>1
      <3>3. [was EXCEPT ![k] = result] \in [1..m -> LookupResult]
        BY <1>8, <3>2
      <3>4. QED
        BY <3>3
    <2>2. QED
      BY <2>1 DEF LookedSeq
  <1>11. DOMAIN looked = DOMAIN was /\ looked[k] = result
         /\ \A j \in DOMAIN was \ {k} : looked[j] = was[j]
    BY <1>2, <1>9, <1>10
  <1>12. PICK x \in RequestRecord : x = [old EXCEPT !.looked = looked]
    <2>1. [old EXCEPT !.looked = looked] \in RequestRecord
      BY DEF RequestRecord
    <2>2. QED
      BY <2>1
  <1>13. /\ x.kind = "auth" /\ x.phase = "lookups" /\ x.looked = looked /\ x.ids = old.ids
         /\ x.index = old.index /\ x.shown = old.shown /\ x.page = old.page /\ x.link = old.link
    BY <1>3, <1>12 DEF RequestRecord
  <1>14. req' = [req EXCEPT ![r] = x]
    <2>1. req' = [req EXCEPT ![r] = [old EXCEPT !.looked[k] = result]]
      BY <1>1, <1>2, <1>6 DEF Typed
    <2>2. [old EXCEPT !.looked[k] = result] = [old EXCEPT !.looked = looked]
      BY <1>9, <1>10 DEF RequestRecord
    <2>3. QED
      BY <1>12, <2>1, <2>2
  <1>15. Listed(x)
    BY <1>3, <1>13 DEF Listed
  <1>16. Answers(x)
    <2>1. DOMAIN looked = DOMAIN old.ids
      BY <1>3, <1>9, <1>11
    <2>2. ASSUME NEW j \in DOMAIN old.ids, looked[j].st = "done"
          PROVE  looked[j].url = Url(old.ids[j].name)
      <3>1. CASE j = k
        BY <1>5, <1>8, <1>11, <2>2, <3>1
      <3>2. CASE j # k
        BY <1>3, <1>9, <1>11, <2>2, <3>2
      <3>3. QED
        BY <3>1, <3>2
    <2>3. QED
      BY <1>13, <2>1, <2>2 DEF Answers
  <1>17. Linked(x) /\ Ready(x) /\ Loading(x)
    BY <1>3, <1>13 DEF Linked, Ready, Loading
  <1>18. RequestInv(x)
    BY <1>15, <1>16, <1>17 DEF RequestInv
  <1>19. Lookup(n, result) => Fails \/ UNCHANGED failures
    BY DEF Lookup
  <1>20. coerce' \in BOOLEAN /\ nonce' \in 0..MaxRestarts /\ failures' \in 0..MaxFailures
    BY <1>1, <1>6, <1>19, FailsTyped DEF Typed
  <1>21. QED
    BY <1>1, <1>14, <1>17, <1>18, <1>20, Composed

\* What is shown of the names found, and what is added to it.
LEMMA ShownRight ==
    ASSUME NEW ids \in Seq(Identity), NEW looked \in Seq(LookupResult),
           DOMAIN looked = DOMAIN ids,
           \A k \in DOMAIN ids : ids[k].name \in Names /\ Right(ids[k]),
           \A j, k \in DOMAIN ids : ids[j].name = ids[k].name => j = k,
           NEW filled, filled = FilledIn(ids, looked)
    PROVE  /\ \A id \in ToSet(filled) : id \in Identity /\ id.name \in Names /\ Right(id)
           /\ Anonymous(filled) \in Identity /\ Anonymous(filled).name = NoName
           /\ Right(Anonymous(filled))
  <1>1. PICK n \in Nat : n = Len(ids) /\ DOMAIN ids = 1..n
    OBVIOUS
  <1>2. /\ DOMAIN filled = 1..n
        /\ \A k \in 1..n : /\ filled[k] \in Identity /\ filled[k].name = ids[k].name
                           /\ filled[k].index = ids[k].index
    BY <1>1, FilledInRight
  <1>3. ASSUME NEW id \in ToSet(filled)
        PROVE  id \in Identity /\ id.name \in Names /\ Right(id)
    <2>1. PICK k \in 1..n : id = filled[k]
      BY <1>2 DEF ToSet
    <2>2. ids[k].name \in Names /\ Right(ids[k])
      BY <1>1
    <2>3. id \in Identity /\ id.name = ids[k].name /\ id.index = ids[k].index
      BY <1>2, <2>1
    <2>4. QED
      BY <2>2, <2>3 DEF Right
  <1>4. Len(filled) = n
    BY <1>2
  <1>5. PICK i \in Indices : i = n + 1
    BY <1>1, NextIndex
  <1>6. i \in Int /\ NoUrl \in Int /\ NoName \in Names \cup {NoName}
    BY Bounds DEF NoUrl
  <1>7. PICK id \in Identity : id = [name |-> NoName, index |-> i, url |-> NoUrl]
    BY <1>6 DEF Identity
  <1>8. Anonymous(filled) = id
    BY <1>4, <1>5, <1>7 DEF Anonymous
  <1>9. id.name = NoName /\ id.index = i
    BY <1>7
  <1>10. QED
    BY <1>3, <1>8, <1>9 DEF Right

\* The identities are loaded.
LEMMA IdentitiesLoadedKeeps ==
    ASSUME InOrder, NEW r \in Requests, IdentitiesLoaded(r)
    PROVE  InOrder'
  <1>1. /\ Typed /\ RequestInv(req[r]) /\ At(r, "auth", "lookups")
        /\ coerce' = FALSE /\ UNCHANGED <<nonce, profile, failures>>
    BY DEF InOrder, IdentitiesLoaded
  <1>2. PICK old \in RequestRecord : old = req[r]
    BY <1>1, Parts
  <1>3. /\ old.kind = "auth" /\ old.phase = "lookups" /\ Listed(old) /\ Linked(old)
        /\ DOMAIN old.looked = DOMAIN old.ids
    BY <1>1, <1>2 DEF RequestInv, Answers, At
  <1>4. PICK ids \in Seq(Identity), looked \in Seq(LookupResult) :
            ids = old.ids /\ looked = old.looked
    BY DEF RequestRecord, IdSeq, LookedSeq
  <1>5. PICK filled : filled = FilledIn(ids, looked)
    OBVIOUS
  <1>6. /\ DOMAIN looked = DOMAIN ids
        /\ \A k \in DOMAIN ids : ids[k].name \in Names /\ Right(ids[k])
        /\ \A j, k \in DOMAIN ids : ids[j].name = ids[k].name => j = k
    BY <1>3, <1>4 DEF Listed
  <1>7. /\ \A id \in ToSet(filled) : id \in Identity /\ id.name \in Names /\ Right(id)
        /\ Anonymous(filled) \in Identity /\ Anonymous(filled).name = NoName
        /\ Right(Anonymous(filled))
    BY <1>5, <1>6, ShownRight
  <1>8. PICK shown \in IdSet :
            shown = {id \in ToSet(filled) : id.url # NoUrl} \cup {Anonymous(filled)}
    BY <1>7 DEF IdSet
  <1>9. \A id \in shown : Right(id)
    BY <1>7, <1>8
  <1>10. PICK x \in RequestRecord : x = [old EXCEPT !.phase = "page", !.shown = shown]
    <2>1. "page" \in Phases
      BY DEF Phases
    <2>2. [old EXCEPT !.phase = "page", !.shown = shown] \in RequestRecord
      BY <2>1 DEF RequestRecord
    <2>3. QED
      BY <2>2
  <1>11. /\ x.phase = "page" /\ x.shown = shown /\ x.ids = old.ids
         /\ x.page = old.page /\ x.link = old.link
    BY <1>10 DEF RequestRecord
  <1>12. req' = [req EXCEPT ![r] = x]
    <2>1. req' = [req EXCEPT ![r].phase = "page", ![r].shown = shown]
      BY <1>2, <1>4, <1>5, <1>8 DEF IdentitiesLoaded
    <2>2. QED
      BY <1>1, <1>2, <1>10, <2>1 DEF Typed
  <1>13. Listed(x) /\ Answers(x) /\ Ready(x)
    BY <1>3, <1>11 DEF Listed, Answers, Ready
  <1>14. Linked(x)
    BY <1>3, <1>9, <1>11 DEF Linked
  <1>15. RequestInv(x)
    BY <1>13, <1>14 DEF RequestInv
  <1>16. coerce' \in BOOLEAN /\ nonce' \in 0..MaxRestarts /\ failures' \in 0..MaxFailures
    BY <1>1 DEF Typed
  <1>17. ~coerce'
    BY <1>1
  <1>18. QED
    BY <1>1, <1>12, <1>15, <1>16, <1>17, Composed

\* The page has a link for each identity shown.
LEMMA AuthPageKeeps ==
    ASSUME InOrder, NEW r \in Requests, AuthPage(r)
    PROVE  InOrder'
  <1>1. /\ Typed /\ RequestInv(req[r]) /\ At(r, "auth", "page")
        /\ UNCHANGED <<coerce, nonce, profile, failures>>
    BY DEF InOrder, AuthPage
  <1>2. PICK old \in RequestRecord : old = req[r]
    BY <1>1, Parts
  <1>3. PICK was \in Link : was = old.link
    BY DEF RequestRecord
  <1>4. old.shown \subseteq Identity /\ \A id \in old.shown : Right(id)
    BY <1>1, <1>2 DEF RequestInv, Linked, RequestRecord, IdSet
  <1>5. PICK m \in Nat : m = nonce
    BY <1>1, Bounds DEF Typed
  <1>6. ASSUME NEW id \in old.shown
        PROVE  SignInLink(r, id) \in Link /\ SignInLink(r, id).id = id
    <2>1. id \in Identity
      BY <1>4
    <2>2. SignInLink(r, id) = [was EXCEPT !.id = id, !.nonce = m]
      BY <1>2, <1>3, <1>5 DEF SignInLink
    <2>3. [was EXCEPT !.id = id, !.nonce = m] \in Link
      BY <2>1 DEF Link
    <2>4. [was EXCEPT !.id = id, !.nonce = m].id = id
      BY DEF Link
    <2>5. QED
      BY <2>2, <2>3, <2>4
  <1>7. PICK page \in Pages : page = {SignInLink(r, id) : id \in old.shown}
    BY <1>6 DEF Pages
  <1>8. \A link \in page : Right(link.id)
    BY <1>4, <1>6, <1>7
  <1>9. PICK status \in Statuses : status = 200
    BY DEF Statuses
  <1>10. req' = [req EXCEPT ![r] = Answered(r, status, page)]
    BY <1>2, <1>7, <1>9 DEF AuthPage
  <1>11. ~Loading(req[r])
    BY <1>1 DEF At, Loading
  <1>12. QED
    BY <1>1, <1>8, <1>10, <1>11, Ended

\* A request that is refused or fails is answered with an error; one whose
\* profile is as it should be, with a redirection.
LEMMA AnsweredKeeps ==
    ASSUME InOrder, NEW r \in Requests,
           \/ AuthRefused(r) \/ SignInRefused(r) \/ SetHubFails(r) \/ UploadFails(r)
           \/ Uploaded(r) \/ UploadAnswerLost(r)
    PROVE  InOrder'
  <1>1. Typed /\ RequestInv(req[r])
    BY DEF InOrder
  <1>2. PICK status \in Statuses : Answer(r, status)
    BY DEF Statuses, AuthRefused, SignInRefused, SetHubFails, UploadFails, Uploaded,
           UploadAnswerLost
  <1>3. PICK page \in Pages : page = {}
    BY DEF Pages
  <1>4. req' = [req EXCEPT ![r] = Answered(r, status, page)]
    BY <1>2, <1>3 DEF Answer
  <1>5. /\ UNCHANGED <<coerce, nonce, profile>>
        /\ Fails \/ UNCHANGED failures
        /\ req[r].phase \in {"page", "connect", "read", "upload", "answer"}
    BY DEF At, AuthRefused, SignInRefused, SetHubFails, UploadFails, Uploaded, UploadAnswerLost
  <1>6. ~Loading(req[r])
    BY <1>5 DEF Loading
  <1>7. \A link \in page : Right(link.id)
    BY <1>3
  <1>8. QED
    BY <1>4, <1>5, <1>6, <1>7, Ended

----------------------------------------------------------------------------
(* The steps: a profile is read, changed and stored. *)

\* A link of this process is followed to an identity that has a key.
LEMMA ConnectedKeeps ==
    ASSUME InOrder, NEW r \in Requests, Connected(r)
    PROVE  InOrder'
  <1>1. /\ Typed /\ RequestInv(req[r]) /\ At(r, "signin", "connect")
        /\ UNCHANGED <<coerce, nonce, profile, failures>>
    BY DEF InOrder, Connected
  <1>2. PICK old \in RequestRecord : old = req[r]
    BY <1>1, Parts
  <1>3. PICK x \in RequestRecord : x = [old EXCEPT !.phase = "read"]
    <2>1. "read" \in Phases
      BY DEF Phases
    <2>2. [old EXCEPT !.phase = "read"] \in RequestRecord
      BY <2>1 DEF RequestRecord
    <2>3. QED
      BY <2>2
  <1>4. /\ x.phase = "read" /\ x.ids = old.ids /\ x.shown = old.shown /\ x.page = old.page
        /\ x.link = old.link
    BY <1>3 DEF RequestRecord
  <1>5. req' = [req EXCEPT ![r] = x]
    BY <1>1, <1>2, <1>3 DEF Connected, Become, Typed
  <1>6. Listed(x) /\ Answers(x) /\ Linked(x) /\ Ready(x)
    BY <1>1, <1>2, <1>4 DEF RequestInv, Listed, Answers, Linked, Ready
  <1>7. coerce' \in BOOLEAN /\ nonce' \in 0..MaxRestarts /\ failures' \in 0..MaxFailures
    BY <1>1 DEF Typed
  <1>8. coerce' => Loading(x) \/ (coerce /\ ~Loading(req[r]))
    BY <1>1 DEF At, Loading
  <1>9. RequestInv(x) /\ UNCHANGED profile
    BY <1>1, <1>6 DEF RequestInv
  <1>10. QED
    BY <1>1, <1>5, <1>7, <1>8, <1>9, Composed

\* An entry for the application is added to a profile, and nothing is lost.
LEMMA WithAppKeeps ==
    ASSUME NEW p \in Profile, NEW a \in Apps, NEW q, q = WithApp(p, a).profile
    PROVE  /\ q \in Profile /\ q # NoProfile /\ q.apps[a] = "own" /\ Keeps(p, q, a)
           /\ q.own = p.own /\ q.api = p.api
           /\ WithApp(p, a).changed <=> p.apps[a] # "own"
  <1>1. PICK entries \in [Apps -> {"none", "own", "moved", "foreign"}] : entries = p.apps
    BY DEF Profile
  <1>2. PICK new \in [Apps -> {"none", "own", "moved", "foreign"}] :
            new = [entries EXCEPT ![a] = "own"]
    OBVIOUS
  <1>3. new[a] = "own" /\ \A b \in Apps \ {a} : new[b] = entries[b]
    BY <1>2
  <1>4. q = [p EXCEPT !.apps = new]
    BY <1>1, <1>2 DEF WithApp, Profile
  <1>5. q \in Profile /\ q.apps = new /\ q.own = p.own /\ q.api = p.api
    BY <1>4 DEF Profile
  <1>6. q # NoProfile
    BY <1>5, AuthenticatorAssumption
  <1>7. Keeps(p, q, a)
    BY <1>1, <1>3, <1>5 DEF Keeps
  <1>8. WithApp(p, a).changed <=> p.apps[a] # "own"
    BY DEF WithApp
  <1>9. QED
    BY <1>3, <1>5, <1>6, <1>7, <1>8

\* API settings are added to a profile, and nothing is lost; where there is no
\* profile, one is instantiated, and that is a change.
LEMMA WithAPISettingsKeeps ==
    ASSUME NEW p \in Profiles, NEW q, q = WithAPISettings(p).profile
    PROVE  /\ q \in Profile /\ q.api = "set"
           /\ p # NoProfile => p \in Profile /\ q.own = p.own /\ q.apps = p.apps
           /\ p = NoProfile => WithAPISettings(p).changed
  <1>1. CASE p = NoProfile
    <2>1. PICK base \in Profile : base = NewProfile
      BY DEF NewProfile, Profile
    <2>2. q = [base EXCEPT !.api = "set"] /\ WithAPISettings(p).changed
      BY <1>1, <2>1 DEF WithAPISettings
    <2>3. QED
      BY <1>1, <2>2 DEF Profile
  <1>2. CASE p # NoProfile
    <2>1. PICK base \in Profile : base = p
      BY <1>2 DEF Profiles
    <2>2. q = [base EXCEPT !.api = "set"]
      BY <1>2, <2>1 DEF WithAPISettings
    <2>3. q \in Profile /\ q.api = "set" /\ q.own = base.own /\ q.apps = base.apps
      BY <2>2 DEF Profile
    <2>4. QED
      BY <1>2, <2>1, <2>3
  <1>3. QED
    BY <1>1, <1>2

\* What a sign-in makes of the profile it has read.
LEMMA SignInAdds ==
    ASSUME NEW p \in Profiles, NEW a \in Apps, NEW q,
           q = WithApp(WithAPISettings(p).profile, a).profile
    PROVE  /\ q \in Profile /\ q # NoProfile /\ q.apps[a] = "own"
           /\ p # NoProfile => Keeps(p, q, a)
  <1>1. PICK s \in Profile : s = WithAPISettings(p).profile /\ s.api = "set"
                             /\ (p # NoProfile => s.own = p.own /\ s.apps = p.apps)
    BY WithAPISettingsKeeps
  <1>2. /\ q \in Profile /\ q # NoProfile /\ q.apps[a] = "own" /\ Keeps(s, q, a)
        /\ q.own = s.own /\ q.api = s.api
    BY <1>1, WithAppKeeps
  <1>3. s # NoProfile
    BY AuthenticatorAssumption
  <1>4. \A b \in Apps \ {a} : q.apps[b] = s.apps[b]
    BY <1>2, <1>3 DEF Keeps
  <1>5. p # NoProfile => Keeps(p, q, a)
    BY <1>1, <1>2, <1>4 DEF Keeps
  <1>6. QED
    BY <1>2, <1>5

\* What a sign-in for an application makes of a profile, and whether it uploads it.
Made(p, a) == WithApp(WithAPISettings(p).profile, a)
Changes(p, link) == (Made(p, link.app).changed /\ link.write) \/ WithAPISettings(p).changed

\* handleSignIn has read p: nothing, or the profile in the identity's bucket.
HasRead(r, p) ==
    /\ p # NoProfile => p = profile[req[r].link.id.index]
    /\ Fails \/ UNCHANGED failures
    /\ \/ /\ Changes(p, req[r].link)
          /\ req' = [req EXCEPT ![r].phase = "upload", ![r].data = Made(p, req[r].link.app).profile,
                                ![r].blind = (p = NoProfile)]
       \/ /\ ~Changes(p, req[r].link)
          /\ req' = [req EXCEPT ![r].phase = "answer"]

\* That is all it may have read.
LEMMA WhatIsRead ==
    ASSUME InOrder, NEW r \in Requests, ProfileRead(r)
    PROVE  \E p \in Profiles : HasRead(r, p)
  <1>1. Typed /\ RequestInv(req[r])
    BY DEF InOrder
  <1>2. PICK old \in RequestRecord : old = req[r]
    BY <1>1, Parts
  <1>3. PICK link \in Link : link = old.link
    BY DEF RequestRecord
  <1>4. PICK n \in Names \cup {NoName} : n = link.id.name
    BY DEF Link, Identity
  <1>5. PICK a \in Apps : a = link.app
    BY DEF Link
  <1>6. Right(link.id)
    BY <1>1, <1>2, <1>3 DEF RequestInv, Linked
  <1>7. PICK result \in LookupResults(n) :
            /\ Lookup(n, result)
            /\ req' = IF Changes(result.profile, link)
                      THEN [req EXCEPT ![r].phase = "upload",
                                       ![r].data = Made(result.profile, a).profile,
                                       ![r].blind = (result.profile = NoProfile)]
                      ELSE [req EXCEPT ![r].phase = "answer"]
    BY <1>2, <1>3, <1>4, <1>5 DEF ProfileRead, Changes, Made, Become
  <1>8. PICK p \in Profiles : p = result.profile
    <2>1. result \in LookupResult
      BY <1>1, <1>4, <1>7, LookupRight
    <2>2. QED
      BY <2>1 DEF LookupResult
  <1>9. p # NoProfile => p = profile[link.id.index]
    <2>1. p # NoProfile => n \in Names /\ p = profile[IndexOf(n)]
      BY <1>1, <1>4, <1>7, <1>8, LookupRight
    <2>2. n \in Names => IndexOf(n) = link.id.index
      BY <1>4, <1>6, OneOwner, Bounds DEF Right
    <2>3. QED
      BY <2>1, <2>2
  <1>10. Fails \/ UNCHANGED failures
    BY <1>7 DEF Lookup
  <1>11. CASE Changes(p, link)
    <2>1. req' = [req EXCEPT ![r].phase = "upload", ![r].data = Made(p, a).profile,
                             ![r].blind = (p = NoProfile)]
      BY <1>7, <1>8, <1>11
    <2>2. QED
      BY <1>2, <1>3, <1>5, <1>9, <1>10, <1>11, <2>1 DEF HasRead
  <1>12. CASE ~Changes(p, link)
    <2>1. req' = [req EXCEPT ![r].phase = "answer"]
      BY <1>7, <1>8, <1>12
    <2>2. QED
      BY <1>2, <1>3, <1>5, <1>9, <1>10, <1>12, <2>1 DEF HasRead
  <1>13. QED
    BY <1>11, <1>12

\* handleSignIn has the profile, and uploads what it makes of it or redirects;
\* nothing is uploaded only if the profile lists the application.
LEMMA ProfileReadKeeps ==
    ASSUME InOrder, NEW r \in Requests, ProfileRead(r)
    PROVE  InOrder'
  <1>1. /\ Typed /\ RequestInv(req[r]) /\ At(r, "signin", "read")
        /\ UNCHANGED <<coerce, nonce, profile>>
    BY DEF InOrder, ProfileRead
  <1>2. PICK old \in RequestRecord : old = req[r]
    BY <1>1, Parts
  <1>3. PICK link \in Link : link = old.link
    BY DEF RequestRecord
  <1>4. PICK a \in Apps : a = link.app
    BY DEF Link
  <1>5. PICK p \in Profiles : HasRead(r, p)
    BY WhatIsRead
  <1>6. coerce' \in BOOLEAN /\ nonce' \in 0..MaxRestarts /\ failures' \in 0..MaxFailures
    <2>1. Fails \/ UNCHANGED failures
      BY <1>5 DEF HasRead
    <2>2. QED
      BY <1>1, <2>1, FailsTyped DEF Typed
  <1>7. ~Loading(req[r]) /\ coerce' = coerce
    BY <1>1 DEF At, Loading
  <1>8. PICK data : data = Made(p, a).profile
    OBVIOUS
  <1>9. /\ data \in Profile /\ data # NoProfile /\ data.apps[a] = "own"
        /\ p # NoProfile => Keeps(p, data, a)
    <2>1. data = WithApp(WithAPISettings(p).profile, a).profile
      BY <1>8 DEF Made
    <2>2. QED
      BY <2>1, SignInAdds
  <1>10. CASE req' = [req EXCEPT ![r].phase = "upload", ![r].data = data,
                                 ![r].blind = (p = NoProfile)]
    <2>1. PICK blind \in BOOLEAN : blind = (p = NoProfile)
      OBVIOUS
    <2>2. PICK x \in RequestRecord : x = [old EXCEPT !.phase = "upload", !.data = data,
                                                     !.blind = blind]
      <3>1. "upload" \in Phases /\ data \in Profiles
        BY <1>9 DEF Phases, Profiles
      <3>2. [old EXCEPT !.phase = "upload", !.data = data, !.blind = blind] \in RequestRecord
        BY <3>1 DEF RequestRecord
      <3>3. QED
        BY <3>2
    <2>3. /\ x.phase = "upload" /\ x.data = data /\ x.blind = blind /\ x.link = link
          /\ x.ids = old.ids /\ x.shown = old.shown /\ x.page = old.page
      BY <1>3, <2>2 DEF RequestRecord
    <2>4. req' = [req EXCEPT ![r] = x]
      BY <1>1, <1>2, <1>10, <2>1, <2>2 DEF Typed
    <2>5. Listed(x) /\ Answers(x) /\ Linked(x)
      BY <1>1, <1>2, <1>3, <2>3 DEF RequestInv, Listed, Answers, Linked
    <2>6. Ready(x)
      <3>1. p # NoProfile => Keeps(profile[link.id.index], data, a)
        <4>1. p # NoProfile => p = profile[link.id.index]
          BY <1>2, <1>3, <1>5 DEF HasRead
        <4>2. QED
          BY <1>9, <4>1
      <3>2. QED
        BY <1>4, <1>9, <2>1, <2>3, <3>1 DEF Ready
    <2>7. RequestInv(x) /\ UNCHANGED profile
      BY <1>1, <2>5, <2>6 DEF RequestInv
    <2>8. coerce' => Loading(x) \/ (coerce /\ ~Loading(req[r]))
      BY <1>7
    <2>9. QED
      BY <1>6, <2>4, <2>7, <2>8, Composed
  <1>11. CASE ~Changes(p, link) /\ req' = [req EXCEPT ![r].phase = "answer"]
    <2>1. PICK x \in RequestRecord : x = [old EXCEPT !.phase = "answer"]
      <3>1. "answer" \in Phases
        BY DEF Phases
      <3>2. [old EXCEPT !.phase = "answer"] \in RequestRecord
        BY <3>1 DEF RequestRecord
      <3>3. QED
        BY <3>2
    <2>2. /\ x.phase = "answer" /\ x.link = link
          /\ x.ids = old.ids /\ x.shown = old.shown /\ x.page = old.page
      BY <1>3, <2>1 DEF RequestRecord
    <2>3. req' = [req EXCEPT ![r] = x]
      BY <1>1, <1>2, <1>11, <2>1 DEF Typed
    <2>4. Listed(x) /\ Answers(x) /\ Linked(x)
      BY <1>1, <1>2, <1>3, <2>2 DEF RequestInv, Listed, Answers, Linked
    <2>5. ASSUME link.write
          PROVE  profile[link.id.index] # NoProfile /\ profile[link.id.index].apps[a] = "own"
      <3>1. PICK s \in Profile : /\ s = WithAPISettings(p).profile
                                 /\ p # NoProfile => s.apps = p.apps
                                 /\ p = NoProfile => WithAPISettings(p).changed
        BY WithAPISettingsKeeps
      <3>2. ~WithAPISettings(p).changed /\ ~WithApp(s, a).changed
        BY <1>4, <1>11, <2>5, <3>1 DEF Changes, Made
      <3>3. p # NoProfile /\ p.apps[a] = "own"
        BY <3>1, <3>2, WithAppKeeps
      <3>4. QED
        BY <1>2, <1>3, <1>5, <3>3 DEF HasRead
    <2>6. Ready(x)
      BY <1>4, <2>2, <2>5 DEF Ready
    <2>7. RequestInv(x) /\ UNCHANGED profile
      BY <1>1, <2>4, <2>6 DEF RequestInv
    <2>8. coerce' => Loading(x) \/ (coerce /\ ~Loading(req[r]))
      BY <1>7
    <2>9. QED
      BY <1>6, <2>3, <2>7, <2>8, Composed
  <1>12. QED
    BY <1>2, <1>3, <1>4, <1>5, <1>8, <1>10, <1>11 DEF HasRead

\* gaia_sethub has the profile, and uploads it with the application's entry.
LEMMA SetHubReadKeeps ==
    ASSUME InOrder, NEW r \in Requests, SetHubRead(r)
    PROVE  InOrder'
  <1>1. /\ Typed /\ RequestInv(req[r]) /\ At(r, "sethub", "read")
        /\ UNCHANGED <<coerce, nonce, profile, failures>>
    BY DEF InOrder, SetHubRead
  <1>2. PICK old \in RequestRecord : old = req[r]
    BY <1>1, Parts
  <1>3. PICK link \in Link : link = old.link
    BY DEF RequestRecord
  <1>4. PICK a \in Apps : a = link.app
    BY DEF Link
  <1>5. PICK i \in Indices : i = link.id.index
    BY <1>1, <1>2, <1>3 DEF RequestInv, Linked, Right
  <1>6. PICK p \in Profile : p = profile[i]
    <2>1. profile[i] # NoProfile
      BY <1>2, <1>3, <1>5 DEF SetHubRead, CanSetHub
    <2>2. QED
      BY <1>1, <2>1 DEF Typed, Profiles
  <1>7. PICK data \in Profile : data = WithApp(p, a).profile
    BY WithAppKeeps
  <1>8. data # NoProfile /\ data.apps[a] = "own" /\ Keeps(p, data, a)
    BY <1>7, WithAppKeeps
  <1>9. req' = [req EXCEPT ![r].phase = "upload", ![r].data = data]
    BY <1>2, <1>3, <1>4, <1>5, <1>6, <1>7 DEF SetHubRead
  <1>10. PICK x \in RequestRecord : x = [old EXCEPT !.phase = "upload", !.data = data]
    <2>1. "upload" \in Phases /\ data \in Profiles
      BY DEF Phases, Profiles
    <2>2. [old EXCEPT !.phase = "upload", !.data = data] \in RequestRecord
      BY <2>1 DEF RequestRecord
    <2>3. QED
      BY <2>2
  <1>11. /\ x.phase = "upload" /\ x.data = data /\ x.link = link
         /\ x.ids = old.ids /\ x.shown = old.shown /\ x.page = old.page
    BY <1>3, <1>10 DEF RequestRecord
  <1>12. req' = [req EXCEPT ![r] = x]
    BY <1>1, <1>2, <1>9, <1>10 DEF Typed
  <1>13. Listed(x) /\ Answers(x) /\ Linked(x)
    BY <1>1, <1>2, <1>3, <1>11 DEF RequestInv, Listed, Answers, Linked
  <1>14. Ready(x)
    BY <1>4, <1>5, <1>6, <1>8, <1>11 DEF Ready
  <1>15. RequestInv(x) /\ UNCHANGED profile
    BY <1>1, <1>13, <1>14 DEF RequestInv
  <1>16. coerce' => Loading(x) \/ (coerce /\ ~Loading(req[r]))
    BY <1>1 DEF At, Loading
  <1>17. coerce' \in BOOLEAN /\ nonce' \in 0..MaxRestarts /\ failures' \in 0..MaxFailures
    BY <1>1 DEF Typed
  <1>18. QED
    BY <1>12, <1>15, <1>16, <1>17, Composed

\* A profile is stored: whoever was about to store it too, or to answer for it,
\* is outdated.
LEMMA HubStoresKeeps ==
    ASSUME InOrder, NEW r \in Requests, HubStores(r)
    PROVE  InOrder'
  <1>1. /\ Typed /\ RequestInv(req[r]) /\ req[r].phase = "upload"
        /\ UNCHANGED <<coerce, nonce, failures>>
    BY DEF InOrder, HubStores
  <1>2. PICK old \in RequestRecord : old = req[r]
    BY <1>1, Parts
  <1>3. PICK i \in Indices : i = old.link.id.index
    BY <1>1, <1>2 DEF RequestInv, Linked, Right
  <1>4. PICK data \in Profiles : data = old.data
    BY DEF RequestRecord
  <1>5. profile' = [profile EXCEPT ![i] = data]
    BY <1>2, <1>3, <1>4 DEF HubStores
  <1>6. /\ profile' \in [Indices -> Profiles] /\ profile'[i] = data
        /\ \A j \in Indices \ {i} : profile'[j] = profile[j]
    BY <1>1, <1>5 DEF Typed
  <1>7. req' = [q \in Requests |->
                  IF q = r THEN [req[q] EXCEPT !.phase = "answer"]
                  ELSE [req[q] EXCEPT !.raced = @ \/ (/\ req[q].phase \in {"upload", "answer"}
                                                      /\ req[q].link.id.index = i)]]
    BY <1>2, <1>3 DEF HubStores
  <1>8. /\ req'[r] \in RequestRecord /\ RequestInv(req[r])'
    <2>1. PICK x \in RequestRecord : x = [old EXCEPT !.phase = "answer"]
      <3>1. "answer" \in Phases
        BY DEF Phases
      <3>2. [old EXCEPT !.phase = "answer"] \in RequestRecord
        BY <3>1 DEF RequestRecord
      <3>3. QED
        BY <3>2
    <2>2. /\ x.phase = "answer" /\ x.link = old.link
          /\ x.ids = old.ids /\ x.shown = old.shown /\ x.page = old.page
      BY <2>1 DEF RequestRecord
    <2>3. req'[r] = x
      BY <1>2, <1>7, <2>1
    <2>4. Listed(x) /\ Answers(x) /\ Linked(x)
      BY <1>1, <1>2, <2>2 DEF RequestInv, Listed, Answers, Linked
    <2>5. data # NoProfile /\ data.apps[old.link.app] = "own"
      BY <1>1, <1>2, <1>4 DEF RequestInv, Ready
    <2>6. Ready(x)'
      BY <1>3, <1>6, <2>2, <2>5 DEF Ready
    <2>7. QED
      BY <2>3, <2>4, <2>6 DEF RequestInv, Listed, Answers, Linked, Ready
  <1>9. ASSUME NEW q \in Requests \ {r}
        PROVE  /\ req'[q] \in RequestRecord /\ RequestInv(req[q])'
               /\ req'[q].kind = req[q].kind /\ req'[q].phase = req[q].phase
    <2>1. PICK was \in RequestRecord : was = req[q] /\ RequestInv(was)
      BY <1>1, Parts DEF InOrder
    <2>2. PICK raced \in BOOLEAN :
              raced = (was.raced \/ (/\ was.phase \in {"upload", "answer"}
                                     /\ was.link.id.index = i))
      BY DEF RequestRecord
    <2>3. PICK y \in RequestRecord : y = [was EXCEPT !.raced = raced]
      <3>1. [was EXCEPT !.raced = raced] \in RequestRecord
        BY DEF RequestRecord
      <3>2. QED
        BY <3>1
    <2>4. /\ y.kind = was.kind /\ y.phase = was.phase /\ y.link = was.link /\ y.index = was.index
          /\ y.ids = was.ids /\ y.looked = was.looked /\ y.shown = was.shown
          /\ y.page = was.page /\ y.data = was.data /\ y.blind = was.blind /\ y.raced = raced
      BY <2>3 DEF RequestRecord
    <2>5. req'[q] = y
      <3>1. req'[q] = [was EXCEPT !.raced =
                            was.raced \/ (/\ was.phase \in {"upload", "answer"}
                                          /\ was.link.id.index = i)]
        BY <1>7, <2>1 DEF RequestRecord
      <3>2. QED
        BY <2>2, <2>3, <3>1
    <2>6. Listed(y) /\ Answers(y) /\ Linked(y)
      BY <2>1, <2>4 DEF RequestInv, Listed, Answers, Linked
    <2>7. Ready(y)'
      <3>1. y.link = was.link /\ was.link.id.index \in Indices
        BY <2>1, <2>4 DEF RequestInv, Linked, Right
      <3>2. CASE was.link.id.index = i
        <4>1. y.phase \in {"upload", "answer"} => y.raced
          BY <2>2, <2>4, <3>2
        <4>2. y.phase = "upload" => y.data # NoProfile /\ y.data.apps[y.link.app] = "own"
          BY <2>1, <2>4 DEF RequestInv, Ready
        <4>3. QED
          BY <4>1, <4>2 DEF Ready
      <3>3. CASE was.link.id.index # i
        <4>1. profile'[was.link.id.index] = profile[was.link.id.index]
          BY <1>6, <3>1, <3>3
        <4>2. was.raced <=> y.raced
          BY <2>2, <2>4, <3>3
        <4>3. Ready(was)
          BY <2>1 DEF RequestInv
        <4>4. QED
          BY <2>4, <4>1, <4>2, <4>3 DEF Ready, Keeps
      <3>4. QED
        BY <3>2, <3>3
    <2>8. RequestInv(req[q])'
      BY <2>5, <2>6, <2>7 DEF RequestInv, Listed, Answers, Linked, Ready
    <2>9. QED
      BY <2>1, <2>4, <2>5, <2>8
  <1>10. req' \in [Requests -> RequestRecord]
    <2>1. \A q \in Requests : req'[q] \in RequestRecord
      BY <1>8, <1>9
    <2>2. req' = [q \in Requests |-> req'[q]]
      BY <1>7
    <2>3. QED
      BY <2>1, <2>2
  <1>11. Typed'
    BY <1>1, <1>6, <1>10 DEF Typed
  <1>12. CoercionRestored'
    <2>1. SUFFICES ASSUME coerce'
                   PROVE  \E q \in Requests : Loading(req'[q])
      BY DEF CoercionRestored, At, Loading
    <2>2. PICK q \in Requests : Loading(req[q])
      BY <1>1, <2>1 DEF InOrder, CoercionRestored, At, Loading
    <2>3. q # r
      BY <1>1, <2>2 DEF Loading
    <2>4. QED
      BY <1>9, <2>2, <2>3 DEF Loading
  <1>13. QED
    BY <1>8, <1>9, <1>11, <1>12 DEF InOrder

\* Requests end with the process that serves them, and nothing else changes.
LEMMA RestartKeeps ==
    ASSUME InOrder, Restart
    PROVE  InOrder'
  <1>1. Typed /\ coerce' = FALSE /\ UNCHANGED <<profile, failures>>
        /\ nonce' = nonce + 1 /\ nonce < MaxRestarts
    BY DEF InOrder, Restart
  <1>2. ASSUME NEW q \in Requests
        PROVE  req'[q] \in RequestRecord /\ RequestInv(req[q])'
    <2>1. PICK was \in RequestRecord : was = req[q] /\ RequestInv(was)
      BY <1>1, Parts DEF InOrder
    <2>2. PICK y \in RequestRecord : y = req'[q] /\ RequestInv(y)
      <3>1. CASE was.kind \in {"auth", "signin"} /\ was.phase # "answered"
        <4>1. PICK kind \in Kinds : kind = was.kind
          BY DEF RequestRecord
        <4>2. PICK phase \in {"answered", "dead"} : phase = "dead"
          OBVIOUS
        <4>3. PICK n \in RequestRecord : n = NewRequest
          BY NewRequestTyped
        <4>4. n.status = 0 /\ n.page = {}
          BY <4>3 DEF NewRequest
        <4>5. PICK status \in Statuses, page \in Pages : status = 0 /\ page = {}
          BY ZenonT(40) DEF Statuses, Pages
        <4>6. PICK y : y = Over(kind, phase, status, page)
          OBVIOUS
        <4>7. [n EXCEPT !.kind = kind, !.phase = phase]
                = [n EXCEPT !.kind = kind, !.phase = phase, !.status = status, !.page = page]
          BY <4>4, <4>5 DEF RequestRecord
        <4>8. req'[q] = [n EXCEPT !.kind = kind, !.phase = phase]
          BY <2>1, <3>1, <4>1, <4>2, <4>3 DEF Restart
        <4>9. req'[q] = y
          BY <4>3, <4>6, <4>7, <4>8 DEF Over
        <4>10. kind \in Kinds /\ phase \in {"answered", "dead"} /\ status \in Statuses
               /\ page \in Pages
          OBVIOUS
        <4>11. \A link \in page : Right(link.id)
          BY <4>5
        <4>12. y \in RequestRecord /\ RequestInv(y)
          BY ONLY <4>6, <4>10, <4>11, AnsweredTyped
        <4>13. QED
          BY <4>9, <4>12
      <3>2. CASE ~(was.kind \in {"auth", "signin"} /\ was.phase # "answered")
        BY <2>1, <3>2 DEF Restart
      <3>3. QED
        BY <3>1, <3>2
    <2>3. Ready(y)'
      BY <1>1, <2>2 DEF RequestInv, Ready
    <2>4. QED
      BY <2>2, <2>3 DEF RequestInv, Listed, Answers, Linked, Ready
  <1>3. req' \in [Requests -> RequestRecord]
    <2>1. req' = [q \in Requests |-> req'[q]]
      BY DEF Restart
    <2>2. QED
      BY <1>2, <2>1
  <1>4. Typed'
    <2>1. nonce' \in 0..MaxRestarts
      BY <1>1, Bounds DEF Typed
    <2>2. QED
      BY <1>1, <1>3, <2>1 DEF Typed
  <1>5. CoercionRestored'
    BY <1>1 DEF CoercionRestored
  <1>6. QED
    BY <1>2, <1>4, <1>5 DEF InOrder

----------------------------------------------------------------------------
(* The invariant. *)

\* Nothing is asked for yet.
LEMMA InitInOrder ==
    ASSUME Init
    PROVE  InOrder
  <1>1. PICK n \in RequestRecord : n = NewRequest /\ Right(n.link.id)
    BY NewRequestTyped
  <1>2. n.phase = "idle" /\ n.ids = <<>> /\ n.shown = {} /\ n.page = {}
    BY <1>1 DEF NewRequest
  <1>3. req \in [Requests -> RequestRecord] /\ \A r \in Requests : req[r] = n
    BY <1>1 DEF Init
  <1>4. Typed
    <2>1. coerce \in BOOLEAN /\ nonce \in 0..MaxRestarts /\ failures \in 0..MaxFailures
      <3>1. 0 \in 0..MaxRestarts /\ 0 \in 0..MaxFailures
        BY Bounds
      <3>2. QED
        BY <3>1 DEF Init
    <2>2. profile \in [Indices -> Profiles]
      BY AuthenticatorAssumption DEF Init, Profiles
    <2>3. QED
      BY <1>3, <2>1, <2>2 DEF Typed
  <1>5. CoercionRestored
    BY DEF Init, CoercionRestored
  <1>6. Listed(n) /\ Answers(n) /\ Linked(n) /\ Ready(n)
    <2>1. DOMAIN n.ids = {}
      BY <1>2
    <2>2. QED
      BY <1>1, <1>2, <2>1 DEF Listed, Answers, Linked, Ready
  <1>7. QED
    BY <1>3, <1>4, <1>5, <1>6 DEF InOrder, RequestInv

\* Every step keeps what each request has in hand in order.
LEMMA NextInOrder ==
    ASSUME InOrder, [Next]_vars
    PROVE  InOrder'
  <1>1. ASSUME NEW r \in Requests, Begin(r)
        PROVE  InOrder'
    BY <1>1, AuthWithoutRequestKeeps, AuthKeeps, SignInKeeps, SetHubKeeps DEF Begin
  <1>2. ASSUME NEW r \in Requests, Continue(r)
        PROVE  InOrder'
    <2>1. CASE NamesOwned(r) \/ NamesFail(r)
      BY <2>1, NamesOwnedKeeps, NamesFailKeeps
    <2>2. CASE \E k \in DOMAIN req[r].looked : NameLooked(r, k)
      BY <2>2, NameLookedKeeps
    <2>3. CASE IdentitiesLoaded(r) \/ AuthPage(r) \/ Connected(r)
      BY <2>3, IdentitiesLoadedKeeps, AuthPageKeeps, ConnectedKeeps
    <2>4. CASE \/ AuthRefused(r) \/ SignInRefused(r) \/ SetHubFails(r) \/ UploadFails(r)
               \/ Uploaded(r) \/ UploadAnswerLost(r)
      BY <2>4, AnsweredKeeps
    <2>5. CASE ProfileRead(r) \/ SetHubRead(r)
      BY <2>5, ProfileReadKeeps, SetHubReadKeeps
    <2>6. CASE HubStores(r)
      BY <2>6, HubStoresKeeps
    <2>7. QED
      BY <1>2, <2>1, <2>2, <2>3, <2>4, <2>5, <2>6 DEF Continue
  <1>3. CASE Restart
    BY <1>3, RestartKeeps
  <1>4. CASE UNCHANGED vars
    BY <1>4 DEF InOrder, vars, Typed, CoercionRestored, At, RequestInv, Listed, Answers, Linked,
                Ready, Keeps
  <1>5. QED
    BY <1>1, <1>2, <1>3, <1>4 DEF Next

\* In every behaviour, whatever is under way is in order.
THEOREM AlwaysInOrder == Spec => []InOrder
  <1>1. Init => InOrder
    BY InitInOrder
  <1>2. InOrder /\ [Next]_vars => InOrder'
    BY NextInOrder
  <1>3. QED
    BY <1>1, <1>2, PTL DEF Spec

\* Requests and profiles keep their types.
THEOREM TypeCorrectness == Spec => []TypeOK
  <1>1. ASSUME InOrder
        PROVE  TypeOK
    <2>1. Typed /\ DOMAIN req = Requests
      BY <1>1 DEF InOrder, Typed
    <2>2. ASSUME NEW r \in Requests
          PROVE  /\ DOMAIN req[r] = DOMAIN NewRequest
                 /\ req[r].kind \in {"none", "auth", "signin", "sethub"}
                 /\ req[r].phase \in {"idle", "names", "lookups", "page", "connect", "read",
                                      "upload", "answer", "answered", "dead"}
                 /\ req[r].link \in Link /\ req[r].page \subseteq Link
                 /\ {req[r].blind, req[r].raced} \subseteq BOOLEAN
                 /\ req[r].index \in Nat /\ req[r].status \in {0, 200, 302, 400, 502}
                 /\ ToSet(req[r].ids) \cup req[r].shown \subseteq Identity
                 /\ ToSet(req[r].looked) \subseteq
                     [st: {"pending", "rejected", "done"}, url: Int, profile: Profile \cup {NoProfile}]
                 /\ req[r].data \in Profile \cup {NoProfile}
      <3>1. PICK old \in RequestRecord : old = req[r]
        BY <2>1, Parts
      <3>2. DOMAIN old = DOMAIN NewRequest
        BY DEF RequestRecord, NewRequest
      <3>3. /\ old.kind \in Kinds /\ old.phase \in Phases /\ old.link \in Link /\ old.page \in Pages
            /\ old.blind \in BOOLEAN /\ old.raced \in BOOLEAN /\ old.index \in Nat
            /\ old.status \in Statuses /\ old.shown \in IdSet /\ old.data \in Profiles
        BY DEF RequestRecord
      <3>4. old.ids \in Seq(Identity) /\ old.looked \in Seq(LookupResult)
        BY DEF RequestRecord, IdSeq, LookedSeq
      <3>5. ToSet(old.ids) \subseteq Identity /\ ToSet(old.looked) \subseteq LookupResult
        BY <3>4 DEF ToSet
      <3>6. {old.blind, old.raced} \subseteq BOOLEAN
        BY <3>3
      <3>7. QED
        BY <3>1, <3>2, <3>3, <3>5, <3>6 DEF Kinds, Phases, Statuses, Pages, IdSet, Profiles,
           LookupResult
    <2>3. QED
      BY <2>1, <2>2 DEF Typed, TypeOK, Profiles
  <1>2. QED
    BY <1>1, AlwaysInOrder, PTL

\* The adapter that all requests share coerces addresses only while some
\* request is loading identities (auth.ts, the promise chain and its catch).
THEOREM CoercionAlwaysRestored == Spec => []CoercionRestored
  <1>1. InOrder => CoercionRestored
    BY DEF InOrder
  <1>2. QED
    BY <1>1, AlwaysInOrder, PTL

----------------------------------------------------------------------------
(* What a step never does. *)

\* Only an upload changes a profile, and it stores what the request has ready.
LEMMA ProfileChange ==
    ASSUME InOrder, [Next]_vars, NEW i \in Indices, profile'[i] # profile[i]
    PROVE  \E r \in Requests :
              HubStores(r) /\ req[r].link.id.index = i /\ profile'[i] = req[r].data
  <1>1. profile' # profile
    OBVIOUS
  <1>2. ~Restart /\ ~UNCHANGED vars
    BY <1>1 DEF Restart, vars
  <1>3. PICK r \in Requests : Begin(r) \/ Continue(r)
    BY <1>2 DEF Next
  <1>4. ~Begin(r)
    BY <1>1 DEF Begin, AuthWithoutRequest, Auth, SignIn, SetHub
  <1>6. HubStores(r)
    BY <1>1, <1>3, <1>4 DEF Continue, NamesOwned, NamesFail, NameLooked, IdentitiesLoaded, AuthPage,
       AuthRefused, Connected, SignInRefused, ProfileRead, SetHubRead, SetHubFails, Uploaded,
       UploadAnswerLost, UploadFails
  <1>7. PICK p \in [Indices -> Profiles] : p = profile
    BY DEF InOrder, Typed
  <1>8. profile' = [p EXCEPT ![req[r].link.id.index] = req[r].data]
    BY <1>6, <1>7 DEF HubStores
  <1>9. req[r].link.id.index = i
    BY <1>7, <1>8
  <1>10. profile'[i] = req[r].data
    BY <1>7, <1>8, <1>9
  <1>11. QED
    BY <1>6, <1>9, <1>10

\* A profile loses what is in it only to an upload that had not read it, or
\* whose reading another upload outdated (handleSignIn, gaiaSetHub).
THEOREM AppsAlwaysSurvive == Spec => AppsSurvive
  <1>1. ASSUME InOrder, [Next]_vars, NEW i \in Indices, profile'[i] # profile[i]
        PROVE  \E r \in Requests :
                  /\ Uploads(r, i)
                  /\ req[r].blind \/ req[r].raced
                     \/ Keeps(profile[i], profile'[i], req[r].link.app)
    <2>1. PICK r \in Requests :
              HubStores(r) /\ req[r].link.id.index = i /\ profile'[i] = req[r].data
      BY <1>1, ProfileChange
    <2>2. req[r].phase = "upload" /\ req'[r] = [req[r] EXCEPT !.phase = "answer"]
      BY <2>1 DEF HubStores
    <2>3. PICK old \in RequestRecord : old = req[r]
      BY <1>1, Parts DEF InOrder
    <2>4. req'[r].phase = "answer"
      BY <2>2, <2>3 DEF RequestRecord
    <2>5. Uploads(r, i)
      BY <2>1, <2>2, <2>4 DEF Uploads
    <2>6. \/ req[r].blind \/ req[r].raced
          \/ Keeps(profile[i], req[r].data, req[r].link.app)
      BY <1>1, <2>1, <2>2 DEF InOrder, RequestInv, Ready
    <2>7. Keeps(profile[i], req[r].data, req[r].link.app)
            => Keeps(profile[i], profile'[i], req[r].link.app)
      BY <2>1
    <2>8. QED
      BY <2>5, <2>6, <2>7
  <1>2. InOrder /\ [Next]_vars =>
          [\A i \in Indices : profile'[i] # profile[i] =>
            \E r \in Requests :
                /\ Uploads(r, i)
                /\ req[r].blind \/ req[r].raced
                   \/ Keeps(profile[i], profile'[i], req[r].link.app)]_vars
    BY <1>1
  <1>3. QED
    BY <1>2, AlwaysInOrder, PTL DEF Spec, AppsSurvive

\* What an answer has is its status, and that it is one.
LEMMA OverFields ==
    ASSUME NEW r \in Requests, NEW status, NEW page
    PROVE  Answered(r, status, page).phase = "answered" /\ Answered(r, status, page).status = status
  BY DEF Answered, NewRequest

\* A step of one request leaves the others where they are.
LEMMA OthersKept ==
    ASSUME InOrder, NEW q \in Requests, NEW r \in Requests, q # r, Begin(q) \/ Continue(q)
    PROVE  req'[r].status = req[r].status /\ req'[r].phase = req[r].phase
  <1>1. PICK f \in [Requests -> RequestRecord] : f = req
    BY DEF InOrder, Typed
  <1>2. CASE Begin(q)
    BY <1>1, <1>2 DEF Begin, AuthWithoutRequest, Auth, SignIn, SetHub
  <1>3. CASE NamesOwned(q) \/ NamesFail(q) \/ \E k \in DOMAIN req[q].looked : NameLooked(q, k)
    BY <1>1, <1>3 DEF NamesOwned, NamesFail, NameLooked, Answer
  <1>4. CASE IdentitiesLoaded(q) \/ AuthPage(q) \/ AuthRefused(q) \/ Connected(q)
    BY <1>1, <1>4 DEF IdentitiesLoaded, AuthPage, AuthRefused, Connected, Answer, Become
  <1>5. CASE \/ SignInRefused(q) \/ ProfileRead(q) \/ SetHubRead(q) \/ SetHubFails(q)
             \/ UploadFails(q) \/ Uploaded(q) \/ UploadAnswerLost(q)
    BY <1>1, <1>5 DEF SignInRefused, ProfileRead, SetHubRead, SetHubFails, UploadFails, Uploaded,
       UploadAnswerLost, Answer, Become
  <1>6. CASE HubStores(q)
    <2>2. PICK raced : req'[r] = [f[r] EXCEPT !.raced = raced]
      BY <1>1, <1>6 DEF HubStores
    <2>3. f[r] \in RequestRecord
      OBVIOUS
    <2>4. QED
      BY <1>1, <2>2, <2>3 DEF RequestRecord
  <1>7. QED
    BY <1>2, <1>3, <1>4, <1>5, <1>6 DEF Continue

\* Nor does a restart redirect a request, or load identities.
LEMMA RestartEnds ==
    ASSUME InOrder, Restart, NEW r \in Requests
    PROVE  \/ req'[r].phase = "dead" /\ req'[r].status = 0
           \/ req'[r] = req[r]
  <1>1. PICK kind : kind = req[r].kind
    OBVIOUS
  <1>2. PICK x : x = [NewRequest EXCEPT !.kind = kind, !.phase = "dead"]
    OBVIOUS
  <1>3. x.phase = "dead" /\ x.status = 0
    BY <1>2 DEF NewRequest
  <1>4. req'[r] = x \/ req'[r] = req[r]
    BY <1>1, <1>2 DEF Restart
  <1>5. QED
    BY <1>3, <1>4

\* A request is redirected when its profile is as it should be.
LEMMA RedirectedBy ==
    ASSUME InOrder, [Next]_vars, NEW r \in Requests,
           req'[r].status = 302, req[r].status # 302
    PROVE  Uploaded(r)
  <1>1. PICK f \in [Requests -> RequestRecord] : f = req
    BY DEF InOrder, Typed
  <1>2. ~Restart /\ ~UNCHANGED vars
    BY RestartEnds DEF vars
  <1>3. PICK q \in Requests : Begin(q) \/ Continue(q)
    BY <1>2 DEF Next
  <1>4. q = r
    BY <1>3, OthersKept
  <1>5. f[r] \in RequestRecord
    OBVIOUS
  <1>6. ~Begin(r)
    <2>1. CASE AuthWithoutRequest(r)
      BY <1>1, <1>5, <2>1 DEF AuthWithoutRequest, RequestRecord
    <2>2. CASE Auth(r)
      BY <1>1, <1>5, <2>2 DEF Auth, RequestRecord
    <2>3. CASE SignIn(r)
      BY <1>1, <1>5, <2>3 DEF SignIn, RequestRecord
    <2>4. CASE SetHub(r)
      BY <1>1, <1>5, <2>4 DEF SetHub, RequestRecord
    <2>5. QED
      BY <2>1, <2>2, <2>3, <2>4 DEF Begin
  <1>7. ASSUME NEW status, NEW page, status # 302,
               req' = [req EXCEPT ![r] = Answered(r, status, page)]
        PROVE  FALSE
    BY <1>1, <1>7, OverFields
  <1>8. ~(\/ NamesFail(r) \/ AuthRefused(r) \/ SignInRefused(r) \/ SetHubFails(r)
          \/ UploadFails(r) \/ UploadAnswerLost(r))
    BY <1>7 DEF NamesFail, AuthRefused, SignInRefused, SetHubFails, UploadFails,
       UploadAnswerLost, Answer
  <1>9. ~AuthPage(r)
    BY <1>7 DEF AuthPage
  <1>10. ~NamesOwned(r)
    BY <1>1, <1>5 DEF NamesOwned, RequestRecord
  <1>11. ~\E k \in DOMAIN req[r].looked : NameLooked(r, k)
    BY <1>1, <1>5 DEF NameLooked, RequestRecord
  <1>12. ~IdentitiesLoaded(r) /\ ~Connected(r)
    BY <1>1, <1>5 DEF IdentitiesLoaded, Connected, Become, RequestRecord
  <1>13. ~SetHubRead(r)
    BY <1>1, <1>5 DEF SetHubRead, RequestRecord
  <1>14. ~HubStores(r)
    BY <1>1, <1>5 DEF HubStores, RequestRecord
  <1>15. ~ProfileRead(r)
    <2>1. SUFFICES ASSUME ProfileRead(r)
                   PROVE  FALSE
      OBVIOUS
    <2>2. ~Become(r, "answer")
      BY <1>1, <1>5 DEF Become, RequestRecord
    <2>3. PICK p \in Profiles : HasRead(r, p)
      BY <2>1, WhatIsRead
    <2>4. CASE Changes(p, req[r].link)
      <3>1. PICK data, blind : data = Made(p, req[r].link.app).profile
                               /\ blind = (p = NoProfile)
        OBVIOUS
      <3>2. req' = [req EXCEPT ![r].phase = "upload", ![r].data = data,
                               ![r].blind = blind]
        BY <2>3, <2>4, <3>1 DEF HasRead
      <3>3. QED
        BY <1>1, <1>5, <3>2 DEF RequestRecord
    <2>5. CASE ~Changes(p, req[r].link)
      BY <2>2, <2>3, <2>5 DEF HasRead, Become
    <2>6. QED
      BY <2>4, <2>5
  <1>16. QED
    BY <1>3, <1>4, <1>6, <1>8, <1>9, <1>10, <1>11, <1>12, <1>13, <1>14, <1>15 DEF Continue

\* Redirected after a request for store_write, the application finds its own
\* entry in the profile, unless another upload of it came between its reading
\* and its answer (handleSignIn).
THEOREM RedirectAlwaysListed == Spec => RedirectListed
  <1>1. ASSUME InOrder, [Next]_vars, NEW r \in Requests,
               req'[r].status = 302, req[r].status # 302, req[r].link.write, ~req[r].raced
        PROVE  /\ profile'[req[r].link.id.index] # NoProfile
               /\ profile'[req[r].link.id.index].apps[req[r].link.app] = "own"
    <2>1. req[r].phase = "answer" /\ UNCHANGED profile
      BY <1>1, RedirectedBy DEF Uploaded
    <2>2. Ready(req[r])
      BY <1>1 DEF InOrder, RequestInv
    <2>3. QED
      BY <1>1, <2>1, <2>2 DEF Ready
  <1>2. InOrder /\ [Next]_vars =>
          [\A r \in Requests :
            LET link == req[r].link IN
            req'[r].status = 302 /\ req[r].status # 302 /\ link.write /\ ~req[r].raced =>
                /\ profile'[link.id.index] # NoProfile
                /\ profile'[link.id.index].apps[link.app] = "own"]_vars
    BY <1>1
  <1>3. QED
    BY <1>2, AlwaysInOrder, PTL DEF Spec, RedirectListed

\* A name is shown with the URL of its own profile as long as its lookup and
\* those before it went well (getIdentityInfo).
THEOREM OwnUrlsAlways == Spec => OwnUrlsUpToRejected
  <1>1. ASSUME InOrder, [Next]_vars, NEW r \in Requests, Loaded(r)
        PROVE  IdentitiesLoaded(r)
    <2>1. PICK f \in [Requests -> RequestRecord] : f = req
      BY <1>1 DEF InOrder, Typed
    <2>2. f[r] \in RequestRecord /\ f[r].phase = "lookups" /\ req'[r].phase = "page"
      BY <1>1, <2>1 DEF Loaded, At
    <2>3. ~Restart /\ ~UNCHANGED vars
      BY <1>1, <2>1, <2>2, RestartEnds DEF vars
    <2>4. PICK q \in Requests : Begin(q) \/ Continue(q)
      BY <1>1, <2>3 DEF Next
    <2>5. q = r
      BY <1>1, <2>1, <2>2, <2>4, OthersKept
    <2>6. ~NamesFail(r) /\ ~Begin(r)
      BY <2>1, <2>2 DEF NamesFail, Begin, AuthWithoutRequest, Auth, SignIn, SetHub, Offer, At
    <2>7. ~\E k \in DOMAIN req[r].looked : NameLooked(r, k)
      BY <2>1, <2>2 DEF NameLooked, RequestRecord
    <2>8. QED
      BY <2>1, <2>2, <2>4, <2>5, <2>6, <2>7 DEF Continue, NamesOwned, AuthPage, AuthRefused,
         Connected, SignInRefused, ProfileRead, SetHubRead, SetHubFails, HubStores, Uploaded,
         UploadAnswerLost, UploadFails, At
  <1>2. ASSUME InOrder, NEW r \in Requests, IdentitiesLoaded(r),
               NEW k \in DOMAIN req[r].ids, \A j \in 1..k : req[r].looked[j].st = "done",
               NEW id \in req'[r].shown, id.name = req[r].ids[k].name
        PROVE  id.url = Url(id.name) /\ id.url # NoUrl
    <2>1. PICK old \in RequestRecord : old = req[r] /\ RequestInv(old)
      BY <1>2, Parts DEF InOrder
    <2>2. PICK ids \in Seq(Identity), looked \in Seq(LookupResult) :
              ids = old.ids /\ looked = old.looked
      BY DEF RequestRecord, IdSeq, LookedSeq
    <2>3. PICK filled : filled = FilledIn(ids, looked)
      OBVIOUS
    <2>4. /\ DOMAIN looked = DOMAIN ids
          /\ \A j \in DOMAIN ids : looked[j].st = "done" => looked[j].url = Url(ids[j].name)
          /\ \A j \in DOMAIN ids : ids[j].name \in Names
          /\ \A i, j \in DOMAIN ids : ids[i].name = ids[j].name => i = j
      BY <1>2, <2>1, <2>2 DEF RequestInv, Listed, Answers, IdentitiesLoaded, At
    <2>5. req'[r].shown = {i \in ToSet(filled) : i.url # NoUrl} \cup {Anonymous(filled)}
      <3>1. PICK shown : shown = {i \in ToSet(filled) : i.url # NoUrl} \cup {Anonymous(filled)}
        OBVIOUS
      <3>2. req' = [req EXCEPT ![r].phase = "page", ![r].shown = shown]
        BY <1>2, <2>1, <2>2, <2>3, <3>1 DEF IdentitiesLoaded
      <3>3. req'[r] = [old EXCEPT !.phase = "page", !.shown = shown]
        BY <1>2, <2>1, <3>2 DEF InOrder, Typed
      <3>4. QED
        BY <3>1, <3>3 DEF RequestRecord
    <2>6. id # Anonymous(filled)
      <3>1. id.name # NoName
        BY <1>2, <2>1, <2>2, <2>4, Bounds
      <3>2. Anonymous(filled).name = NoName
        BY DEF Anonymous
      <3>3. QED
        BY <3>1, <3>2
    <2>7. id \in ToSet(filled) /\ id.url # NoUrl
      BY <1>2, <2>5, <2>6
    <2>8. /\ DOMAIN filled = DOMAIN ids
          /\ \A j \in DOMAIN ids :
              /\ filled[j].name = ids[j].name
              /\ (\A i \in 1..j : looked[i].st = "done") => filled[j].url = looked[j].url
      BY <2>3, <2>4, FilledInRight
    <2>9. PICK j \in DOMAIN ids : id = filled[j]
      BY <2>7, <2>8 DEF ToSet
    <2>10. j = k /\ k \in DOMAIN ids
      BY <1>2, <2>1, <2>2, <2>4, <2>8, <2>9
    <2>11. PICK n \in Nat : DOMAIN ids = 1..n
      OBVIOUS
    <2>12. k \in 1..k
      BY <2>10, <2>11
    <2>13. id.url = looked[k].url /\ looked[k].st = "done"
      BY <1>2, <2>1, <2>2, <2>8, <2>9, <2>10, <2>12
    <2>14. QED
      BY <1>2, <2>1, <2>2, <2>4, <2>7, <2>10, <2>13
  <1>3. InOrder /\ [Next]_vars =>
          [\A r \in Requests : Loaded(r) =>
            \A k \in DOMAIN req[r].ids :
                (\A j \in 1..k : req[r].looked[j].st = "done") =>
                    \A id \in req'[r].shown :
                        id.name = req[r].ids[k].name =>
                            id.url = Url(id.name) /\ id.url # NoUrl]_vars
    BY <1>1, <1>2
  <1>4. QED
    BY <1>3, AlwaysInOrder, PTL DEF Spec, OwnUrlsUpToRejected
=============================================================================
