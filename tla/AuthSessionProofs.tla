------------------------- MODULE AuthSessionProofs -------------------------
(***************************************************************************)
(* The session of an application keeps its users and their transit keys    *)
(* apart, but for the calls that write back what they had read before and  *)
(* the files of others that are read: for both stores, every number of     *)
(* calls, users, requests and sign-outs, and every way to answer a request.*)
(***************************************************************************)
EXTENDS AuthSession, TLAPS

----------------------------------------------------------------------------
(* The invariant.  A call works with what it has read: a session, the live  *)
(* object or a copy of it; the user data a connection is made with; a hub.  *)
(* The invariant says what these still have in common with the session in   *)
(* the store, as far as the history of the call allows to tell.             *)

\* A call that has a session in hand, and one that has a hub.
Holds(c) ==
    call[c].is \in {"signin", "file"} /\ call[c].phase \in {"running", "reconnect", "again"}
Uses(c) ==
    call[c].is \in {"file", "read"} /\ call[c].phase \in {"chosen", "running", "again"}

OwnConfig(s) == s.user.config \in {Nobody, s.user.who}
OwnEtag(s) == s.etag \in {Nobody, s.user.who}

\* A LocalStorageStore has one text; every sign-out makes a live store a new
\* object, which nobody holds before.
Placed ==
    /\ kind = "copy" => current = 0
    /\ kind = "live" => current <= signOuts /\ \A c \in Calls : call[c].object <= signOuts

\* Every user there is: in an object, or in the memory of a call.
Known ==
    {data[o].user : o \in Objects}
        \cup {call[c].session.user : c \in Calls} \cup {call[c].from : c \in Calls}

\* A user is made by a sign-in that is over, and by one only.
People ==
    /\ \A u \in Known : u.by = Nobody \/ u.who = Nobody => u = SignedOut
    /\ \A u \in Known : u.by # Nobody => call[u.by].phase = "done"
    /\ \A u, v \in Known : u.by = v.by => u.who = v.who

\* What a call that runs may be, and stand at; a connection begins with a user,
\* and a file is of somebody.
Began(c) ==
    Runs(c) =>
        /\ call[c].is \in Kinds /\ call[c].outcome = "none"
        /\ call[c].is = "signin" =>
            /\ call[c].phase = "running" /\ call[c].response \in Response
            /\ call[c].response.form = "sealed" => call[c].response.for \in 1..requests
        /\ call[c].phase = "chosen" => call[c].is = "file"
        /\ Connects(c) => call[c].is # "visit" /\ call[c].from.by # Nobody
        /\ call[c].is \in {"file", "read", "visit"} /\ ~Connects(c) => call[c].hub # Nobody

\* Unless the user has changed since, a session in hand is of the same sign-in
\* as the one in the store, and a sign-in finds nobody signed in.
SameUser(c) ==
    Holds(c) /\ seen[c] \cap {"user", "signout"} = {} =>
        Held(c).user.by = User.by /\ (call[c].is = "signin" => User.by = Nobody)

\* Unless the user has changed since the call began, what it works with is of
\* the user in the store.
OfUser(c) ==
    Runs(c) /\ ~Moved(c) =>
        /\ Holds(c) => /\ spanned \/ OwnConfig(Held(c))
                       /\ spanned \/ visited \/ OwnEtag(Held(c))
        /\ Connects(c) => call[c].from.by = User.by
        /\ Uses(c) => spanned \/ call[c].hub = User.who

\* A copy of a session that nothing has happened to has the same key and etag.
SameCopy(c) ==
    Holds(c) /\ kind = "copy" /\ seen[c] \subseteq {"moved"} =>
        /\ call[c].session.transitKey = data[current].transitKey
        /\ call[c].session.etag = data[current].etag

\* What may have become of the transit key of a request.
Lost == {"unstored", "request", "signout", "stale"}

\* The transit key of a request is in the store unless the history says what
\* has replaced it, and comes back after a sign-out only by a stale write.
KeysStored ==
    /\ \A q \in 1..requests : data[current].transitKey = q \/ since[q] \cap Lost # {}
    /\ \A q \in Requests : q > requests => since[q] = {}
    /\ \A q \in Requests :
        data[current].transitKey = q /\ "signout" \in since[q] => "stale" \in since[q]
    /\ \A q \in Requests : kind = "live" /\ "stale" \in since[q] => signOuts > 0

\* So it is with the transit key a call has read.
KeysRead(c) ==
    Holds(c) =>
        /\ call[c].is = "signin" /\ call[c].response.form = "sealed" =>
            \/ call[c].session.transitKey = call[c].response.for
            \/ since[call[c].response.for] \cap Lost # {}
        /\ \A q \in Requests :
            call[c].session.transitKey = q /\ "signout" \in since[q] =>
                "signout" \in seen[c] \/ "stale" \in since[q]

\* A response was refused for its key only if the history says what became of it.
Refused(c) ==
    (call[c].outcome \in {"transit", "nokey"} /\ call[c].response.form = "sealed") =>
        call[c].response.for \in 1..requests /\ since[call[c].response.for] \cap Lost # {}

CallInv(c) ==
    Began(c) /\ SameUser(c) /\ OfUser(c) /\ SameCopy(c) /\ KeysRead(c) /\ Refused(c)

Apart ==
    /\ TypeOK /\ Placed /\ People /\ SessionOfOneUser /\ KeysStored
    /\ \A c \in Calls : CallInv(c)

----------------------------------------------------------------------------
(* Types. *)

\* What a step adds to the history of every call and request.
News(events) == events \cup (IF User'.by # User.by THEN {"user"} ELSE {})

\* The user has neither changed nor signed out in a step.
Quiet(news) == news \cap {"user", "signout"} = {}

\* The parts of a session.
LEMMA SessionParts ==
    ASSUME NEW s \in SessionData
    PROVE  /\ s.user \in UserData /\ s.user.by \in {Nobody} \cup Calls
           /\ s.user.who \in {Nobody} \cup Users /\ s.user.config \in {Nobody} \cup Users
           /\ s.transitKey \in {NoKey} \cup Requests /\ s.etag \in {Nobody} \cup Users
  BY DEF SessionData, UserData

\* A new session is a session, without a user.
LEMMA NewSessionTyped ==
    /\ NewSession \in SessionData
    /\ NewSession.user = SignedOut /\ NewSession.etag = Nobody
    /\ NewSession.transitKey = NoKey
    /\ SignedOut \in UserData /\ SignedOut.by = Nobody /\ SignedOut.who = Nobody
    /\ SignedOut.config = Nobody
  BY DEF NewSession, SessionData, SignedOut, UserData

\* A call that has not begun, or is over, holds nothing.
LEMMA NewCallTyped ==
    /\ NewCall \in CallRecord
    /\ NewCall.is = "none" /\ NewCall.phase = "idle" /\ NewCall.response = NoResponse
    /\ NewCall.object = 0 /\ NewCall.session = NewSession /\ NewCall.from = SignedOut
    /\ NewCall.hub = Nobody /\ NewCall.outcome = "none"
  <1>1. 0 \in Objects
    BY AuthSessionAssumption DEF Objects
  <1>2. QED
    BY <1>1, NewSessionTyped DEF NewCall, CallRecord, Outcomes, Phases

\* The parts of a call.
LEMMA CallParts ==
    ASSUME NEW x \in CallRecord
    PROVE  /\ x.is \in {"none"} \cup Kinds /\ x.phase \in Phases
           /\ x.response \in {NoResponse} \cup Response /\ x.object \in Objects
           /\ x.session \in SessionData /\ x.from \in UserData
           /\ x.hub \in {Nobody} \cup Users /\ x.outcome \in Outcomes
  BY DEF CallRecord

\* Where the types put the session in the store.
LEMMA StoreTyped ==
    ASSUME TypeOK
    PROVE  /\ data[current] \in SessionData /\ current \in Objects
           /\ User = data[current].user /\ User \in UserData /\ User \in Known
           /\ \A o \in Objects : data[o] \in SessionData /\ data[o].user \in Known
           /\ \A c \in Calls : /\ call[c] \in CallRecord /\ call[c].session \in SessionData
                               /\ call[c].session.user \in Known /\ call[c].object \in Objects
                               /\ call[c].from \in UserData /\ call[c].from \in Known
           /\ \A c \in Calls : Held(c) \in SessionData /\ Held(c).user \in Known
           /\ \A u \in Known : u \in UserData
           /\ requests \in Nat /\ signOuts \in Nat /\ current \in Nat
           /\ 1..requests \subseteq Requests /\ Requests \subseteq Nat
           /\ \A q \in Requests : q \in 1..requests \/ q > requests
  <1>1. /\ data[current] \in SessionData /\ current \in Objects
        /\ \A o \in Objects : data[o] \in SessionData /\ data[o].user \in Known
    BY DEF TypeOK, Known
  <1>2. User = data[current].user /\ User \in UserData /\ User \in Known
    BY <1>1, SessionParts DEF User
  <1>3. ASSUME NEW c \in Calls
        PROVE  /\ call[c] \in CallRecord /\ call[c].session \in SessionData
               /\ call[c].session.user \in Known /\ call[c].object \in Objects
               /\ call[c].from \in UserData /\ call[c].from \in Known
    <2>1. call[c] \in CallRecord
      BY DEF TypeOK
    <2>2. QED
      BY <2>1, CallParts DEF Known
  <1>4. \A c \in Calls : Held(c) \in SessionData /\ Held(c).user \in Known
    BY <1>1, <1>3 DEF Held
  <1>5. \A u \in Known : u \in UserData
    BY <1>1, <1>3, SessionParts DEF Known
  <1>6. /\ requests \in Nat /\ signOuts \in Nat /\ current \in Nat
        /\ 1..requests \subseteq Requests /\ Requests \subseteq Nat
        /\ \A q \in Requests : q \in 1..requests \/ q > requests
    BY AuthSessionAssumption DEF TypeOK, Objects, Requests
  <1>7. QED
    BY <1>1, <1>2, <1>3, <1>4, <1>5, <1>6

\* Every call that goes on, and every request made before, gets the news.
LEMMA Recorded ==
    ASSUME TypeOK, NEW events \in SUBSET Event, Record(events),
           requests' \in 0..MaxRequests, requests <= requests'
    PROVE  /\ News(events) \in SUBSET Event /\ events \subseteq News(events)
           /\ News(events) \subseteq events \cup {"user"}
           /\ User'.by = User.by \/ "user" \in News(events)
           /\ User'.by = User.by => News(events) = events
           /\ seen' \in [Calls -> SUBSET Event] /\ since' \in [Requests -> SUBSET Event]
           /\ \A c \in Calls : Runs(c) /\ Runs(c)' => seen'[c] = seen[c] \cup News(events)
           /\ \A c \in Calls : ~Runs(c) => seen'[c] = {}
           /\ \A q \in 1..requests : since'[q] = since[q] \cup News(events)
           /\ \A q \in Requests : q > requests => since'[q] \subseteq {"unstored"}
           /\ \A q \in Requests : q > requests' => since'[q] = {}
           /\ \A q \in 1..requests' : q > requests /\ "unstored" \in events =>
                                        "unstored" \in since'[q]
  <1>1. /\ News(events) \in SUBSET Event /\ events \subseteq News(events)
        /\ News(events) \subseteq events \cup {"user"}
        /\ (User'.by = User.by \/ "user" \in News(events))
        /\ (User'.by = User.by => News(events) = events)
    BY DEF News, Event
  <1>2. /\ seen' = [c \in Calls |-> IF Runs(c) /\ Runs(c)' THEN seen[c] \cup News(events)
                                                           ELSE {}]
        /\ since' = [k \in Requests |->
                        IF k <= requests THEN since[k] \cup News(events)
                        ELSE IF k <= requests' /\ "unstored" \in events
                             THEN {"unstored"} ELSE {}]
    BY DEF Record, News
  <1>3. 1..requests \subseteq Requests /\ 1..requests' \subseteq Requests
    BY AuthSessionAssumption DEF TypeOK, Requests
  <1>4. requests \in Nat /\ Requests \subseteq Nat /\ requests' \in Nat
    BY StoreTyped
  <1>5. "unstored" \in Event
    BY DEF Event
  <1> HIDE DEF News
  <1>6. seen' \in [Calls -> SUBSET Event] /\ since' \in [Requests -> SUBSET Event]
    BY <1>1, <1>2, <1>5 DEF TypeOK
  <1>7. /\ \A c \in Calls : Runs(c) /\ Runs(c)' => seen'[c] = seen[c] \cup News(events)
        /\ \A c \in Calls : ~Runs(c) => seen'[c] = {}
    BY <1>2
  <1>8. /\ \A q \in 1..requests : since'[q] = since[q] \cup News(events)
        /\ \A q \in Requests : q > requests => since'[q] \subseteq {"unstored"}
        /\ \A q \in Requests : q > requests' => since'[q] = {}
        /\ \A q \in 1..requests' : q > requests /\ "unstored" \in events =>
                                        "unstored" \in since'[q]
    BY <1>2, <1>3, <1>4
  <1>9. QED
    BY <1>1, <1>6, <1>7, <1>8

\* A step that changes no user and makes no request adds its events, no more.
LEMMA RecordedSame ==
    ASSUME TypeOK, NEW events \in SUBSET Event, Record(events),
           requests' = requests, User'.by = User.by
    PROVE  /\ seen' \in [Calls -> SUBSET Event] /\ since' \in [Requests -> SUBSET Event]
           /\ \A c \in Calls : Runs(c) /\ Runs(c)' => seen'[c] = seen[c] \cup events
           /\ \A c \in Calls : ~Runs(c) => seen'[c] = {}
           /\ \A q \in 1..requests : since'[q] = since[q] \cup events
           /\ \A q \in Requests : q > requests => since'[q] = {}
  <1>1. requests' \in 0..MaxRequests /\ requests <= requests'
    BY StoreTyped DEF TypeOK
  <1>2. News(events) = events
    BY DEF News
  <1>3. QED
    BY <1>1, <1>2, Recorded

----------------------------------------------------------------------------
(* What a step leaves as it was. *)

\* A call that takes no part in a step keeps what is known of it, if the step
\* tells it what it changes.
LEMMA OtherCall ==
    ASSUME TypeOK, NEW d \in Calls, CallInv(d), call'[d] = call[d], kind' = kind,
           requests' \in Nat, requests <= requests',
           NEW news \in SUBSET Event, "moved" \notin news,
           Runs(d) => seen'[d] = seen[d] \cup news,
           \A q \in 1..requests : since'[q] = since[q] \cup news,
           \A q \in Requests : q > requests => since'[q] \subseteq {"unstored"},
           Quiet(news) => /\ User'.by = User.by /\ User'.who = User.who
                          /\ (spanned => spanned') /\ (visited => visited'),
           kind = "live" =>
                data'[call[d].object].user.by \in {data[call[d].object].user.by, User'.by},
           kind = "live" /\ Quiet(news) /\ Runs(d) /\ ~Moved(d) =>
                LET now == data[call[d].object]  next == data'[call[d].object] IN
                /\ (spanned \/ OwnConfig(now)) => (spanned' \/ OwnConfig(next))
                /\ (spanned \/ visited \/ OwnEtag(now)) =>
                        (spanned' \/ visited' \/ OwnEtag(next)),
           kind = "copy" /\ news = {} =>
                /\ data'[current'].transitKey = data[current].transitKey
                /\ data'[current'].etag = data[current].etag
    PROVE  CallInv(d)'
  <1>1. /\ requests \in Nat /\ 1..requests \subseteq Requests /\ Requests \subseteq Nat
        /\ \A q \in Requests : q \in 1..requests \/ q > requests
        /\ 1..requests \subseteq 1..requests'
    BY StoreTyped
  <1>2. /\ Runs(d)' <=> Runs(d)
        /\ Holds(d)' <=> Holds(d)
        /\ Uses(d)' <=> Uses(d)
        /\ Connects(d)' <=> Connects(d)
        /\ Holds(d) => Runs(d)
    BY DEF Runs, Holds, Uses, Connects
  <1>3. Began(d)'
    BY <1>1, <1>2 DEF CallInv, Began
  <1>4. /\ Held(d) = IF kind = "live" THEN data[call[d].object] ELSE call[d].session
        /\ Held(d)' = IF kind = "live" THEN data'[call[d].object] ELSE call[d].session
    BY DEF Held
  <1>5. SameUser(d)'
    <2>1. SUFFICES ASSUME Holds(d), seen'[d] \cap {"user", "signout"} = {}
                   PROVE  /\ (Held(d)').user.by = User'.by
                          /\ call[d].is = "signin" => User'.by = Nobody
      BY <1>2 DEF SameUser
    <2>2. Quiet(news) /\ seen[d] \cap {"user", "signout"} = {}
      BY <1>2, <2>1 DEF Quiet
    <2>3. /\ Held(d).user.by = User.by /\ User'.by = User.by
          /\ call[d].is = "signin" => User.by = Nobody
      BY <2>1, <2>2 DEF CallInv, SameUser
    <2>4. QED
      BY <1>4, <2>3
  <1>6. OfUser(d)'
    <2>1. SUFFICES ASSUME Runs(d), ~Moved(d)'
                   PROVE  OfUser(d)'
      BY <1>2 DEF OfUser
    <2>2. Quiet(news) /\ ~Moved(d)
      BY <2>1 DEF Quiet, Moved
    <2>3. User'.by = User.by /\ User'.who = User.who /\ (spanned => spanned')
          /\ (visited => visited')
      BY <2>2
    <2>4. Holds(d) => /\ spanned \/ OwnConfig(Held(d))
                      /\ spanned \/ visited \/ OwnEtag(Held(d))
      BY <2>1, <2>2 DEF CallInv, OfUser
    <2>5. Holds(d) => /\ spanned' \/ OwnConfig(Held(d)')
                      /\ spanned' \/ visited' \/ OwnEtag(Held(d)')
      BY <1>4, <2>1, <2>2, <2>3, <2>4
    <2>6. OwnConfig(Held(d)') <=> OwnConfig(Held(d))'
      BY DEF OwnConfig
    <2>7. OwnEtag(Held(d)') <=> OwnEtag(Held(d))'
      BY DEF OwnEtag
    <2>8. /\ Connects(d) => call[d].from.by = User'.by
          /\ Uses(d) => spanned' \/ call[d].hub = User'.who
      BY <2>1, <2>2, <2>3 DEF CallInv, OfUser
    <2>9. QED
      BY <1>2, <2>5, <2>6, <2>7, <2>8 DEF OfUser
  <1>7. SameCopy(d)'
    <2>1. SUFFICES ASSUME Holds(d), kind = "copy", seen'[d] \subseteq {"moved"}
                   PROVE  /\ call[d].session.transitKey = data'[current'].transitKey
                          /\ call[d].session.etag = data'[current'].etag
      BY <1>2 DEF SameCopy
    <2>2. news = {} /\ seen[d] \subseteq {"moved"}
      BY <1>2, <2>1
    <2>3. QED
      BY <2>1, <2>2 DEF CallInv, SameCopy
  <1>8. KeysRead(d)'
    <2>1. SUFFICES ASSUME Holds(d) PROVE KeysRead(d)'
      BY <1>2 DEF KeysRead
    <2>2. ASSUME call[d].is = "signin", call[d].response.form = "sealed"
          PROVE  \/ call[d].session.transitKey = call[d].response.for
                 \/ since'[call[d].response.for] \cap Lost # {}
      <3>1. call[d].response.for \in 1..requests
        BY <1>2, <2>1, <2>2 DEF CallInv, Began
      <3>2. QED
        BY <2>1, <2>2, <3>1 DEF CallInv, KeysRead
    <2>3. ASSUME NEW q \in Requests, call[d].session.transitKey = q, "signout" \in since'[q]
          PROVE  "signout" \in seen'[d] \/ "stale" \in since'[q]
      <3>1. q \in 1..requests
        BY <1>1, <2>3
      <3>2. since'[q] = since[q] \cup news /\ seen'[d] = seen[d] \cup news
        BY <1>2, <2>1, <3>1
      <3>3. QED
        BY <2>1, <2>3, <3>2 DEF CallInv, KeysRead
    <2>4. QED
      BY <2>1, <2>2, <2>3 DEF KeysRead
  <1>9. Refused(d)'
    BY <1>1 DEF CallInv, Refused
  <1>10. QED
    BY <1>3, <1>5, <1>6, <1>7, <1>8, <1>9 DEF CallInv

\* Users stay apart when everyone there is afterwards is a user there was
\* before, or nobody.
LEMMA PeopleKept ==
    ASSUME TypeOK, People,
           \A u \in Known' :
                \/ u = SignedOut
                \/ \E t \in Known : t.by = u.by /\ t.who = u.who /\ t.by # Nobody,
           \A c \in Calls : call[c].phase = "done" => call'[c].phase = "done"
    PROVE  People'
  <1>1. SignedOut.by = Nobody /\ SignedOut.who = Nobody
    BY NewSessionTyped
  <1>2. \A t \in Known : t.by \in {Nobody} \cup Calls
    BY StoreTyped DEF UserData
  <1>3. \A u \in Known' : u.by = Nobody \/ u.who = Nobody => u = SignedOut
    BY <1>1 DEF People
  <1>4. ASSUME NEW u \in Known', u.by # Nobody PROVE call'[u.by].phase = "done"
    <2>1. PICK t \in Known : t.by = u.by
      BY <1>1, <1>4
    <2>2. t.by \in Calls /\ call[t.by].phase = "done"
      BY <1>2, <1>4, <2>1 DEF People
    <2>3. QED
      BY <2>1, <2>2
  <1>5. ASSUME NEW u \in Known', NEW v \in Known', u.by = v.by PROVE u.who = v.who
    <2>1. CASE u.by = Nobody
      BY <1>1, <1>3, <1>5, <2>1
    <2>2. CASE u.by # Nobody
      <3>1. PICK t \in Known : t.by = u.by /\ t.who = u.who
        BY <1>1, <2>2
      <3>2. PICK w \in Known : w.by = v.by /\ w.who = v.who
        BY <1>1, <1>5, <2>2
      <3>3. QED
        BY <1>5, <3>1, <3>2 DEF People
    <2>3. QED
      BY <2>1, <2>2
  <1>6. QED
    BY <1>3, <1>4, <1>5 DEF People

\* A step of one call that leaves everyone the user and the key he has, and tells
\* when it writes the etag.
LEMMA Steady ==
    ASSUME Apart, NEW c \in Calls, call[c].phase # "done",
           call' \in [Calls -> CallRecord], \A d \in Calls : d # c => call'[d] = call[d],
           UNCHANGED <<kind, current, requests, signOuts>>,
           NEW events \in SUBSET {"file"},
           seen' \in [Calls -> SUBSET Event], since' \in [Requests -> SUBSET Event],
           \A d \in Calls : d # c /\ Runs(d) => seen'[d] = seen[d] \cup events,
           \A q \in 1..requests : since'[q] = since[q] \cup events,
           \A q \in Requests : q > requests => since'[q] = {},
           spanned' \in BOOLEAN, visited' \in BOOLEAN,
           spanned => spanned', visited => visited',
           data' \in [Objects -> SessionData],
           \A o \in Objects :
                /\ data'[o].user.by = data[o].user.by /\ data'[o].user.who = data[o].user.who
                /\ data'[o].transitKey = data[o].transitKey
                /\ data'[o].etag = data[o].etag \/ "file" \in events
                /\ data'[o].user = data[o].user \/ data[o].user.by # Nobody
                /\ OwnConfig(data[o]) => spanned' \/ OwnConfig(data'[o])
                /\ OwnEtag(data[o]) => spanned' \/ visited' \/ OwnEtag(data'[o]),
           kind = "live" => call'[c].object <= signOuts,
           \A u \in {call'[c].session.user, call'[c].from} :
                \/ u = SignedOut
                \/ \E t \in Known : t.by = u.by /\ t.who = u.who /\ t.by # Nobody,
           CallInv(c)'
    PROVE  Apart'
  <1>1. TypeOK /\ Placed /\ People /\ SessionOfOneUser /\ KeysStored
    BY DEF Apart
  <1>2. /\ current \in Objects /\ User = data[current].user
        /\ requests \in Nat /\ requests' \in Nat /\ requests' = requests
        /\ 1..requests \subseteq Requests /\ Requests \subseteq Nat
        /\ \A q \in Requests : q \in 1..requests \/ q > requests
    BY <1>1, StoreTyped
  <1>3. User' = data'[current].user /\ User'.by = User.by /\ User'.who = User.who
    BY <1>2 DEF User
  <1>4. TypeOK'
    BY <1>1 DEF TypeOK
  <1>5. Placed'
    <2>1. \A d \in Calls : kind = "live" => call'[d].object <= signOuts
      BY <1>1 DEF Placed
    <2>2. QED
      BY <1>1, <2>1 DEF Placed
  <1>6. People'
    <2>1. ASSUME NEW u \in Known'
          PROVE  \/ u = SignedOut
                 \/ \E t \in Known : t.by = u.by /\ t.who = u.who /\ t.by # Nobody
      <3>1. CASE u \in Known
        BY <1>1, <3>1 DEF People
      <3>2. CASE u \in {call'[c].session.user, call'[c].from}
        BY <3>2
      <3>3. CASE \E o \in Objects : u = data'[o].user
        <4>1. PICK o \in Objects : u = data'[o].user
          BY <3>3
        <4>2. data[o].user \in Known
          BY <1>1, StoreTyped
        <4>3. CASE data'[o].user = data[o].user
          BY <1>1, <4>1, <4>2, <4>3 DEF People
        <4>4. CASE data[o].user.by # Nobody
          BY <4>1, <4>2, <4>4
        <4>5. QED
          BY <4>3, <4>4
      <3>4. QED
        BY <3>1, <3>2, <3>3 DEF Known
    <2>2. \A d \in Calls : call[d].phase = "done" => call'[d].phase = "done"
      OBVIOUS
    <2>3. QED
      BY <1>1, <2>1, <2>2, PeopleKept
  <1>7. SessionOfOneUser'
    <2>1. (spanned \/ OwnConfig(data[current])) /\ (spanned \/ visited \/ OwnEtag(data[current]))
      BY <1>1, <1>2 DEF SessionOfOneUser, OwnConfig, OwnEtag
    <2>2. /\ spanned' \/ OwnConfig(data'[current])
          /\ spanned' \/ visited' \/ OwnEtag(data'[current])
      BY <1>2, <2>1
    <2>3. QED
      BY <1>3, <2>2 DEF SessionOfOneUser, OwnConfig, OwnEtag
  <1>8. KeysStored'
    <2>1. data'[current'].transitKey = data[current].transitKey
      BY <1>2
    <2>2. ASSUME NEW q \in 1..requests' PROVE data'[current'].transitKey = q \/ since'[q] \cap Lost # {}
      BY <1>1, <1>2, <2>1 DEF KeysStored
    <2>3. \A q \in Requests : "signout" \in since'[q] <=> "signout" \in since[q]
      BY <1>1, <1>2 DEF KeysStored
    <2>4. \A q \in Requests : "stale" \in since'[q] <=> "stale" \in since[q]
      BY <1>1, <1>2 DEF KeysStored
    <2>5. QED
      BY <1>1, <1>2, <2>1, <2>2, <2>3, <2>4 DEF KeysStored
  <1>9. ASSUME NEW d \in Calls, d # c PROVE CallInv(d)'
    <2>1. /\ CallInv(d) /\ call'[d] = call[d] /\ kind' = kind /\ call[d].object \in Objects
          /\ events \in SUBSET Event /\ "moved" \notin events
      BY <1>1, <1>9, StoreTyped DEF Apart, Event
    <2>2. Runs(d) => seen'[d] = seen[d] \cup events
      BY <1>9
    <2>3. \A q \in Requests : q > requests => since'[q] \subseteq {"unstored"}
      OBVIOUS
    <2>4. data'[call[d].object].user.by \in {data[call[d].object].user.by, User'.by}
      BY <2>1
    <2>5. LET now == data[call[d].object]  next == data'[call[d].object] IN
          /\ (spanned \/ OwnConfig(now)) => (spanned' \/ OwnConfig(next))
          /\ (spanned \/ visited \/ OwnEtag(now)) => (spanned' \/ visited' \/ OwnEtag(next))
      BY <2>1
    <2>6. events = {} => /\ data'[current'].transitKey = data[current].transitKey
                         /\ data'[current'].etag = data[current].etag
      BY <1>2
    <2>7. QED
      BY SMTT(60), <1>1, <1>2, <1>3, <2>1, <2>2, <2>3, <2>4, <2>5, <2>6, OtherCall
  <1>10. QED
    BY <1>4, <1>5, <1>6, <1>7, <1>8, <1>9 DEF Apart

\* So it is with a step that writes no session.
LEMMA NothingWritten ==
    ASSUME Apart, NEW c \in Calls, call[c].phase # "done", Unwritten, Record({}),
           call' \in [Calls -> CallRecord], \A d \in Calls : d # c => call'[d] = call[d],
           kind = "live" => call'[c].object <= signOuts,
           \A u \in {call'[c].session.user, call'[c].from} :
                \/ u = SignedOut
                \/ \E t \in Known : t.by = u.by /\ t.who = u.who /\ t.by # Nobody,
           CallInv(c)'
    PROVE  Apart'
  <1> DEFINE events == {}
  <1>1. /\ UNCHANGED <<kind, current, requests, signOuts>> /\ data' = data
        /\ spanned' = spanned /\ visited' = visited /\ TypeOK
        /\ User' = User /\ Record(events)
    BY DEF Unwritten, Apart, User
  <1>2. events \in SUBSET {"file"} /\ events \in SUBSET Event
    OBVIOUS
  <1> HIDE DEF events
  <1>3. /\ seen' \in [Calls -> SUBSET Event] /\ since' \in [Requests -> SUBSET Event]
        /\ \A d \in Calls : Runs(d) /\ Runs(d)' => seen'[d] = seen[d] \cup events
        /\ \A q \in 1..requests : since'[q] = since[q] \cup events
        /\ \A q \in Requests : q > requests => since'[q] = {}
    BY <1>1, <1>2, RecordedSame
  <1>4. \A d \in Calls : d # c /\ Runs(d) => seen'[d] = seen[d] \cup events
    BY <1>3 DEF Runs
  <1>5. /\ data' \in [Objects -> SessionData]
        /\ spanned' \in BOOLEAN /\ visited' \in BOOLEAN
    BY <1>1 DEF TypeOK
  <1>6. ASSUME NEW o \in Objects
        PROVE  /\ data'[o].user.by = data[o].user.by /\ data'[o].user.who = data[o].user.who
               /\ data'[o].transitKey = data[o].transitKey
               /\ data'[o].etag = data[o].etag \/ "file" \in events
               /\ data'[o].user = data[o].user \/ data[o].user.by # Nobody
               /\ OwnConfig(data[o]) => spanned' \/ OwnConfig(data'[o])
               /\ OwnEtag(data[o]) => spanned' \/ visited' \/ OwnEtag(data'[o])
    BY <1>1
  <1>7. QED
    BY <1>1, <1>2, <1>3, <1>4, <1>5, <1>6, Steady

----------------------------------------------------------------------------
(* Steps that write no session. *)

\* At the start nothing is stored and no call runs.
LEMMA InitApart == Init => Apart
  <1> SUFFICES ASSUME Init PROVE Apart
    OBVIOUS
  <1>1. TypeOK
    <2>1. 0 \in Objects /\ 0 \in 0..MaxRequests /\ 0 \in 0..MaxSignOuts
      BY AuthSessionAssumption DEF Objects
    <2>2. QED
      BY <2>1, NewCallTyped, NewSessionTyped DEF Init, TypeOK
  <1>2. /\ \A o \in Objects : data[o] = NewSession
        /\ \A c \in Calls : call[c] = NewCall
        /\ data[current] = NewSession /\ User = SignedOut
    BY NewSessionTyped, <1>1 DEF Init, User, TypeOK
  <1>3. Placed
    BY NewCallTyped, <1>2 DEF Init, Placed
  <1>4. People
    <2>1. \A u \in Known : u = SignedOut
      BY <1>2, NewCallTyped, NewSessionTyped DEF Known
    <2>2. QED
      BY <2>1, NewSessionTyped DEF People
  <1>5. SessionOfOneUser
    BY <1>2, NewSessionTyped DEF SessionOfOneUser
  <1>6. KeysStored
    BY DEF Init, KeysStored
  <1>7. ASSUME NEW c \in Calls PROVE CallInv(c)
    <2>1. call[c] = NewCall /\ ~Runs(c)
      BY <1>2, NewCallTyped DEF Runs
    <2>2. QED
      BY <2>1, NewCallTyped
         DEF CallInv, Began, SameUser, OfUser, SameCopy, KeysRead, Refused, Holds
  <1>8. QED
    BY <1>1, <1>3, <1>4, <1>5, <1>6, <1>7 DEF Apart

\* A call that is over or was refused at once, with what it answered.
Over(is, outcome, response) ==
    [NewCall EXCEPT !.is = is, !.phase = "done", !.outcome = outcome, !.response = response]

\* It is of the right type, and holds nothing.
LEMMA OverTyped ==
    ASSUME NEW is \in {"none"} \cup Kinds, NEW outcome \in Outcomes,
           NEW response \in {NoResponse} \cup Response
    PROVE  LET x == Over(is, outcome, response) IN
           /\ x \in CallRecord /\ x.session = NewSession /\ x.object = 0 /\ x.from = SignedOut
           /\ x.phase = "done" /\ x.outcome = outcome /\ x.response = response /\ x.is = is
  BY NewCallTyped DEF Over, NewCall, CallRecord, Phases

\* What is known of a call that is over, and was not refused for its key.
LEMMA OverInv ==
    ASSUME NEW c \in Calls, call'[c].phase = "done",
           call'[c].outcome \notin {"transit", "nokey"}
    PROVE  CallInv(c)'
  BY DEF CallInv, Began, SameUser, OfUser, SameCopy, KeysRead, Refused, Runs, Holds

\* A call that ends is over, and keeps its response if that was refused for its
\* key.
LEMMA DoneOver ==
    ASSUME TypeOK, NEW c \in Calls, NEW outcome \in Outcomes, Done(c, outcome)
    PROVE  LET kept == IF outcome \in {"transit", "nokey"} THEN call[c].response
                       ELSE NoResponse IN
           /\ call' \in [Calls -> CallRecord] /\ call'[c] = Over(call[c].is, outcome, kept)
           /\ \A d \in Calls : d # c => call'[d] = call[d]
           /\ call'[c].phase = "done" /\ call'[c].outcome = outcome
           /\ call'[c].is = call[c].is /\ call'[c].response = kept
           /\ call'[c].session = NewSession /\ call'[c].object = 0
           /\ call'[c].from = SignedOut
  <1> DEFINE kept == IF outcome \in {"transit", "nokey"} THEN call[c].response
                     ELSE NoResponse
  <1> DEFINE x == Over(call[c].is, outcome, kept)
  <1>1. call' = [call EXCEPT ![c] = x]
    BY DEF Done, Over
  <1>2. call[c].is \in {"none"} \cup Kinds /\ kept \in {NoResponse} \cup Response
    BY StoreTyped, CallParts
  <1> HIDE DEF kept
  <1>3. /\ x \in CallRecord /\ x.session = NewSession /\ x.object = 0 /\ x.from = SignedOut
        /\ x.phase = "done" /\ x.outcome = outcome /\ x.response = kept /\ x.is = call[c].is
    <2> DEFINE is == call[c].is
    <2>1. is \in {"none"} \cup Kinds
      BY <1>2
    <2> HIDE DEF is
    <2>2. LET y == Over(is, outcome, kept) IN
          /\ y \in CallRecord /\ y.session = NewSession /\ y.object = 0 /\ y.from = SignedOut
          /\ y.phase = "done" /\ y.outcome = outcome /\ y.response = kept /\ y.is = is
      BY <1>2, <2>1, OverTyped
    <2>3. QED
      BY <2>2 DEF is
  <1> HIDE DEF x
  <1>4. call' \in [Calls -> CallRecord] /\ call'[c] = x /\ \A d \in Calls : d # c => call'[d] = call[d]
    BY <1>1, <1>3 DEF TypeOK
  <1>5. QED
    BY <1>3, <1>4 DEF x, kept

\* A call ends without writing; if it is for its key, the history explains it.
LEMMA RejectApart ==
    ASSUME Apart, NEW c \in Calls, call[c].phase # "done",
           NEW outcome \in Outcomes, Reject(c, outcome),
           (outcome \in {"transit", "nokey"} /\ call[c].response.form = "sealed") =>
                /\ call[c].response.for \in 1..requests
                /\ since[call[c].response.for] \cap Lost # {}
    PROVE  Apart'
  <1>1. TypeOK /\ Done(c, outcome) /\ Unwritten /\ Record({})
    BY DEF Apart, Reject
  <1>2. /\ call' \in [Calls -> CallRecord] /\ \A d \in Calls : d # c => call'[d] = call[d]
        /\ call'[c].phase = "done" /\ call'[c].outcome = outcome
        /\ outcome \in {"transit", "nokey"} => call'[c].response = call[c].response
        /\ call'[c].session = NewSession /\ call'[c].object = 0 /\ call'[c].from = SignedOut
    BY <1>1, DoneOver
  <1>3. \A q \in 1..requests : since'[q] = since[q] \cup News({})
    <2> DEFINE events == {}
    <2>1. requests' \in 0..MaxRequests /\ requests <= requests' /\ events \in SUBSET Event
          /\ Record(events)
      BY <1>1, StoreTyped DEF TypeOK, Unwritten
    <2> HIDE DEF events
    <2>2. \A q \in 1..requests : since'[q] = since[q] \cup News(events)
      BY <1>1, <2>1, Recorded
    <2>3. QED
      BY <2>2 DEF events
  <1>4. requests' = requests
    BY <1>1 DEF Unwritten
  <1>5. CallInv(c)'
    BY <1>2, <1>3, <1>4
       DEF CallInv, Began, SameUser, OfUser, SameCopy, KeysRead, Refused, Runs, Holds
  <1>6. kind = "live" => call'[c].object <= signOuts
    BY <1>1, <1>2, StoreTyped
  <1>7. QED
    BY <1>1, <1>2, <1>5, <1>6, NewSessionTyped, NothingWritten

\* A call begins, or is refused before its first await.
LEMMA BeginApart ==
    ASSUME Apart, NEW c \in Calls, call[c].phase = "idle", NEW x \in CallRecord, Begin(c, x),
           kind = "live" => x.object <= signOuts,
           \A u \in {x.session.user, x.from} :
                \/ u = SignedOut
                \/ u.by = User.by /\ u.who = User.who /\ u.by # Nobody,
           x.outcome \notin {"transit", "nokey"},
           x.phase = "done" \/ (call'[c] = x /\ seen'[c] = {} /\ Unwritten
                                /\ (\A q \in Requests : since'[q] = since[q]) => CallInv(c)')
    PROVE  Apart'
  <1>1. TypeOK /\ Unwritten /\ Record({}) /\ call' = [call EXCEPT ![c] = x]
    BY DEF Apart, Begin
  <1>2. /\ call' \in [Calls -> CallRecord] /\ call'[c] = x
        /\ \A d \in Calls : d # c => call'[d] = call[d]
    BY <1>1 DEF TypeOK
  <1>3. seen'[c] = {} /\ \A q \in Requests : since'[q] = since[q]
    <2> DEFINE events == {}
    <2>1. /\ requests' = requests /\ events \in SUBSET Event /\ Record(events)
          /\ User'.by = User.by
      BY <1>1 DEF Unwritten, User
    <2>2. ~Runs(c)
      BY DEF Runs
    <2> HIDE DEF events
    <2>3. /\ seen'[c] = {}
          /\ \A q \in 1..requests : since'[q] = since[q] \cup events
          /\ \A q \in Requests : q > requests => since'[q] = {}
      BY <1>1, <2>1, <2>2, RecordedSame
    <2>4. \A q \in 1..requests : since'[q] = since[q]
      BY <2>3 DEF events
    <2>5. \A q \in Requests : q > requests => since[q] = {}
      BY DEF Apart, KeysStored
    <2>6. QED
      BY <1>1, <2>3, <2>4, <2>5, StoreTyped
  <1>4. CallInv(c)'
    BY <1>1, <1>2, <1>3, OverInv
  <1>5. User \in Known
    BY <1>1, StoreTyped
  <1>6. \A u \in {call'[c].session.user, call'[c].from} :
            \/ u = SignedOut
            \/ \E t \in Known : t.by = u.by /\ t.who = u.who /\ t.by # Nobody
    BY <1>2, <1>5
  <1>7. kind = "live" => call'[c].object <= signOuts
    BY <1>2
  <1>8. QED
    BY <1>1, <1>2, <1>4, <1>6, <1>7, NothingWritten

\* A call is refused before its first await.
LEMMA RefuseApart ==
    ASSUME Apart, NEW c \in Calls, NEW is \in Kinds, Offer(c, is),
           NEW outcome \in {"existing", "nouser"}, Refuse(c, is, outcome)
    PROVE  Apart'
  <1> DEFINE x == Over(is, outcome, NoResponse)
  <1>1. x = [NewCall EXCEPT !.is = is, !.phase = "done", !.outcome = outcome]
    <2> DEFINE y == [NewCall EXCEPT !.is = is, !.phase = "done", !.outcome = outcome]
    <2>1. y.response = NoResponse /\ DOMAIN y = DOMAIN NewCall
      BY DEF NewCall
    <2>2. x = y
      BY <2>1 DEF Over, NewCall
    <2>3. QED
      BY <2>2
  <1>2. Begin(c, x) /\ call[c].phase = "idle"
    BY <1>1 DEF Refuse, Offer
  <1>3. /\ is \in {"none"} \cup Kinds /\ outcome \in Outcomes
        /\ NoResponse \in {NoResponse} \cup Response
    BY DEF Outcomes
  <1>4. /\ x \in CallRecord /\ x.session = NewSession /\ x.object = 0 /\ x.from = SignedOut
        /\ x.phase = "done" /\ x.outcome = outcome
    BY <1>3, OverTyped
  <1> HIDE DEF x
  <1>5. kind = "live" => x.object <= signOuts
    BY <1>4, StoreTyped DEF Apart
  <1>6. QED
    BY <1>2, <1>4, <1>5, NewSessionTyped, BeginApart

\* A response is one that somebody may give to a request that was made.
LEMMA ResponsesTyped ==
    ASSUME TypeOK, NEW r \in Responses
    PROVE  r \in Response /\ (r.form = "sealed" => r.for \in 1..requests)
  <1>1. PICK a \in Answers :
            r \in {[who |-> a.who, form |-> a.form, for |-> k, profile |-> a.profile] :
                    k \in IF a.form = "sealed" THEN 1..requests ELSE {NoKey}}
    BY DEF Responses
  <1>2. PICK k \in IF a.form = "sealed" THEN 1..requests ELSE {NoKey} :
            r = [who |-> a.who, form |-> a.form, for |-> k, profile |-> a.profile]
    BY <1>1
  <1>3. a \in [who: Users, form: {"sealed", "plain", "legacy"},
               profile: {"given", "url", "none"}]
    BY AuthSessionAssumption
  <1>4. k \in {NoKey} \cup Requests
    BY <1>2, StoreTyped
  <1>5. QED
    BY <1>2, <1>3, <1>4 DEF Response

\* A sign-in begins with the session in the store.
LEMMA BeginSignInApart ==
    ASSUME Apart, NEW c \in Calls, NEW r \in Responses, BeginSignIn(c, r)
    PROVE  Apart'
  <1>1. TypeOK /\ Placed /\ People /\ SessionOfOneUser /\ KeysStored /\ Offer(c, "signin")
        /\ "signin" \in Kinds /\ call[c].phase = "idle"
    BY DEF Apart, BeginSignIn, Offer, Kinds
  <1>2. CASE User # SignedOut
    <2>1. Refuse(c, "signin", "existing")
      BY <1>2 DEF BeginSignIn
    <2>2. QED
      BY <1>1, <2>1, RefuseApart
  <1>3. CASE User = SignedOut
    <2> DEFINE session == IF kind = "copy" THEN data[current]
                          ELSE [data[current] EXCEPT !.etag = Nobody]
    <2> DEFINE x == [NewCall EXCEPT !.is = "signin", !.phase = "running", !.response = r,
                                    !.object = current, !.session = session]
    <2>1. Begin(c, x)
      BY <1>3 DEF BeginSignIn
    <2>2. r \in Response /\ (r.form = "sealed" => r.for \in 1..requests)
      BY <1>1, ResponsesTyped
    <2>3. data[current] \in SessionData /\ current \in Objects /\ User = data[current].user
      BY <1>1, StoreTyped
    <2>4. /\ session \in SessionData /\ session.user = SignedOut
          /\ session.transitKey = data[current].transitKey
          /\ kind = "copy" => session = data[current]
      BY <1>3, <2>3 DEF SessionData
    <2> HIDE DEF session
    <2>5. /\ x \in CallRecord /\ x.is = "signin" /\ x.phase = "running" /\ x.response = r
          /\ x.object = current /\ x.session = session /\ x.from = SignedOut
          /\ x.outcome = "none"
      BY <2>2, <2>3, <2>4, NewCallTyped DEF NewCall, CallRecord, Phases, Kinds
    <2> HIDE DEF x
    <2>6. ASSUME call'[c] = x, seen'[c] = {}, Unwritten,
                 \A q \in Requests : since'[q] = since[q]
          PROVE  CallInv(c)'
      <3>1. /\ kind' = kind /\ data' = data /\ current' = current /\ requests' = requests
            /\ spanned' = spanned /\ visited' = visited /\ User' = User
        BY <2>6 DEF Unwritten, User
      <3>2. Held(c)' = data[current]
        BY <2>4, <2>5, <2>6, <3>1, <1>1 DEF Held, TypeOK
      <3>3. Began(c)'
        BY <1>1, <2>2, <2>5, <2>6, <3>1 DEF Began, Connects
      <3>4. SameUser(c)'
        BY <1>3, <2>3, <2>6, <3>1, <3>2, NewSessionTyped DEF SameUser
      <3>5. OfUser(c)'
        <4>1. (spanned \/ OwnConfig(data[current])) /\ (spanned \/ visited \/ OwnEtag(data[current]))
          BY <1>1, <2>3 DEF SessionOfOneUser, OwnConfig, OwnEtag
        <4>2. ~Connects(c)' /\ ~Uses(c)'
          BY <2>5, <2>6 DEF Connects, Uses
        <4>3. QED
          BY <3>1, <3>2, <4>1, <4>2 DEF OfUser, OwnConfig, OwnEtag
      <3>6. SameCopy(c)'
        BY <2>4, <2>5, <2>6, <3>1 DEF SameCopy
      <3>7. KeysRead(c)'
        BY <1>1, <2>2, <2>4, <2>5, <2>6, <3>1, StoreTyped DEF KeysRead, KeysStored
      <3>8. Refused(c)'
        BY <2>5, <2>6 DEF Refused
      <3>9. QED
        BY <3>3, <3>4, <3>5, <3>6, <3>7, <3>8 DEF CallInv
    <2>7. /\ kind = "live" => x.object <= signOuts
          /\ x.session.user = SignedOut
      BY <1>1, <2>4, <2>5 DEF Placed
    <2>8. QED
      BY <1>1, <2>1, <2>5, <2>6, <2>7, BeginApart
  <1>4. QED
    BY <1>2, <1>3

\* A call that has no session in hand yet.
LEMMA EmptyHanded ==
    ASSUME NEW c \in Calls, call'[c].phase \in {"connect", "chosen", "running"},
           call'[c].is \in Kinds \ {"signin"}, ~Holds(c)', call'[c].outcome = "none",
           call'[c].phase = "chosen" => call'[c].is = "file",
           call'[c].phase = "connect" =>
                call'[c].is # "visit" /\ call'[c].from.by # Nobody,
           call'[c].phase # "connect" => call'[c].hub # Nobody,
           ~Moved(c)' =>
                /\ call'[c].phase = "connect" => call'[c].from.by = User'.by
                /\ Uses(c)' => spanned' \/ call'[c].hub = User'.who
    PROVE  CallInv(c)'
  BY DEF CallInv, Began, SameUser, OfUser, SameCopy, KeysRead, Refused, Connects

\* The user data a connection is made with, by a call that begins.
LEMMA ConnectingTyped ==
    ASSUME TypeOK, NEW is \in Kinds, NEW phase \in Phases
    PROVE  LET x == Connecting(is, phase) IN
           /\ x \in CallRecord /\ x.is = is /\ x.phase = phase /\ x.outcome = "none"
           /\ x.session = NewSession /\ x.object = 0
           /\ x.from \in UserData /\ x.from.by = User.by /\ x.from.who = User.who
  <1> DEFINE from == [User EXCEPT !.config = Nobody]
  <1>1. User \in UserData
    BY StoreTyped
  <1>2. from \in UserData /\ from.by = User.by /\ from.who = User.who
    BY <1>1 DEF UserData
  <1> HIDE DEF from
  <1>3. Connecting(is, phase) = [NewCall EXCEPT !.is = is, !.phase = phase, !.from = from]
    BY DEF Connecting, from
  <1>4. QED
    BY <1>2, <1>3, NewCallTyped DEF NewCall, CallRecord

\* putFile, deleteFile, getFile or a connection begins to connect.
LEMMA ConnectingApart ==
    ASSUME Apart, NEW c \in Calls, NEW is \in {"file", "read", "connect"}, Offer(c, is),
           User # SignedOut, Begin(c, Connecting(is, "connect"))
    PROVE  Apart'
  <1> DEFINE x == Connecting(is, "connect")
  <1>1. TypeOK /\ People /\ is \in Kinds /\ "connect" \in Phases /\ call[c].phase = "idle"
    BY DEF Apart, Kinds, Phases, Offer
  <1>2. /\ x \in CallRecord /\ x.is = is /\ x.phase = "connect" /\ x.outcome = "none"
        /\ x.session = NewSession /\ x.object = 0
        /\ x.from.by = User.by /\ x.from.who = User.who
    BY <1>1, ConnectingTyped
  <1>3. User.by # Nobody
    BY <1>1, StoreTyped DEF People
  <1>4. Begin(c, x)
    OBVIOUS
  <1> HIDE DEF x
  <1>5. ASSUME call'[c] = x, Unwritten PROVE CallInv(c)'
    <2>1. User' = User /\ ~Holds(c)' /\ ~Uses(c)'
      BY <1>2, <1>5 DEF Unwritten, User, Holds, Uses
    <2>2. QED
      BY <1>1, <1>2, <1>3, <1>5, <2>1, EmptyHanded
  <1>6. kind = "live" => x.object <= signOuts
    BY <1>1, <1>2, StoreTyped
  <1>7. QED
    BY <1>1, <1>2, <1>3, <1>4, <1>5, <1>6, NewSessionTyped, BeginApart

\* putFile, deleteFile or getFile begins, with the connection there is or a new one.
LEMMA GetOrSetApart ==
    ASSUME Apart, NEW c \in Calls, NEW is \in {"file", "read"}, GetOrSetConnection(c, is)
    PROVE  Apart'
  <1>1. TypeOK /\ People /\ SessionOfOneUser /\ is \in Kinds /\ Offer(c, is)
        /\ call[c].phase = "idle"
    BY DEF Apart, Kinds, Offer, GetOrSetConnection
  <1>2. CASE User = SignedOut
    BY <1>1, <1>2, RefuseApart DEF GetOrSetConnection
  <1>3. CASE User # SignedOut /\ User.config = Nobody
    BY <1>1, <1>3, ConnectingApart DEF GetOrSetConnection
  <1>4. CASE User # SignedOut /\ User.config # Nobody
    <2> DEFINE x == [NewCall EXCEPT !.is = is, !.phase = AfterConnecting(is),
                                    !.hub = User.config]
    <2>1. Begin(c, x)
      BY <1>4 DEF GetOrSetConnection
    <2>2. User.config \in {Nobody} \cup Users
      BY <1>1, StoreTyped DEF UserData
    <2>3. /\ AfterConnecting(is) \in Phases
          /\ AfterConnecting(is) = IF is = "file" THEN "chosen" ELSE "running"
      BY DEF AfterConnecting, Phases
    <2>4. /\ x \in CallRecord /\ x.is = is /\ x.phase = AfterConnecting(is)
          /\ x.outcome = "none" /\ x.hub = User.config
          /\ x.session = NewSession /\ x.object = 0 /\ x.from = SignedOut
      BY <1>1, <2>2, <2>3, NewCallTyped DEF NewCall, CallRecord
    <2> HIDE DEF x
    <2>5. spanned \/ User.config = User.who
      BY <1>1, <1>4 DEF SessionOfOneUser
    <2>6. ASSUME call'[c] = x, Unwritten PROVE CallInv(c)'
      <3>1. User' = User /\ spanned' = spanned /\ ~Holds(c)'
        BY <2>3, <2>4, <2>6 DEF Unwritten, User, Holds
      <3>2. QED
        BY <1>1, <1>4, <2>3, <2>4, <2>5, <2>6, <3>1, EmptyHanded DEF Kinds
    <2>7. kind = "live" => x.object <= signOuts
      BY <1>1, <2>4, StoreTyped
    <2>8. QED
      BY <1>1, <2>1, <2>4, <2>6, <2>7, NewSessionTyped, BeginApart
  <1>5. QED
    BY <1>2, <1>3, <1>4

\* A connection begins.
LEMMA BeginConnectApart ==
    ASSUME Apart, NEW c \in Calls, BeginConnect(c)
    PROVE  Apart'
  <1>1. "connect" \in Kinds /\ Offer(c, "connect")
    BY DEF Kinds, BeginConnect
  <1>2. CASE User = SignedOut
    BY <1>1, <1>2, RefuseApart DEF BeginConnect
  <1>3. CASE User # SignedOut
    BY <1>1, <1>3, ConnectingApart DEF BeginConnect
  <1>4. QED
    BY <1>2, <1>3

\* getFile of another user's file begins.
LEMMA BeginVisitApart ==
    ASSUME Apart, NEW c \in Calls, BeginVisit(c)
    PROVE  Apart'
  <1>1. "visit" \in Kinds /\ Offer(c, "visit") /\ TypeOK /\ call[c].phase = "idle"
    BY DEF Kinds, BeginVisit, Apart, Offer
  <1>2. CASE Refuse(c, "visit", "nouser")
    BY <1>1, <1>2, RefuseApart
  <1>3. ASSUME NEW whose \in Users,
               Begin(c, [NewCall EXCEPT !.is = "visit", !.phase = "running", !.hub = whose])
        PROVE  Apart'
    <2> DEFINE x == [NewCall EXCEPT !.is = "visit", !.phase = "running", !.hub = whose]
    <2>1. /\ x \in CallRecord /\ x.is = "visit" /\ x.phase = "running"
          /\ x.outcome = "none" /\ x.session = NewSession /\ x.object = 0
          /\ x.from = SignedOut /\ x.hub # Nobody
      BY <1>1, NewCallTyped, AuthSessionAssumption DEF NewCall, CallRecord, Phases
    <2>2. Begin(c, x)
      BY <1>3
    <2> HIDE DEF x
    <2>3. ASSUME call'[c] = x PROVE CallInv(c)'
      <3>1. ~Holds(c)' /\ ~Uses(c)'
        BY <2>1, <2>3 DEF Holds, Uses
      <3>2. QED
        BY <1>1, <2>1, <2>3, <3>1, EmptyHanded
    <2>4. kind = "live" => x.object <= signOuts
      BY <1>1, <2>1, StoreTyped
    <2>5. QED
      BY <1>1, <2>1, <2>2, <2>3, <2>4, NewSessionTyped, BeginApart
  <1>4. QED
    BY <1>2, <1>3 DEF BeginVisit

\* A response is refused for its key: the history says what became of the key.
LEMMA KeyFailsApart ==
    ASSUME Apart, NEW c \in Calls, KeyFails(c)
    PROVE  Apart'
  <1>1. /\ Runs(c) /\ Holds(c) /\ call[c].is = "signin" /\ TypeOK /\ CallInv(c)
        /\ call[c].phase # "done"
    BY DEF KeyFails, Running, Runs, Holds, Apart
  <1>2. PICK outcome \in {"transit", "nokey"} :
            Reject(c, outcome) /\ AppPrivateKey(c) \in {"missing", "changed"}
    BY DEF KeyFails
  <1>3. ASSUME call[c].response.form = "sealed"
        PROVE  /\ call[c].response.for \in 1..requests
               /\ since[call[c].response.for] \cap Lost # {}
    <2>1. call[c].response.for \in 1..requests
      BY <1>1, <1>3 DEF CallInv, Began
    <2>2. call[c].session.transitKey # call[c].response.for
      <3>1. call[c].response.for # NoKey
        BY <1>1, <2>1, StoreTyped DEF NoKey
      <3>2. QED
        BY <1>2, <1>3, <3>1 DEF AppPrivateKey
    <2>3. QED
      BY <1>1, <1>3, <2>1, <2>2 DEF CallInv, KeysRead
  <1>4. outcome \in Outcomes
    BY DEF Outcomes
  <1>5. QED
    BY <1>1, <1>2, <1>3, <1>4, RejectApart

\* Any other way to end without writing.
LEMMA FailsApart ==
    ASSUME Apart, NEW c \in Calls, Runs(c),
           NEW outcome \in {"invalid", "profile", "failed", "nouser", "ok"}, Reject(c, outcome)
    PROVE  Apart'
  <1>1. call[c].phase # "done" /\ outcome \in Outcomes /\ outcome \notin {"transit", "nokey"}
    BY DEF Runs, Outcomes
  <1>2. QED
    BY <1>1, RejectApart

\* putFile or deleteFile reads the session it will write.
LEMMA CopySessionApart ==
    ASSUME Apart, NEW c \in Calls, CopySession(c)
    PROVE  Apart'
  <1> DEFINE session == IF kind = "copy" THEN data[current] ELSE NewSession
  <1> DEFINE x == [call[c] EXCEPT !.phase = "running", !.object = current, !.session = session]
  <1> DEFINE events == {}
  <1>1. /\ TypeOK /\ Placed /\ People /\ SessionOfOneUser /\ KeysStored /\ CallInv(c)
        /\ call[c].phase = "chosen" /\ Runs(c) /\ call[c] \in CallRecord
    BY StoreTyped DEF Apart, CopySession, Runs
  <1>2. call[c].is = "file" /\ call[c].outcome = "none"
    BY <1>1 DEF CallInv, Began
  <1>3. /\ data[current] \in SessionData /\ current \in Objects /\ User = data[current].user
        /\ data[current].user \in Known /\ call[c].from \in Known
    BY <1>1, StoreTyped
  <1>4. session \in SessionData /\ (kind = "copy" => session = data[current])
    BY <1>3, NewSessionTyped
  <1>5. session.transitKey # NoKey => session = data[current]
    BY NewSessionTyped
  <1>6. session.user = SignedOut \/ session.user = data[current].user
    BY NewSessionTyped
  <1> HIDE DEF session
  <1>7. /\ x \in CallRecord /\ x.is = "file" /\ x.phase = "running" /\ x.object = current
        /\ x.session = session /\ x.from = call[c].from /\ x.hub = call[c].hub
        /\ x.outcome = "none"
    BY <1>1, <1>2, <1>3, <1>4 DEF CallRecord, Phases
  <1>8. call' = [call EXCEPT ![c] = x]
    BY DEF CopySession, session
  <1> HIDE DEF x
  <1>9. /\ call' \in [Calls -> CallRecord] /\ call'[c] = x
        /\ \A d \in Calls : d # c => call'[d] = call[d]
    BY <1>1, <1>7, <1>8 DEF TypeOK
  <1>10. /\ kind' = kind /\ data' = data /\ current' = current /\ requests' = requests
         /\ signOuts' = signOuts /\ spanned' = spanned /\ visited' = visited
         /\ since' = since /\ User' = User
    BY DEF CopySession, Unwritten, User
  <1>11. /\ seen' = [seen EXCEPT ![c] = IF Moved(c) THEN {"moved"} ELSE {}]
         /\ seen' \in [Calls -> SUBSET Event] /\ seen'[c] = IF Moved(c) THEN {"moved"} ELSE {}
         /\ \A d \in Calls : d # c => seen'[d] = seen[d]
    BY <1>1 DEF CopySession, TypeOK, Event
  <1>12. CallInv(c)'
    <2>1. Held(c)' = data[current]
      BY <1>1, <1>4, <1>7, <1>9, <1>10 DEF Held, TypeOK
    <2>2. Began(c)'
      <3>1. call[c].hub # Nobody
        BY <1>1, <1>2 DEF CallInv, Began, Connects, Runs
      <3>2. QED
        BY <1>2, <1>7, <1>9, <3>1 DEF Began, Connects, Kinds
    <2>3. SameUser(c)'
      BY <1>3, <1>7, <1>9, <1>10, <2>1 DEF SameUser
    <2>4. OfUser(c)'
      <3>1. (spanned \/ OwnConfig(data[current])) /\ (spanned \/ visited \/ OwnEtag(data[current]))
        BY <1>1, <1>3 DEF SessionOfOneUser, OwnConfig, OwnEtag
      <3>2. Moved(c)' <=> Moved(c)
        BY <1>11 DEF Moved
      <3>3. ~Moved(c) => spanned \/ call[c].hub = User.who
        BY <1>1, <1>2 DEF CallInv, OfUser, Uses
      <3>4. ~Connects(c)'
        BY <1>7, <1>9 DEF Connects
      <3>5. QED
        BY <1>7, <1>9, <1>10, <2>1, <3>1, <3>2, <3>3, <3>4 DEF OfUser, OwnConfig, OwnEtag
    <2>5. SameCopy(c)'
      BY <1>4, <1>7, <1>9, <1>10 DEF SameCopy
    <2>6. KeysRead(c)'
      <3>1. ASSUME NEW q \in Requests, session.transitKey = q, "signout" \in since[q]
            PROVE  "stale" \in since[q]
        <4>1. q # NoKey
          BY DEF Requests, NoKey
        <4>2. QED
          BY <1>1, <1>5, <3>1, <4>1 DEF KeysStored
      <3>2. QED
        BY <1>7, <1>9, <1>10, <3>1 DEF KeysRead
    <2>7. Refused(c)'
      BY <1>7, <1>9 DEF Refused
    <2>8. QED
      BY <2>2, <2>3, <2>4, <2>5, <2>6, <2>7 DEF CallInv
  <1>13. /\ events \in SUBSET {"file"}
         /\ \A d \in Calls : d # c /\ Runs(d) => seen'[d] = seen[d] \cup events
         /\ \A q \in 1..requests : since'[q] = since[q] \cup events
    BY <1>10, <1>11
  <1> HIDE DEF events
  <1>14. /\ UNCHANGED <<kind, current, requests, signOuts>>
         /\ since' \in [Requests -> SUBSET Event]
         /\ \A q \in Requests : q > requests => since'[q] = {}
         /\ spanned' \in BOOLEAN /\ visited' \in BOOLEAN
         /\ data' \in [Objects -> SessionData]
         /\ kind = "live" => call'[c].object <= signOuts
         /\ call[c].phase # "done"
    BY <1>1, <1>7, <1>9, <1>10 DEF TypeOK, KeysStored, Placed
  <1>15. ASSUME NEW u \in {call'[c].session.user, call'[c].from}
         PROVE  \/ u = SignedOut
                \/ \E t \in Known : t.by = u.by /\ t.who = u.who /\ t.by # Nobody
    BY <1>1, <1>3, <1>6, <1>7, <1>9, <1>15 DEF People
  <1>16. ASSUME NEW o \in Objects
         PROVE  /\ data'[o].user.by = data[o].user.by /\ data'[o].user.who = data[o].user.who
                /\ data'[o].transitKey = data[o].transitKey
                /\ data'[o].etag = data[o].etag \/ "file" \in events
                /\ data'[o].user = data[o].user \/ data[o].user.by # Nobody
                /\ OwnConfig(data[o]) => spanned' \/ OwnConfig(data'[o])
                /\ OwnEtag(data[o]) => spanned' \/ visited' \/ OwnEtag(data'[o])
    BY <1>10
  <1>17. QED
    BY <1>9, <1>10, <1>11, <1>12, <1>13, <1>14, <1>15, <1>16, Steady

\* The first answer is an expired connection or another recoverable error: the
\* call connects anew, or finds nobody signed in.
LEMMA ReconnectApart ==
    ASSUME Apart, NEW c \in Calls, Reconnect(c)
    PROVE  Apart'
  <1>1. /\ TypeOK /\ Placed /\ People /\ CallInv(c) /\ Runs(c) /\ Holds(c)
        /\ call[c].is = "file" /\ call[c].phase = "running" /\ call[c] \in CallRecord
    BY StoreTyped DEF Apart, Reconnect, Running, Runs, Holds
  <1>2. CASE User = SignedOut
    BY <1>1, <1>2, FailsApart DEF Reconnect
  <1>3. CASE User # SignedOut
    <2> DEFINE from == Connecting("file", "reconnect").from
    <2> DEFINE x == [call[c] EXCEPT !.phase = "reconnect", !.hub = Nobody, !.from = from]
    <2>1. call' = [call EXCEPT ![c] = x] /\ Unwritten /\ Record({})
      BY <1>3 DEF Reconnect
    <2>2. "file" \in Kinds /\ "reconnect" \in Phases
      BY DEF Kinds, Phases
    <2>3. from \in UserData /\ from.by = User.by /\ from.who = User.who
      BY <1>1, <2>2, ConnectingTyped
    <2> HIDE DEF from
    <2>4. /\ x \in CallRecord /\ x.is = "file" /\ x.phase = "reconnect" /\ x.from = from
          /\ x.session = call[c].session /\ x.object = call[c].object
          /\ x.outcome = call[c].outcome /\ x.response = call[c].response
      BY <1>1, <2>2, <2>3 DEF CallRecord
    <2> HIDE DEF x
    <2>5. /\ call' \in [Calls -> CallRecord] /\ call'[c] = x
          /\ \A d \in Calls : d # c => call'[d] = call[d]
      BY <1>1, <2>1, <2>4 DEF TypeOK
    <2>6. User.by # Nobody /\ User \in Known
      BY <1>1, <1>3, StoreTyped DEF People
    <2>7. /\ kind' = kind /\ data' = data /\ current' = current /\ requests' = requests
          /\ spanned' = spanned /\ visited' = visited /\ User' = User
      BY <2>1 DEF Unwritten, User
    <2>8. seen'[c] = seen[c] /\ \A q \in Requests : since'[q] = since[q]
      <3> DEFINE events == {}
      <3>1. events \in SUBSET Event /\ Record(events) /\ Runs(c)'
        BY <2>1, <2>4, <2>5 DEF Runs
      <3> HIDE DEF events
      <3>2. /\ seen'[c] = seen[c] \cup events
            /\ \A q \in 1..requests : since'[q] = since[q] \cup events
            /\ \A q \in Requests : q > requests => since'[q] = {}
        BY <1>1, <2>7, <3>1, RecordedSame
      <3>3. \A q \in Requests : q > requests => since[q] = {}
        BY DEF Apart, KeysStored
      <3>4. seen'[c] = seen[c] /\ \A q \in 1..requests : since'[q] = since[q]
        BY <3>2 DEF events
      <3>5. QED
        BY <1>1, <3>2, <3>3, <3>4, StoreTyped
    <2>9. CallInv(c)'
      <3>1. Held(c)' = Held(c) /\ Holds(c)' /\ ~Uses(c)'
        BY <2>4, <2>5, <2>7 DEF Held, Holds, Uses
      <3>2. Began(c)'
        BY <1>1, <2>3, <2>4, <2>5, <2>6 DEF CallInv, Began, Connects, Kinds
      <3>3. SameUser(c)'
        BY <1>1, <2>4, <2>5, <2>7, <2>8, <3>1 DEF CallInv, SameUser
      <3>4. OfUser(c)'
        <4>1. Moved(c)' <=> Moved(c)
          BY <2>8 DEF Moved
        <4>2. QED
          BY <1>1, <2>3, <2>4, <2>5, <2>7, <3>1, <4>1 DEF CallInv, OfUser, OwnConfig, OwnEtag
      <3>5. SameCopy(c)'
        BY <1>1, <2>4, <2>5, <2>7, <2>8, <3>1 DEF CallInv, SameCopy
      <3>6. KeysRead(c)'
        BY <1>1, <2>4, <2>5, <2>8, <3>1 DEF CallInv, KeysRead
      <3>7. Refused(c)'
        <4>1. call[c].outcome = "none"
          BY <1>1 DEF CallInv, Began
        <4>2. QED
          BY <2>4, <2>5, <4>1 DEF Refused
      <3>8. QED
        BY <3>2, <3>3, <3>4, <3>5, <3>6, <3>7 DEF CallInv
    <2>10. kind = "live" => call'[c].object <= signOuts
      BY <1>1, <2>4, <2>5 DEF Placed
    <2>11. call[c].session.user \in Known
      BY <1>1, StoreTyped
    <2>12. ASSUME NEW u \in {call'[c].session.user, call'[c].from}
           PROVE  \/ u = SignedOut
                  \/ \E t \in Known : t.by = u.by /\ t.who = u.who /\ t.by # Nobody
      BY <1>1, <2>3, <2>4, <2>5, <2>6, <2>11, <2>12 DEF People
    <2>13. QED
      BY <1>1, <2>1, <2>5, <2>9, <2>10, <2>12, NothingWritten
  <1>4. QED
    BY <1>2, <1>3

----------------------------------------------------------------------------
(* Steps of the application. *)

\* A request is made: only transit keys change.
LEMMA RequestApart ==
    ASSUME Apart, NEW given \in BOOLEAN, MakeAuthRequest(given)
    PROVE  Apart'
  <1> DEFINE events == IF given THEN {"unstored"} ELSE {"request"}
  <1>1. TypeOK /\ Placed /\ People /\ SessionOfOneUser /\ KeysStored
    BY DEF Apart
  <1>2. /\ requests < MaxRequests /\ requests' = requests + 1
        /\ data' = IF given THEN data ELSE [data EXCEPT ![current].transitKey = requests + 1]
        /\ UNCHANGED <<kind, current, call, signOuts, spanned, visited>> /\ Record(events)
    BY DEF MakeAuthRequest
  <1>3. /\ requests \in Nat /\ requests' \in 0..MaxRequests /\ requests <= requests'
        /\ requests' \in Requests /\ requests' \in Nat
    BY <1>1, <1>2, StoreTyped, AuthSessionAssumption DEF Requests, TypeOK
  <1>4. events \in SUBSET Event /\ events # {} /\ Quiet(events) /\ "moved" \notin events
    BY DEF Event, Quiet
  <1>5. /\ data' \in [Objects -> SessionData]
        /\ \A o \in Objects : data'[o].user = data[o].user /\ data'[o].etag = data[o].etag
        /\ data'[current].transitKey
              = IF given THEN data[current].transitKey ELSE requests + 1
    <2>1. CASE given
      BY <1>1, <1>2, <2>1 DEF TypeOK
    <2>2. CASE ~given
      <3> DEFINE s == [data[current] EXCEPT !.transitKey = requests + 1]
      <3>1. /\ s \in SessionData /\ s.user = data[current].user
            /\ s.etag = data[current].etag /\ s.transitKey = requests + 1
        BY <1>1, <1>2, <1>3, StoreTyped DEF SessionData
      <3>2. data' = [data EXCEPT ![current] = s]
        BY <1>2, <2>2
      <3> HIDE DEF s
      <3>3. QED
        BY <1>1, <2>2, <3>1, <3>2 DEF TypeOK
    <2>3. QED
      BY <2>1, <2>2
  <1>6. User' = User
    BY <1>1, <1>2, <1>5 DEF User, TypeOK
  <1>7. News(events) = events
    BY <1>6 DEF News
  <1>8. given => "unstored" \in events
    OBVIOUS
  <1>9. ~given => events = {"request"}
    OBVIOUS
  <1>10. "signout" \notin events /\ "stale" \notin events
    OBVIOUS
  <1> HIDE DEF events
  <1>11. /\ seen' \in [Calls -> SUBSET Event] /\ since' \in [Requests -> SUBSET Event]
         /\ \A d \in Calls : Runs(d) /\ Runs(d)' => seen'[d] = seen[d] \cup events
         /\ \A q \in 1..requests : since'[q] = since[q] \cup events
         /\ \A q \in Requests : q > requests => since'[q] \subseteq {"unstored"}
         /\ \A q \in Requests : q > requests' => since'[q] = {}
         /\ \A q \in 1..requests' : q > requests /\ "unstored" \in events =>
                                        "unstored" \in since'[q]
    BY <1>1, <1>2, <1>3, <1>4, <1>7, Recorded
  <1>12. TypeOK'
    BY <1>1, <1>2, <1>3, <1>5, <1>11 DEF TypeOK
  <1>13. Placed'
    BY <1>1, <1>2 DEF Placed
  <1>14. People'
    <2>1. Known' = Known
      BY <1>2, <1>5 DEF Known
    <2>2. QED
      BY <1>1, <1>2, <2>1 DEF People
  <1>15. SessionOfOneUser'
    BY <1>1, <1>2, <1>5, <1>6 DEF SessionOfOneUser, TypeOK
  <1>16. KeysStored'
    <2>1. \A q \in 1..requests' : q \in 1..requests \/ q = requests'
      BY <1>2, <1>3
    <2>2. \A q \in Requests : q \in 1..requests \/ q > requests
      BY <1>1, StoreTyped
    <2>3. ASSUME NEW q \in 1..requests'
          PROVE  data'[current'].transitKey = q \/ since'[q] \cap Lost # {}
      <3>1. CASE given
        BY <1>1, <1>2, <1>3, <1>5, <1>8, <1>11, <2>1, <3>1 DEF KeysStored, Lost
      <3>2. CASE ~given
        BY <1>1, <1>2, <1>3, <1>5, <1>9, <1>11, <2>1, <3>2 DEF Lost
      <3>3. QED
        BY <3>1, <3>2
    <2>4. ASSUME NEW q \in Requests, data'[current'].transitKey = q, "signout" \in since'[q]
          PROVE  "stale" \in since'[q]
      <3>1. q \in 1..requests
        BY <1>11, <2>2, <2>4
      <3>2. given
        BY <1>2, <1>3, <1>5, <2>4, <3>1
      <3>3. QED
        BY <1>1, <1>2, <1>5, <1>10, <1>11, <2>4, <3>1, <3>2 DEF KeysStored
    <2>5. ASSUME NEW q \in Requests, kind' = "live", "stale" \in since'[q]
          PROVE  signOuts' > 0
      BY <1>1, <1>2, <1>10, <1>11, <2>2, <2>5 DEF KeysStored
    <2>6. QED
      BY <1>11, <2>3, <2>4, <2>5 DEF KeysStored
  <1>17. ASSUME NEW d \in Calls PROVE CallInv(d)'
    <2>1. CallInv(d) /\ call'[d] = call[d] /\ kind' = kind /\ call[d].object \in Objects
      BY <1>1, <1>2, StoreTyped DEF Apart
    <2>2. Runs(d) => seen'[d] = seen[d] \cup events
      BY <1>11, <2>1 DEF Runs
    <2>3. data'[call[d].object].user.by = data[call[d].object].user.by
      BY <1>5, <2>1
    <2>4. LET now == data[call[d].object]  next == data'[call[d].object] IN
          /\ (spanned \/ OwnConfig(now)) => (spanned' \/ OwnConfig(next))
          /\ (spanned \/ visited \/ OwnEtag(now)) => (spanned' \/ visited' \/ OwnEtag(next))
      BY <1>2, <1>5, <2>1 DEF OwnConfig, OwnEtag
    <2>5. QED
      BY <1>1, <1>2, <1>3, <1>4, <1>6, <1>11, <2>1, <2>2, <2>3, <2>4, OtherCall
  <1>18. QED
    BY <1>12, <1>13, <1>14, <1>15, <1>16, <1>17 DEF Apart

\* The user signs out: what calls still have in hand is the session of someone
\* else, or of nobody.
LEMMA SignOutApart ==
    ASSUME Apart, SignUserOut
    PROVE  Apart'
  <1> DEFINE news == News({"signout"})
  <1>1. TypeOK /\ Placed /\ People /\ KeysStored
    BY DEF Apart
  <1>2. /\ signOuts < MaxSignOuts /\ signOuts' = signOuts + 1
        /\ spanned' = FALSE /\ visited' = FALSE
        /\ UNCHANGED <<kind, call, requests>> /\ Record({"signout"})
        /\ current' = IF kind = "live" THEN signOuts + 1 ELSE current
        /\ data' = [data EXCEPT ![current'] = NewSession]
    BY DEF SignUserOut, DeleteSessionData
  <1>3. /\ signOuts \in Nat /\ signOuts' \in Objects /\ current' \in Objects
        /\ signOuts' \in 0..MaxSignOuts /\ signOuts' > 0
        /\ requests' \in 0..MaxRequests /\ requests <= requests' /\ requests \in Nat
        /\ requests' \in Nat
    BY <1>1, <1>2, StoreTyped, AuthSessionAssumption DEF TypeOK, Objects
  <1>4. /\ data' \in [Objects -> SessionData] /\ data'[current'] = NewSession
        /\ \A o \in Objects : data'[o] \in {data[o], NewSession}
        /\ \A o \in Objects : o # current' => data'[o] = data[o]
    BY <1>1, <1>2, <1>3, NewSessionTyped DEF TypeOK
  <1>5. User' = SignedOut
    BY <1>4, NewSessionTyped DEF User
  <1>6. {"signout"} \in SUBSET Event
    BY DEF Event
  <1>7. /\ news \in SUBSET Event /\ "signout" \in news /\ news \subseteq {"signout", "user"}
        /\ seen' \in [Calls -> SUBSET Event] /\ since' \in [Requests -> SUBSET Event]
        /\ \A d \in Calls : Runs(d) /\ Runs(d)' => seen'[d] = seen[d] \cup news
        /\ \A q \in 1..requests : since'[q] = since[q] \cup news
        /\ \A q \in Requests : q > requests => since'[q] \subseteq {"unstored"}
        /\ \A q \in Requests : q > requests' => since'[q] = {}
    BY <1>1, <1>2, <1>3, <1>6, Recorded, ZenonT(30)
  <1> HIDE DEF news
  <1>8. ~Quiet(news) /\ news # {} /\ "moved" \notin news
    BY <1>7 DEF Quiet
  <1>9. TypeOK'
    BY <1>1, <1>2, <1>3, <1>4, <1>7 DEF TypeOK
  <1>10. Placed'
    <2>1. \A c \in Calls : kind = "live" => call[c].object <= signOuts + 1
      BY <1>1, <1>3, StoreTyped DEF Placed, Objects
    <2>2. kind = "copy" => current' = 0
      BY <1>1, <1>2 DEF Placed
    <2>3. kind = "live" => current' <= signOuts'
      BY <1>2, <1>3
    <2>4. call' = call /\ kind' = kind /\ signOuts' = signOuts + 1
      BY <1>2
    <2>5. QED
      BY <2>1, <2>2, <2>3, <2>4 DEF Placed
  <1>11. People'
    <2>1. ASSUME NEW u \in Known'
          PROVE  \/ u = SignedOut
                 \/ \E t \in Known : t.by = u.by /\ t.who = u.who /\ t.by # Nobody
      <3>1. u \in Known \/ u = SignedOut
        BY <1>2, <1>4, NewSessionTyped DEF Known
      <3>2. QED
        BY <1>1, <3>1 DEF People
    <2>2. QED
      BY <1>1, <1>2, <2>1, PeopleKept
  <1>12. SessionOfOneUser'
    BY <1>4, <1>5, NewSessionTyped DEF SessionOfOneUser
  <1>13. KeysStored'
    BY <1>1, <1>2, <1>3, <1>4, <1>7, NewSessionTyped DEF KeysStored, Requests, NoKey, Lost
  <1>14. ASSUME NEW d \in Calls PROVE CallInv(d)'
    <2>1. CallInv(d) /\ call'[d] = call[d] /\ kind' = kind /\ call[d].object \in Objects
      BY <1>1, <1>2, StoreTyped DEF Apart
    <2>2. Runs(d) => seen'[d] = seen[d] \cup news
      BY <1>7, <2>1 DEF Runs
    <2>3. data'[call[d].object].user.by \in {data[call[d].object].user.by, User'.by}
      BY <1>4, <1>5, <2>1, NewSessionTyped
    <2>4. QED
      BY <1>1, <1>3, <1>7, <1>8, <2>1, <2>2, <2>3, OtherCall
  <1>15. QED
    BY <1>9, <1>10, <1>11, <1>12, <1>13, <1>14 DEF Apart

----------------------------------------------------------------------------
(* Calls that write the session they have in hand. *)

\* Where the session that is written takes its place.
LEMMA Stored ==
    ASSUME TypeOK, NEW c \in Calls, NEW s \in SessionData, SetSessionData(c, s)
    PROVE  /\ current' = (IF kind = "live" THEN call[c].object ELSE 0)
           /\ current' \in Objects
           /\ data' \in [Objects -> SessionData] /\ data'[current'] = s
           /\ \A o \in Objects : o # current' => data'[o] = data[o]
           /\ User' = s.user
  <1>1. current' = (IF kind = "live" THEN call[c].object ELSE 0) /\ data' = [data EXCEPT ![current'] = s]
    BY DEF SetSessionData
  <1>2. current' \in Objects
    BY <1>1, StoreTyped, AuthSessionAssumption DEF Objects
  <1>3. /\ data' \in [Objects -> SessionData] /\ data'[current'] = s
        /\ \A o \in Objects : o # current' => data'[o] = data[o]
    BY <1>1, <1>2 DEF TypeOK
  <1>4. QED
    BY <1>1, <1>2, <1>3 DEF User

\* A call ends with the session it had in hand, changed: the key in it is the one
\* it read, and a change of user is told.
LEMMA WriteApart ==
    ASSUME Apart, NEW c \in Calls, Holds(c), NEW s \in SessionData, SetSessionData(c, s),
           NEW events \in SUBSET {"file"}, NEW outcome \in {"ok", "deleted"},
           Resolve(c, outcome, events), People',
           s.transitKey = Held(c).transitKey,
           s.user = Held(c).user \/ s.user.by # User.by,
           events # {} \/ s.user.by # User.by,
           spanned \/ Moved(c) \/ OwnConfig(s),
           spanned \/ visited \/ Moved(c) \/ OwnEtag(s)
    PROVE  Apart'
  <1> DEFINE all == events \cup (IF Stale(c) THEN {"stale"} ELSE {})
  <1> DEFINE news == News(all)
  <1>1. /\ TypeOK /\ Placed /\ People /\ KeysStored /\ CallInv(c) /\ outcome \in Outcomes
        /\ call[c].phase # "done" /\ Runs(c)
    BY DEF Apart, Outcomes, Holds, Runs
  <1>2. /\ Done(c, outcome) /\ spanned' = (spanned \/ Moved(c)) /\ visited' = visited
        /\ UNCHANGED <<kind, requests, signOuts>> /\ Record(all)
    BY DEF Resolve
  <1>3. /\ current' = (IF kind = "live" THEN call[c].object ELSE 0) /\ current' \in Objects
        /\ data' \in [Objects -> SessionData] /\ data'[current'] = s
        /\ \A o \in Objects : o # current' => data'[o] = data[o]
        /\ User' = s.user
    BY <1>1, Stored
  <1>4. /\ call' \in [Calls -> CallRecord] /\ call'[c].phase = "done"
        /\ call'[c].outcome = outcome /\ call'[c].object = 0
        /\ \A d \in Calls : d # c => call'[d] = call[d]
    BY <1>1, <1>2, DoneOver
  <1>5. /\ requests' \in 0..MaxRequests /\ requests <= requests' /\ requests \in Nat
        /\ signOuts \in Nat /\ requests' \in Nat /\ requests' = requests
        /\ \A q \in Requests : q \in 1..requests \/ q > requests
    BY <1>1, <1>2, StoreTyped DEF TypeOK
  <1>6. all \in SUBSET Event /\ ("stale" \in all <=> Stale(c)) /\ events \subseteq all
        /\ all \subseteq {"file", "stale"}
    BY DEF Event
  <1> HIDE DEF all
  <1>7. /\ news \in SUBSET Event /\ all \subseteq news /\ news \subseteq all \cup {"user"}
        /\ User'.by = User.by \/ "user" \in news
        /\ seen' \in [Calls -> SUBSET Event] /\ since' \in [Requests -> SUBSET Event]
        /\ \A d \in Calls : Runs(d) /\ Runs(d)' => seen'[d] = seen[d] \cup news
        /\ \A q \in 1..requests : since'[q] = since[q] \cup news
        /\ \A q \in Requests : q > requests => since'[q] \subseteq {"unstored"}
        /\ \A q \in Requests : q > requests' => since'[q] = {}
    BY <1>1, <1>2, <1>5, <1>6, Recorded
  <1>8. /\ "signout" \notin news /\ ("stale" \in news <=> Stale(c)) /\ news # {}
        /\ "moved" \notin news /\ (Quiet(news) => User'.by = User.by)
    BY <1>3, <1>6, <1>7 DEF Quiet
  <1> HIDE DEF news
  <1>9. TypeOK'
    BY <1>1, <1>2, <1>3, <1>4, <1>7 DEF TypeOK
  <1>10. Placed'
    BY <1>1, <1>2, <1>3, <1>4, <1>5 DEF Placed
  <1>11. (spanned' \/ OwnConfig(s)) /\ (spanned' \/ visited' \/ OwnEtag(s))
    BY <1>2
  <1>12. SessionOfOneUser'
    BY <1>3, <1>11 DEF SessionOfOneUser, OwnConfig, OwnEtag
  <1>13. ~Stale(c) => s.transitKey = data[current].transitKey
    <2>1. SUFFICES ASSUME ~Stale(c) PROVE Held(c).transitKey = data[current].transitKey
      OBVIOUS
    <2>2. CASE kind = "live"
      BY <2>1, <2>2 DEF Stale, Held
    <2>3. CASE kind = "copy"
      <3>1. seen[c] \subseteq {"moved"}
        BY <2>1, <2>3 DEF Stale
      <3>2. QED
        BY <1>1, <2>3, <3>1 DEF Held, CallInv, SameCopy
    <2>4. QED
      BY <1>1, <2>2, <2>3 DEF TypeOK
  <1>14. KeysStored'
    <2>1. ASSUME NEW q \in 1..requests'
          PROVE  data'[current'].transitKey = q \/ since'[q] \cap Lost # {}
      <3>1. CASE Stale(c)
        BY <1>5, <1>7, <1>8, <3>1 DEF Lost
      <3>2. CASE ~Stale(c)
        BY <1>1, <1>3, <1>5, <1>7, <1>13, <3>2 DEF KeysStored
      <3>3. QED
        BY <3>1, <3>2
    <2>2. ASSUME NEW q \in Requests, data'[current'].transitKey = q, "signout" \in since'[q]
          PROVE  "stale" \in since'[q]
      <3>1. q \in 1..requests
        BY <1>5, <1>7, <2>2
      <3>2. "signout" \in since[q]
        BY <1>7, <1>8, <2>2, <3>1
      <3>3. CASE Stale(c)
        BY <1>7, <1>8, <3>1, <3>3
      <3>4. CASE ~Stale(c)
        BY <1>1, <1>3, <1>7, <1>13, <2>2, <3>1, <3>2, <3>4 DEF KeysStored
      <3>5. QED
        BY <3>3, <3>4
    <2>3. ASSUME NEW q \in Requests, kind' = "live", "stale" \in since'[q]
          PROVE  signOuts' > 0
      <3>1. q \in 1..requests
        BY <1>5, <1>7, <2>3
      <3>2. CASE "stale" \in since[q]
        BY <1>1, <1>2, <2>3, <3>2 DEF KeysStored
      <3>3. CASE "stale" \in news
        <4>1. call[c].object # current /\ call[c].object <= signOuts /\ current <= signOuts
          BY <1>1, <1>2, <1>8, <2>3, <3>3 DEF Stale, Placed
        <4>2. call[c].object \in Nat /\ current \in Nat
          BY <1>1, StoreTyped, AuthSessionAssumption DEF Objects
        <4>3. QED
          BY <1>2, <1>5, <4>1, <4>2
      <3>4. QED
        BY <1>7, <2>3, <3>1, <3>2, <3>3
    <2>4. QED
      BY <1>7, <2>1, <2>2, <2>3 DEF KeysStored
  <1>15. ASSUME NEW d \in Calls, d # c PROVE CallInv(d)'
    <2>1. CallInv(d) /\ call'[d] = call[d] /\ kind' = kind /\ call[d].object \in Objects
      BY <1>1, <1>2, <1>4, <1>15, StoreTyped DEF Apart
    <2>2. Runs(d) => seen'[d] = seen[d] \cup news
      BY <1>7, <2>1 DEF Runs
    <2>3. data'[call[d].object].user.by \in {data[call[d].object].user.by, User'.by}
      BY <1>3, <2>1
    <2>4. kind = "live" =>
            LET now == data[call[d].object]  next == data'[call[d].object] IN
            /\ (spanned \/ OwnConfig(now)) => (spanned' \/ OwnConfig(next))
            /\ (spanned \/ visited \/ OwnEtag(now)) => (spanned' \/ visited' \/ OwnEtag(next))
      BY <1>2, <1>3, <1>11, <2>1
    <2>5. Quiet(news) => User'.by = User.by /\ User'.who = User.who
      <3>1. Held(c).user \in Known /\ User \in Known
        BY <1>1, StoreTyped
      <3>2. QED
        BY <1>1, <1>3, <1>8, <3>1 DEF People
    <2>6. QED
      BY <1>1, <1>2, <1>5, <1>7, <1>8, <2>1, <2>2, <2>3, <2>4, <2>5, OtherCall
  <1>16. CallInv(c)'
    BY <1>4, OverInv
  <1>17. QED
    BY <1>9, <1>10, <1>12, <1>14, <1>15, <1>16 DEF Apart

\* A put or a deletion ends: it writes the user it finds in the session it read,
\* and the etag of its file, if it is of this path.
LEMMA FileWritten ==
    ASSUME Apart, NEW c \in Calls, call[c].is = "file", Answered(c),
           NEW etag \in {Nobody, call[c].hub, Held(c).etag},
           SetSessionData(c, [Held(c) EXCEPT !.etag = etag]),
           NEW outcome \in {"ok", "deleted"}, Resolve(c, outcome, {"file"})
    PROVE  Apart'
  <1>1. /\ TypeOK /\ People /\ CallInv(c) /\ Runs(c) /\ Holds(c) /\ Uses(c)
        /\ call[c].phase # "done" /\ outcome \in Outcomes /\ call[c] \in CallRecord
    BY StoreTyped DEF Apart, Answered, Runs, Holds, Uses, Outcomes
  <1>2. /\ Held(c) \in SessionData /\ Held(c).user \in Known
        /\ User \in Known
    BY <1>1, StoreTyped
  <1>3. etag \in {Nobody} \cup Users
    BY <1>1, <1>2, SessionParts, CallParts
  <1> DEFINE s == [Held(c) EXCEPT !.etag = etag]
  <1>4. /\ s \in SessionData /\ s.user = Held(c).user /\ s.etag = etag
        /\ s.transitKey = Held(c).transitKey
    BY <1>2, <1>3 DEF SessionData
  <1>5. SetSessionData(c, s)
    OBVIOUS
  <1> HIDE DEF s
  <1>6. /\ data' \in [Objects -> SessionData] /\ data'[current'] = s
        /\ \A o \in Objects : o # current' => data'[o] = data[o]
    BY <1>1, <1>4, <1>5, Stored
  <1>7. /\ call'[c].session = NewSession /\ call'[c].from = SignedOut
        /\ call'[c].phase = "done"
        /\ \A d \in Calls : d # c => call'[d] = call[d]
    BY <1>1, DoneOver DEF Resolve
  <1>8. People'
    <2>1. ASSUME NEW u \in Known'
          PROVE  \/ u = SignedOut
                 \/ \E t \in Known : t.by = u.by /\ t.who = u.who /\ t.by # Nobody
      <3>1. u \in Known \/ u = SignedOut
        BY <1>2, <1>4, <1>6, <1>7, NewSessionTyped DEF Known
      <3>2. QED
        BY <1>1, <3>1 DEF People
    <2>2. \A d \in Calls : call[d].phase = "done" => call'[d].phase = "done"
      BY <1>7
    <2>3. QED
      BY <1>1, <2>1, <2>2, PeopleKept
  <1>9. ASSUME ~spanned, ~Moved(c)
        PROVE  OwnConfig(s) /\ (visited \/ OwnEtag(s))
    <2>1. /\ OwnConfig(Held(c)) /\ (visited \/ OwnEtag(Held(c)))
          /\ call[c].hub = User.who
      BY <1>1, <1>9 DEF CallInv, OfUser
    <2>2. Held(c).user.by = User.by
      BY <1>1, <1>9 DEF CallInv, SameUser, Moved
    <2>3. Held(c).user.who = User.who
      BY <1>1, <1>2, <2>2 DEF People
    <2>4. QED
      BY <1>4, <2>1, <2>3 DEF OwnConfig, OwnEtag
  <1>10. {"file"} \in SUBSET {"file"} /\ {"file"} # {}
    OBVIOUS
  <1> DEFINE events == {"file"}
  <1>11. events \in SUBSET {"file"} /\ events # {} /\ Resolve(c, outcome, events)
    OBVIOUS
  <1> HIDE DEF events
  <1>12. QED
    BY <1>1, <1>4, <1>5, <1>8, <1>9, <1>11, WriteApart

\* A put ends.
LEMMA PutDoneApart ==
    ASSUME Apart, NEW c \in Calls, PutDone(c)
    PROVE  Apart'
  <1>1. PICK etag \in {call[c].hub, Held(c).etag} :
            SetSessionData(c, [Held(c) EXCEPT !.etag = etag])
    BY DEF PutDone
  <1>2. call[c].is = "file" /\ Answered(c) /\ Resolve(c, "ok", {"file"})
    BY DEF PutDone
  <1>3. "ok" \in {"ok", "deleted"} /\ etag \in {Nobody, call[c].hub, Held(c).etag}
    OBVIOUS
  <1>4. QED
    BY <1>1, <1>2, <1>3, FileWritten

\* A deletion ends.
LEMMA DeleteDoneApart ==
    ASSUME Apart, NEW c \in Calls, DeleteDone(c)
    PROVE  Apart'
  <1>1. /\ call[c].is = "file" /\ Answered(c) /\ Resolve(c, "deleted", {"file"})
        /\ SetSessionData(c, [Held(c) EXCEPT !.etag = Nobody])
    BY DEF DeleteDone
  <1>2. "deleted" \in {"ok", "deleted"} /\ Nobody \in {Nobody, call[c].hub, Held(c).etag}
    OBVIOUS
  <1>3. QED
    BY <1>1, <1>2, FileWritten

\* A sign-in ends: it is the first to write its user.
LEMMA EndSignInApart ==
    ASSUME Apart, NEW c \in Calls, EndSignIn(c)
    PROVE  Apart'
  <1>1. /\ Runs(c) /\ Holds(c) /\ call[c].is = "signin" /\ TypeOK /\ People /\ CallInv(c)
        /\ call[c].phase # "done" /\ "ok" \in Outcomes
        /\ AppPrivateKey(c) \notin {"missing", "changed"}
    BY DEF EndSignIn, Running, Runs, Holds, Apart, Outcomes
  <1>2. PICK profile \in ProfileOf(call[c].response) : SetSessionData(c, SignedIn(c, profile))
    BY DEF EndSignIn
  <1> DEFINE events == {}
  <1>3. Resolve(c, "ok", events) /\ events \in SUBSET {"file"}
    BY DEF EndSignIn
  <1> HIDE DEF events
  <1>4. Held(c) \in SessionData /\ Held(c).user \in Known /\ User \in Known
    BY <1>1, StoreTyped
  <1> DEFINE user == [by |-> c, who |-> call[c].response.who, key |-> AppPrivateKey(c),
                      profile |-> profile, config |-> Nobody]
  <1> DEFINE s == [Held(c) EXCEPT !.user = user]
  <1>5. user \in UserData
    <2>1. /\ call[c].response \in Response /\ call[c].response.who \in Users
          /\ call[c].response.profile \in {"given", "url", "none"}
      BY <1>1 DEF CallInv, Began, Response
    <2>2. profile \in {"given", "fetched", "blank", "none"}
      BY <1>2, <2>1 DEF ProfileOf
    <2>3. AppPrivateKey(c) \in {"none", "own"}
      BY <1>1 DEF AppPrivateKey
    <2>4. QED
      BY <2>1, <2>2, <2>3 DEF UserData
  <1>6. user.by = c /\ user.config = Nobody /\ user.who = call[c].response.who
    OBVIOUS
  <1> HIDE DEF user
  <1>7. /\ s \in SessionData /\ s.user = user /\ s.etag = Held(c).etag
        /\ s.transitKey = Held(c).transitKey
    BY <1>4, <1>5 DEF SessionData
  <1>8. SetSessionData(c, s)
    BY <1>2 DEF SignedIn, user
  <1> HIDE DEF s
  <1>9. /\ data' \in [Objects -> SessionData] /\ data'[current'] = s
        /\ \A o \in Objects : o # current' => data'[o] = data[o]
    BY <1>1, <1>7, <1>8, Stored
  <1>10. /\ call'[c].phase = "done" /\ call'[c].session = NewSession
         /\ call'[c].from = SignedOut
         /\ \A d \in Calls : d # c => call'[d] = call[d]
    BY <1>1, <1>3, DoneOver DEF Resolve
  <1>11. c # Nobody
    BY AuthSessionAssumption
  <1>12. \A t \in Known : t.by # c /\ t.by \in {Nobody} \cup Calls
    <2>1. \A t \in Known : t.by \in {Nobody} \cup Calls
      BY <1>1, StoreTyped DEF UserData
    <2>2. QED
      BY <1>1, <1>11, <2>1 DEF People
  <1>13. People'
    <2>1. \A t \in Known' : t \in Known \/ t = SignedOut \/ t = user
      BY <1>7, <1>9, <1>10, NewSessionTyped DEF Known
    <2>2. ASSUME NEW t \in Known', t.by = Nobody \/ t.who = Nobody PROVE t = SignedOut
      <3>1. user.by # Nobody /\ user.who # Nobody
        BY <1>1, <1>6, <1>11, AuthSessionAssumption DEF CallInv, Began, Response
      <3>2. QED
        BY <1>1, <2>1, <2>2, <3>1 DEF People
    <2>3. ASSUME NEW t \in Known', t.by # Nobody PROVE call'[t.by].phase = "done"
      <3>1. CASE t = user
        BY <1>6, <1>10, <3>1
      <3>2. CASE t \in Known
        <4>1. t.by \in Calls /\ t.by # c /\ call[t.by].phase = "done"
          BY <1>1, <1>12, <2>3, <3>2 DEF People
        <4>2. QED
          BY <1>10, <4>1
      <3>3. QED
        BY <2>1, <2>3, <3>1, <3>2, NewSessionTyped
    <2>4. ASSUME NEW t \in Known', NEW u \in Known', t.by = u.by PROVE t.who = u.who
      <3>1. CASE t.by = Nobody
        BY <2>2, <2>4, <3>1
      <3>2. CASE t.by # Nobody
        BY <1>1, <1>6, <1>12, <2>1, <2>4, <3>2, NewSessionTyped DEF People
      <3>3. QED
        BY <3>1, <3>2
    <2>5. QED
      BY <2>2, <2>3, <2>4 DEF People
  <1>14. s.user.by # User.by
    BY <1>4, <1>6, <1>7, <1>12
  <1>15. ASSUME ~spanned, ~Moved(c) PROVE OwnConfig(s) /\ (visited \/ OwnEtag(s))
    <2>1. Held(c).user.by = Nobody
      BY <1>1, <1>15 DEF CallInv, SameUser, Moved
    <2>2. Held(c).user.who = Nobody
      BY <1>1, <1>4, <2>1, NewSessionTyped DEF People
    <2>3. visited \/ OwnEtag(Held(c))
      BY <1>1, <1>15 DEF CallInv, OfUser
    <2>4. QED
      BY <1>6, <1>7, <2>2, <2>3 DEF OwnConfig, OwnEtag
  <1>16. "ok" \in {"ok", "deleted"}
    OBVIOUS
  <1>17. QED
    BY <1>1, <1>3, <1>7, <1>8, <1>13, <1>14, <1>15, <1>16, WriteApart

----------------------------------------------------------------------------
(* Calls that write the session in the store. *)

\* getFile ends: the etag of the file that was read is in the session.
LEMMA ReadDoneApart ==
    ASSUME Apart, NEW c \in Calls, ReadDone(c)
    PROVE  Apart'
  <1> DEFINE s == [data[current] EXCEPT !.etag = call[c].hub]
  <1> DEFINE events == {"file"}
  <1>1. /\ TypeOK /\ CallInv(c) /\ Runs(c) /\ call[c].phase # "done" /\ "ok" \in Outcomes
        /\ Answered(c) /\ call[c].is \in {"read", "visit"} /\ call[c] \in CallRecord
    BY StoreTyped DEF Apart, ReadDone, Answered, Runs, Outcomes
  <1>2. /\ data[current] \in SessionData /\ current \in Objects /\ User = data[current].user
        /\ call[c].hub \in {Nobody} \cup Users
    BY <1>1, StoreTyped, CallParts
  <1>3. /\ s \in SessionData /\ s.user = data[current].user /\ s.etag = call[c].hub
        /\ s.transitKey = data[current].transitKey
    BY <1>2 DEF SessionData
  <1>4. data' = [data EXCEPT ![current] = s]
    BY DEF ReadDone
  <1> HIDE DEF s
  <1>5. /\ data' \in [Objects -> SessionData] /\ data'[current] = s
        /\ \A o \in Objects : o # current => data'[o] = data[o]
    BY <1>1, <1>2, <1>3, <1>4 DEF TypeOK
  <1>6. /\ UNCHANGED <<kind, current, requests, signOuts>> /\ Done(c, "ok")
        /\ spanned' = (spanned \/ (call[c].is = "read" /\ Moved(c)))
        /\ visited' = (visited \/ (call[c].is = "visit" /\ call[c].hub # User.who))
        /\ Record(events)
    BY DEF ReadDone
  <1>7. User' = User
    BY <1>2, <1>3, <1>5, <1>6 DEF User
  <1>8. /\ call' \in [Calls -> CallRecord] /\ \A d \in Calls : d # c => call'[d] = call[d]
        /\ call'[c].phase = "done" /\ call'[c].outcome = "ok"
        /\ call'[c].session = NewSession /\ call'[c].object = 0 /\ call'[c].from = SignedOut
    BY <1>1, <1>6, DoneOver
  <1>9. events \in SUBSET Event /\ events \in SUBSET {"file"} /\ "file" \in events
    BY DEF Event
  <1> HIDE DEF events
  <1>10. /\ seen' \in [Calls -> SUBSET Event] /\ since' \in [Requests -> SUBSET Event]
         /\ \A d \in Calls : Runs(d) /\ Runs(d)' => seen'[d] = seen[d] \cup events
         /\ \A q \in 1..requests : since'[q] = since[q] \cup events
         /\ \A q \in Requests : q > requests => since'[q] = {}
    BY <1>1, <1>6, <1>7, <1>9, RecordedSame
  <1>11. \A d \in Calls : d # c /\ Runs(d) => seen'[d] = seen[d] \cup events
    BY <1>8, <1>10 DEF Runs
  <1>12. /\ spanned' \in BOOLEAN /\ visited' \in BOOLEAN
         /\ spanned => spanned'
         /\ visited => visited'
    BY <1>1, <1>6 DEF TypeOK
  <1>13. spanned' \/ visited' \/ OwnEtag(s)
    <2>1. CASE call[c].is = "visit"
      BY <1>2, <1>3, <1>6, <2>1 DEF OwnEtag
    <2>2. CASE call[c].is = "read"
      <3>1. ~Moved(c) => spanned \/ call[c].hub = User.who
        BY <1>1, <2>2 DEF CallInv, OfUser, Uses, Answered
      <3>2. QED
        BY <1>2, <1>3, <1>6, <2>2, <3>1 DEF OwnEtag
    <2>3. QED
      BY <1>1, <2>1, <2>2
  <1>14. ASSUME NEW o \in Objects
         PROVE  /\ data'[o].user.by = data[o].user.by /\ data'[o].user.who = data[o].user.who
                /\ data'[o].transitKey = data[o].transitKey
                /\ data'[o].etag = data[o].etag \/ "file" \in events
                /\ data'[o].user = data[o].user \/ data[o].user.by # Nobody
                /\ OwnConfig(data[o]) => spanned' \/ OwnConfig(data'[o])
                /\ OwnEtag(data[o]) => spanned' \/ visited' \/ OwnEtag(data'[o])
    BY <1>3, <1>5, <1>9, <1>13 DEF OwnConfig
  <1>15. CallInv(c)'
    BY <1>8, OverInv
  <1>16. kind = "live" => call'[c].object <= signOuts
    BY <1>1, <1>8, StoreTyped
  <1>17. QED
    BY <1>1, <1>5, <1>6, <1>8, <1>9, <1>10, <1>11, <1>12, <1>14, <1>15, <1>16,
       NewSessionTyped, Steady

\* What is done to the user data that was read: the hub connection of its user
\* is put into every session of the same sign-in.
LEMMA OwnData ==
    ASSUME Apart, NEW c \in Calls, Connects(c)
    PROVE  /\ OwnUserData(c) \in [Objects -> SessionData]
           /\ \A o \in Objects :
                \/ OwnUserData(c)[o] = data[o]
                \/ /\ OwnUserData(c)[o] = [data[o] EXCEPT !.user = Configured(@, c)]
                   /\ data[o].user.by = call[c].from.by
           /\ call[c].from.by # Nobody /\ call[c].from.who \in {Nobody} \cup Users
  <1>1. TypeOK /\ call[c].from.by # Nobody
    BY DEF Apart, CallInv, Began, Connects, Runs
  <1>2. call[c].from.who \in {Nobody} \cup Users
    BY <1>1, StoreTyped DEF UserData
  <1>3. ASSUME NEW o \in Objects PROVE [data[o] EXCEPT !.user = Configured(@, c)] \in SessionData
    <2>1. data[o] \in SessionData /\ data[o].user \in UserData
      BY <1>1, StoreTyped, SessionParts
    <2>2. Configured(data[o].user, c) \in UserData
      BY <1>2, <2>1 DEF Configured, UserData
    <2>3. QED
      BY <2>1, <2>2 DEF SessionData
  <1>4. CASE kind = "copy"
    BY <1>1, <1>2, <1>4 DEF OwnUserData, TypeOK
  <1>5. CASE kind # "copy"
    <2>1. OwnUserData(c) = [o \in Objects |->
                IF data[o].user.by = call[c].from.by
                THEN [data[o] EXCEPT !.user = Configured(@, c)] ELSE data[o]]
      BY <1>5 DEF OwnUserData
    <2>2. \A o \in Objects : data[o] \in SessionData
      BY <1>1 DEF TypeOK
    <2>3. QED
      BY <1>1, <1>2, <1>3, <2>1, <2>2
  <1>6. QED
    BY <1>4, <1>5

\* A session whose user is connected to a hub.
LEMMA ConnectedParts ==
    ASSUME NEW c \in Calls, NEW s \in SessionData, call[c].from.who \in {Nobody} \cup Users
    PROVE  LET t == [s EXCEPT !.user = Configured(@, c)] IN
           /\ t \in SessionData /\ t.user.by = s.user.by /\ t.user.who = s.user.who
           /\ t.etag = s.etag /\ t.transitKey = s.transitKey
           /\ t.user.config = call[c].from.who
  <1>1. s.user \in UserData
    BY SessionParts
  <1> DEFINE u == Configured(s.user, c)
  <1>2. /\ u \in UserData /\ u.by = s.user.by /\ u.who = s.user.who
        /\ u.config = call[c].from.who
    BY <1>1 DEF Configured, UserData
  <1> HIDE DEF u
  <1>3. [s EXCEPT !.user = Configured(@, c)] = [s EXCEPT !.user = u]
    BY DEF u
  <1>4. QED
    BY <1>2, <1>3 DEF SessionData

\* What a connection writes: the hub connection of its user, into the user data
\* that was read, and into the one that is in the store now.
LEMMA ConnectWrites ==
    ASSUME Apart, NEW c \in Calls, ConnectAfterSignOut(c) \/ EndConnect(c)
    PROVE  /\ data' \in [Objects -> SessionData] /\ spanned' \in BOOLEAN
           /\ spanned => spanned'
           /\ visited' = visited /\ visited \in BOOLEAN /\ User'.by = User.by /\ User'.who = User.who
           /\ \A o \in Objects :
                /\ data'[o].user.by = data[o].user.by /\ data'[o].user.who = data[o].user.who
                /\ data'[o].transitKey = data[o].transitKey /\ data'[o].etag = data[o].etag
                /\ data'[o].user = data[o].user \/ data[o].user.by # Nobody
                /\ OwnConfig(data[o]) => spanned' \/ OwnConfig(data'[o])
                /\ OwnEtag(data[o]) => spanned' \/ visited' \/ OwnEtag(data'[o])
  <1> DEFINE own == OwnUserData(c)
  <1>1. /\ Connects(c) /\ TypeOK /\ People /\ current' = current /\ visited' = visited
        /\ spanned \in BOOLEAN /\ visited \in BOOLEAN
    BY DEF ConnectAfterSignOut, EndConnect, Apart, TypeOK
  <1>2. /\ own \in [Objects -> SessionData]
        /\ \A o \in Objects :
                \/ own[o] = data[o]
                \/ /\ own[o] = [data[o] EXCEPT !.user = Configured(@, c)]
                   /\ data[o].user.by = call[c].from.by
        /\ call[c].from.by # Nobody /\ call[c].from.who \in {Nobody} \cup Users
    BY <1>1, OwnData
  <1>3. /\ current \in Objects /\ data[current].user \in Known /\ User = data[current].user
        /\ \A o \in Objects : data[o] \in SessionData /\ data[o].user \in Known
        /\ call[c].from \in Known
    BY <1>1, StoreTyped
  <1>4. \/ data' = own /\ spanned' = spanned
        \/ /\ data' = [own EXCEPT ![current].user = Configured(@, c)]
           /\ User # SignedOut /\ spanned' = (spanned \/ User.by # call[c].from.by)
    BY DEF ConnectAfterSignOut, EndConnect
  <1> HIDE DEF own
  <1>5. ASSUME NEW o \in Objects
        PROVE  \/ own[o] = data[o]
               \/ /\ own[o].user.by = data[o].user.by /\ own[o].user.who = data[o].user.who
                  /\ own[o].etag = data[o].etag /\ own[o].transitKey = data[o].transitKey
                  /\ own[o].user.config = call[c].from.who
                  /\ data[o].user.by = call[c].from.by
    <2> DEFINE t == [data[o] EXCEPT !.user = Configured(@, c)]
    <2>1. /\ t.user.by = data[o].user.by /\ t.user.who = data[o].user.who
          /\ t.etag = data[o].etag /\ t.transitKey = data[o].transitKey
          /\ t.user.config = call[c].from.who
      BY <1>2, <1>3, ConnectedParts
    <2>2. own[o] = data[o] \/ (own[o] = t /\ data[o].user.by = call[c].from.by)
      BY <1>2
    <2> HIDE DEF t
    <2>3. QED
      BY <2>1, <2>2
  <1> DEFINE now == [own[current] EXCEPT !.user = Configured(@, c)]
  <1>6. /\ now \in SessionData /\ now.user.by = own[current].user.by
        /\ now.user.who = own[current].user.who /\ now.etag = own[current].etag
        /\ now.transitKey = own[current].transitKey
        /\ now.user.config = call[c].from.who
    BY <1>2, <1>3, ConnectedParts
  <1>7. /\ data' \in [Objects -> SessionData]
        /\ \A o \in Objects :
            \/ data'[o] = own[o]
            \/ /\ o = current /\ data'[o] = now /\ User # SignedOut
               /\ spanned' = (spanned \/ User.by # call[c].from.by)
    BY <1>2, <1>3, <1>4, <1>6
  <1> HIDE DEF now
  <1>8. ASSUME NEW o \in Objects
        PROVE  \/ data'[o] = data[o]
               \/ /\ data'[o].user.by = data[o].user.by /\ data'[o].user.who = data[o].user.who
                  /\ data'[o].etag = data[o].etag /\ data'[o].transitKey = data[o].transitKey
                  /\ data'[o].user.config = call[c].from.who
                  /\ data[o].user.by # Nobody
                  /\ data[o].user.by = call[c].from.by \/ spanned'
    <2>1. CASE data'[o] = own[o]
      BY <1>2, <1>5, <2>1
    <2>2. CASE /\ o = current /\ data'[o] = now /\ User # SignedOut
               /\ spanned' = (spanned \/ User.by # call[c].from.by)
      <3>1. data[o].user.by # Nobody /\ User = data[o].user
        BY <1>1, <1>3, <2>2 DEF People
      <3>2. data[o].user.by = call[c].from.by \/ spanned'
        BY <2>2, <3>1
      <3>3. /\ own[o].user.by = data[o].user.by /\ own[o].user.who = data[o].user.who
            /\ own[o].etag = data[o].etag /\ own[o].transitKey = data[o].transitKey
        BY <1>5
      <3>4. QED
        BY <1>6, <2>2, <3>1, <3>2, <3>3
    <2>3. QED
      BY <1>7, <2>1, <2>2
  <1>9. ASSUME NEW o \in Objects, OwnConfig(data[o]) PROVE spanned' \/ OwnConfig(data'[o])
    <2>1. data[o].user.by = call[c].from.by => data[o].user.who = call[c].from.who
      BY <1>1, <1>3 DEF People
    <2>2. QED
      BY <1>8, <1>9, <2>1 DEF OwnConfig
  <1>10. ASSUME NEW o \in Objects
         PROVE  /\ data'[o].user.by = data[o].user.by /\ data'[o].user.who = data[o].user.who
                /\ data'[o].transitKey = data[o].transitKey /\ data'[o].etag = data[o].etag
                /\ data'[o].user = data[o].user \/ data[o].user.by # Nobody
                /\ OwnEtag(data[o]) => spanned' \/ visited' \/ OwnEtag(data'[o])
    BY <1>8 DEF OwnEtag
  <1>11. User'.by = User.by /\ User'.who = User.who
    BY <1>1, <1>3, <1>10 DEF User
  <1>12. spanned' \in BOOLEAN /\ (spanned => spanned')
    BY <1>1, <1>4
  <1>13. QED
    BY <1>1, <1>7, <1>9, <1>10, <1>11, <1>12

\* A connection writes no more than that.
LEMMA ConnectedApart ==
    ASSUME Apart, NEW c \in Calls, ConnectAfterSignOut(c) \/ EndConnect(c),
           call' \in [Calls -> CallRecord], \A d \in Calls : d # c => call'[d] = call[d],
           kind = "live" => call'[c].object <= signOuts,
           call'[c].from = SignedOut,
           call'[c].session = NewSession \/ call'[c].session = call[c].session,
           (/\ Runs(c)' => seen'[c] = seen[c]
            /\ \A q \in Requests : since'[q] = since[q]) => CallInv(c)'
    PROVE  Apart'
  <1> DEFINE events == {}
  <1>1. /\ TypeOK /\ People /\ Runs(c) /\ call[c].phase # "done"
        /\ UNCHANGED <<kind, current, requests, signOuts>> /\ Record(events)
    BY DEF Apart, ConnectAfterSignOut, EndConnect, Connects, Runs
  <1>2. /\ data' \in [Objects -> SessionData] /\ spanned' \in BOOLEAN
        /\ spanned => spanned'
        /\ visited' = visited /\ visited \in BOOLEAN /\ User'.by = User.by /\ User'.who = User.who
        /\ \A o \in Objects :
            /\ data'[o].user.by = data[o].user.by /\ data'[o].user.who = data[o].user.who
            /\ data'[o].transitKey = data[o].transitKey /\ data'[o].etag = data[o].etag
            /\ data'[o].user = data[o].user \/ data[o].user.by # Nobody
            /\ OwnConfig(data[o]) => spanned' \/ OwnConfig(data'[o])
            /\ OwnEtag(data[o]) => spanned' \/ visited' \/ OwnEtag(data'[o])
    BY ConnectWrites
  <1>3. events \in SUBSET {"file"} /\ events \in SUBSET Event
        /\ \A r \in SUBSET Event : r \cup events = r
    OBVIOUS
  <1> HIDE DEF events
  <1>4. /\ seen' \in [Calls -> SUBSET Event] /\ since' \in [Requests -> SUBSET Event]
        /\ \A d \in Calls : Runs(d) /\ Runs(d)' => seen'[d] = seen[d] \cup events
        /\ \A q \in 1..requests : since'[q] = since[q] \cup events
        /\ \A q \in Requests : q > requests => since'[q] = {}
    BY <1>1, <1>2, <1>3, RecordedSame
  <1>5. \A d \in Calls : d # c /\ Runs(d) => seen'[d] = seen[d] \cup events
    BY <1>4 DEF Runs
  <1>6. CallInv(c)'
    <2>1. Runs(c)' => seen'[c] = seen[c]
      <3>1. seen[c] \in SUBSET Event
        BY <1>1 DEF TypeOK
      <3>2. Runs(c)' => seen'[c] = seen[c] \cup events
        BY <1>1, <1>4
      <3>3. QED
        BY <1>3, <3>1, <3>2
    <2>2. \A q \in Requests : q > requests => since[q] = {}
      BY DEF Apart, KeysStored
    <2>3. \A q \in 1..requests : since'[q] = since[q]
      BY <1>1, <1>3, <1>4, StoreTyped DEF TypeOK
    <2>4. \A q \in Requests : since'[q] = since[q]
      BY <1>1, <1>4, <2>2, <2>3, StoreTyped
    <2>5. QED
      BY <2>1, <2>4
  <1>7. call[c].session.user \in Known
    BY <1>1, StoreTyped
  <1>8. ASSUME NEW u \in {call'[c].session.user, call'[c].from}
        PROVE  \/ u = SignedOut
               \/ \E t \in Known : t.by = u.by /\ t.who = u.who /\ t.by # Nobody
    BY <1>1, <1>7, <1>8, NewSessionTyped DEF People
  <1>9. ASSUME NEW o \in Objects
        PROVE  /\ data'[o].user.by = data[o].user.by /\ data'[o].user.who = data[o].user.who
               /\ data'[o].transitKey = data[o].transitKey
               /\ data'[o].etag = data[o].etag \/ "file" \in events
               /\ data'[o].user = data[o].user \/ data[o].user.by # Nobody
               /\ OwnConfig(data[o]) => spanned' \/ OwnConfig(data'[o])
               /\ OwnEtag(data[o]) => spanned' \/ visited' \/ OwnEtag(data'[o])
    BY <1>2
  <1>10. /\ data' \in [Objects -> SessionData]
         /\ spanned' \in BOOLEAN /\ visited' \in BOOLEAN
         /\ spanned => spanned'
         /\ visited => visited'
    BY <1>2
  <1>11. QED
    BY <1>1, <1>3, <1>4, <1>5, <1>6, <1>8, <1>9, <1>10, Steady

\* The user has signed out before the connection was there.
LEMMA ConnectAfterSignOutApart ==
    ASSUME Apart, NEW c \in Calls, ConnectAfterSignOut(c)
    PROVE  Apart'
  <1>1. Done(c, "nouser") /\ TypeOK /\ "nouser" \in Outcomes
    BY DEF ConnectAfterSignOut, Apart, Outcomes
  <1>2. /\ call' \in [Calls -> CallRecord] /\ \A d \in Calls : d # c => call'[d] = call[d]
        /\ call'[c].phase = "done" /\ call'[c].outcome = "nouser"
        /\ call'[c].session = NewSession /\ call'[c].object = 0 /\ call'[c].from = SignedOut
    BY <1>1, DoneOver
  <1>3. CallInv(c)' /\ (kind = "live" => call'[c].object <= signOuts)
    BY <1>1, <1>2, OverInv, StoreTyped
  <1>4. QED
    BY <1>2, <1>3, ConnectedApart

\* The connection is there, and put into the session of whoever is signed in; a
\* file operation goes on with it.
LEMMA EndConnectApart ==
    ASSUME Apart, NEW c \in Calls, EndConnect(c)
    PROVE  Apart'
  <1>1. /\ Connects(c) /\ Runs(c) /\ TypeOK /\ Placed /\ People /\ CallInv(c) /\ Connected(c)
        /\ kind' = kind /\ requests' = requests /\ call[c] \in CallRecord
    BY StoreTyped DEF EndConnect, Connects, Runs, Apart
  <1>2. CASE call[c].is = "connect"
    <2>1. Done(c, "ok") /\ "ok" \in Outcomes
      BY <1>1, <1>2 DEF Connected, Outcomes
    <2>2. /\ call' \in [Calls -> CallRecord] /\ \A d \in Calls : d # c => call'[d] = call[d]
          /\ call'[c].phase = "done" /\ call'[c].outcome = "ok"
          /\ call'[c].session = NewSession /\ call'[c].object = 0 /\ call'[c].from = SignedOut
      BY <1>1, <2>1, DoneOver
    <2>3. CallInv(c)' /\ (kind = "live" => call'[c].object <= signOuts)
      BY <1>1, <2>2, OverInv, StoreTyped
    <2>4. QED
      BY <2>2, <2>3, ConnectedApart
  <1>3. CASE call[c].is # "connect"
    <2> DEFINE phase == IF call[c].phase = "reconnect" THEN "again"
                        ELSE AfterConnecting(call[c].is)
    <2> DEFINE x == [call[c] EXCEPT !.from = SignedOut, !.hub = call[c].from.who,
                                    !.phase = phase]
    <2>1. call' = [call EXCEPT ![c] = x]
      BY <1>1, <1>3 DEF Connected
    <2>2. /\ call[c].is \in Kinds \ {"visit", "connect"} /\ call[c].outcome = "none"
          /\ call[c].is # "signin"
      BY <1>1, <1>3 DEF CallInv, Began, Connects
    <2>3. /\ call[c].from.who \in {Nobody} \cup Users /\ call[c].from \in Known
          /\ User \in Known
      BY <1>1, StoreTyped DEF UserData
    <2>4. /\ phase \in {"again", "chosen", "running"} /\ phase \in Phases
          /\ phase = "chosen" => call[c].is = "file"
          /\ call[c].is = "file" /\ phase # "chosen" => call[c].phase = "reconnect"
      BY <2>2 DEF AfterConnecting, Phases
    <2> HIDE DEF phase
    <2>5. /\ x \in CallRecord /\ x.is = call[c].is /\ x.phase = phase /\ x.from = SignedOut
          /\ x.hub = call[c].from.who /\ x.session = call[c].session
          /\ x.object = call[c].object /\ x.outcome = "none" /\ x.response = call[c].response
      BY <1>1, <2>2, <2>3, <2>4, NewSessionTyped DEF CallRecord
    <2> HIDE DEF x
    <2>6. /\ call' \in [Calls -> CallRecord] /\ call'[c] = x
          /\ \A d \in Calls : d # c => call'[d] = call[d]
      BY <1>1, <2>1, <2>5 DEF TypeOK
    <2>7. /\ spanned => spanned'
          /\ visited' = visited /\ User'.by = User.by /\ User'.who = User.who
          /\ current' = current /\ current \in Objects /\ call[c].object \in Objects
          /\ \A o \in Objects :
                /\ data'[o].user.by = data[o].user.by
                /\ data'[o].transitKey = data[o].transitKey /\ data'[o].etag = data[o].etag
                /\ OwnConfig(data[o]) => spanned' \/ OwnConfig(data'[o])
                /\ OwnEtag(data[o]) => spanned' \/ visited' \/ OwnEtag(data'[o])
      BY <1>1, ConnectWrites, StoreTyped DEF EndConnect
    <2>8. ASSUME Runs(c)' => seen'[c] = seen[c],
                 \A q \in Requests : since'[q] = since[q]
          PROVE  CallInv(c)'
      <3>1. seen'[c] = seen[c] /\ (Moved(c)' <=> Moved(c)) /\ Runs(c)' /\ ~Connects(c)'
        BY <2>4, <2>5, <2>6, <2>8 DEF Runs, Moved, Connects
      <3>2. Holds(c)' => Holds(c) /\ call[c].is = "file"
        BY <1>1, <2>2, <2>4, <2>5, <2>6 DEF Holds
      <3>3. /\ Held(c) = IF kind = "live" THEN data[call[c].object] ELSE call[c].session
            /\ Held(c)' = IF kind = "live" THEN data'[call[c].object] ELSE call[c].session
        BY <1>1, <2>5, <2>6 DEF Held
      <3>4. Began(c)'
        <4>1. call[c].from.by # Nobody
          BY <1>1 DEF CallInv, Began
        <4>2. call[c].from.who # Nobody
          BY <1>1, <2>3, <4>1, NewSessionTyped DEF People
        <4>3. QED
          BY <2>2, <2>4, <2>5, <2>6, <3>1, <4>2 DEF Began
      <3>5. SameUser(c)'
        BY <1>1, <2>2, <2>5, <2>6, <2>7, <3>1, <3>2, <3>3 DEF CallInv, SameUser
      <3>6. OfUser(c)'
        <4>1. SUFFICES ASSUME ~Moved(c)
                       PROVE  /\ Holds(c)' => /\ spanned' \/ OwnConfig(Held(c)')
                                              /\ spanned' \/ visited' \/ OwnEtag(Held(c)')
                              /\ spanned' \/ call'[c].hub = User'.who
          BY <3>1 DEF OfUser, OwnConfig, OwnEtag
        <4>2. call[c].from.by = User.by
          BY <1>1, <4>1 DEF CallInv, OfUser
        <4>3. call'[c].hub = User'.who
          BY <1>1, <2>3, <2>5, <2>6, <2>7, <4>2 DEF People
        <4>4. Holds(c)' => /\ spanned \/ OwnConfig(Held(c))
                           /\ spanned \/ visited \/ OwnEtag(Held(c))
          BY <1>1, <3>2, <4>1 DEF CallInv, OfUser
        <4>5. QED
          BY <2>7, <3>3, <4>3, <4>4
      <3>7. SameCopy(c)'
        BY <1>1, <2>5, <2>6, <2>7, <3>1, <3>2 DEF CallInv, SameCopy
      <3>8. KeysRead(c)'
        BY <1>1, <2>2, <2>5, <2>6, <2>8, <3>1, <3>2 DEF CallInv, KeysRead
      <3>9. Refused(c)'
        BY <2>5, <2>6 DEF Refused
      <3>10. QED
        BY <3>4, <3>5, <3>6, <3>7, <3>8, <3>9 DEF CallInv
    <2>9. kind = "live" => call'[c].object <= signOuts
      BY <1>1, <2>5, <2>6 DEF Placed
    <2>10. call'[c].from = SignedOut /\ call'[c].session = call[c].session
      BY <2>5, <2>6
    <2>11. QED
      BY <2>6, <2>8, <2>9, <2>10, ConnectedApart
  <1>4. QED
    BY <1>2, <1>3

----------------------------------------------------------------------------
(* Theorems. *)

(* Every step of the application, of a call or of the authenticator keeps the
   users apart. *)
LEMMA NextApart ==
    ASSUME Apart, [Next]_vars
    PROVE  Apart'
  <1>1. CASE UNCHANGED vars
    <2>1. TypeOK' /\ Placed' /\ SessionOfOneUser' /\ KeysStored'
      BY <1>1 DEF vars, Apart, TypeOK, Placed, SessionOfOneUser, KeysStored, User
    <2>2. Known' = Known
      BY <1>1 DEF vars, Known
    <2>3. People'
      BY <1>1, <2>2 DEF vars, Apart, People
    <2>4. ASSUME NEW c \in Calls PROVE CallInv(c)'
      <3>1. CallInv(c)
        BY DEF Apart
      <3>2. Held(c)' = Held(c) /\ User' = User
        BY <1>1 DEF vars, Held, User
      <3>3. SameUser(c)'
        BY <1>1, <3>1, <3>2 DEF vars, CallInv, SameUser, Holds
      <3>4. OfUser(c)'
        BY <1>1, <3>1, <3>2
           DEF vars, CallInv, OfUser, Holds, Uses, Connects, Runs, Moved, OwnConfig, OwnEtag
      <3>5. Began(c)' /\ SameCopy(c)' /\ KeysRead(c)' /\ Refused(c)'
        BY <1>1, <3>1
           DEF vars, CallInv, Began, SameCopy, KeysRead, Refused, Runs, Holds, Connects
      <3>6. QED
        BY <3>3, <3>4, <3>5 DEF CallInv
    <2>5. QED
      BY <2>1, <2>3, <2>4 DEF Apart
  <1>2. ASSUME NEW given \in BOOLEAN, MakeAuthRequest(given) PROVE Apart'
    BY <1>2, RequestApart
  <1>3. CASE SignUserOut
    BY <1>3, SignOutApart
  <1>4. ASSUME NEW c \in Calls, NEW r \in Responses, BeginSignIn(c, r) PROVE Apart'
    BY <1>4, BeginSignInApart
  <1>5. ASSUME NEW c \in Calls, BeginFile(c) \/ BeginRead(c) PROVE Apart'
    BY <1>5, GetOrSetApart DEF BeginFile, BeginRead
  <1>6. ASSUME NEW c \in Calls, BeginConnect(c) \/ BeginVisit(c) PROVE Apart'
    BY <1>6, BeginConnectApart, BeginVisitApart
  <1>7. ASSUME NEW c \in Calls,
               \/ VerificationFails(c) \/ ProfileFails(c) \/ ConnectFails(c)
               \/ FileFails(c) \/ ReadFails(c) \/ WithoutEtag(c)
        PROVE  Apart'
    <2>1. Runs(c)
      BY <1>7 DEF VerificationFails, ProfileFails, ConnectFails, FileFails, ReadFails,
                  WithoutEtag, Running, Connects, Answered, Runs
    <2>2. \E outcome \in {"invalid", "profile", "failed", "nouser", "ok"} : Reject(c, outcome)
      BY <1>7 DEF VerificationFails, ProfileFails, ConnectFails, FileFails, ReadFails,
                  WithoutEtag
    <2>3. QED
      BY <2>1, <2>2, FailsApart
  <1>8. ASSUME NEW c \in Calls, KeyFails(c) \/ EndSignIn(c) \/ PutDone(c) \/ DeleteDone(c)
        PROVE  Apart'
    BY <1>8, KeyFailsApart, EndSignInApart, PutDoneApart, DeleteDoneApart
  <1>9. ASSUME NEW c \in Calls, CopySession(c) \/ Reconnect(c) \/ ReadDone(c) PROVE Apart'
    BY <1>9, CopySessionApart, ReconnectApart, ReadDoneApart
  <1>10. ASSUME NEW c \in Calls, ConnectAfterSignOut(c) \/ EndConnect(c) PROVE Apart'
    BY <1>10, ConnectAfterSignOutApart, EndConnectApart
  <1>11. QED
    BY <1>1, <1>2, <1>3, <1>4, <1>5, <1>6, <1>7, <1>8, <1>9, <1>10 DEF Next

\* What a call works with is of the user it read, of one user, and has the keys
\* it read, unless its history says otherwise.
THEOREM UsersKeptApart == Spec => []Apart
  BY InitApart, NextApart, PTL DEF Spec

\* Sessions, calls and histories keep their types.
THEOREM TypeCorrectness == Spec => []TypeOK
  <1>1. Apart => TypeOK
    BY DEF Apart
  <1>2. QED
    BY <1>1, UsersKeptApart, PTL

\* What one user left in the session is never used for another, unless a call
\* wrote to a session whose user had changed under it, or, for the etag, a file
\* of another user was read.
THEOREM OneUserInSession == Spec => []SessionOfOneUser
  <1>1. Apart => SessionOfOneUser
    BY DEF Apart
  <1>2. QED
    BY <1>1, UsersKeptApart, PTL

\* A response is refused for its key only if, since its request was made, the
\* key was not stored, replaced, signed out, or overwritten by a stale session.
THEOREM KeysAreLostForAReason == Spec => []TransitKeyLost
  <1>1. ASSUME Apart PROVE TransitKeyLost
    <2>1. SUFFICES ASSUME NEW c \in Calls, call[c].outcome \in {"transit", "nokey"},
                          call[c].response.form = "sealed"
                   PROVE  /\ since[call[c].response.for]
                                \cap {"unstored", "request", "signout", "stale"} # {}
                          /\ kind = "live" /\ "stale" \in since[call[c].response.for] =>
                                signOuts > 0
      BY DEF TransitKeyLost
    <2>2. Refused(c) /\ KeysStored /\ TypeOK
      BY <1>1 DEF Apart, CallInv
    <2>3. call[c].response.for \in 1..requests /\ 1..requests \subseteq Requests
      BY <2>1, <2>2, StoreTyped DEF Refused
    <2>4. QED
      BY <2>1, <2>2, <2>3 DEF Refused, KeysStored, Lost
  <1>2. QED
    BY <1>1, UsersKeptApart, PTL

----------------------------------------------------------------------------
(* What a step may not do. *)

\* Every step but a sign-out and the three that write a session in hand leaves
\* the user and an etag that is there, and ends no sign-in well.
Plain ==
    /\ User'.by = User.by
    /\ data[current].etag # Nobody => data'[current'].etag # Nobody
    /\ \A c \in Calls : ~Ends(c, "signin")

\* A call that fails, or that is no sign-in, ends no sign-in well.
LEMMA NoSignIn ==
    ASSUME TypeOK, NEW c \in Calls, \A d \in Calls : d # c => call'[d] = call[d],
           call[c].is # "signin" \/ call'[c].phase # "done"
                \/ call'[c].outcome \notin {"ok", "deleted"}
    PROVE  \A d \in Calls : ~Ends(d, "signin")
  BY DEF Ends, Runs

\* A call that begins ends no sign-in, nor does one that ends without writing.
LEMMA UnwrittenPlain ==
    ASSUME TypeOK, NEW c \in Calls, Unwritten,
           \A d \in Calls : d # c => call'[d] = call[d],
           call[c].phase = "idle" \/ call[c].is # "signin"
                \/ call'[c].outcome \notin {"ok", "deleted"}
    PROVE  Plain
  <1>1. User' = User /\ data'[current'].etag = data[current].etag
    BY DEF Unwritten, User
  <1>2. \A d \in Calls : ~Ends(d, "signin")
    BY DEF Ends, Runs
  <1>3. QED
    BY <1>1, <1>2 DEF Plain

\* The steps that are not plain.
LEMMA Writers ==
    ASSUME Apart, [Next]_vars
    PROVE  \/ Plain
           \/ SignUserOut
           \/ \E c \in Calls : EndSignIn(c) \/ PutDone(c) \/ DeleteDone(c)
  <1>1. TypeOK
    BY DEF Apart
  <1>2. /\ User = data[current].user /\ data[current] \in SessionData
        /\ current \in Objects
    BY <1>1, StoreTyped
  <1>3. CASE UNCHANGED vars
    BY <1>3 DEF vars, Plain, User, Ends, Runs
  <1>4. ASSUME NEW given \in BOOLEAN, MakeAuthRequest(given) PROVE Plain
    <2>1. /\ data' = IF given THEN data ELSE [data EXCEPT ![current].transitKey = requests + 1]
          /\ UNCHANGED <<current, call>>
      BY <1>4 DEF MakeAuthRequest
    <2>2. data'[current].user = data[current].user /\ data'[current].etag = data[current].etag
      BY <1>1, <1>2, <2>1 DEF TypeOK, SessionData
    <2>3. \A c \in Calls : ~Ends(c, "signin")
      BY <2>1 DEF Ends, Runs
    <2>4. QED
      BY <2>1, <2>2, <2>3 DEF User, Plain
  <1>5. ASSUME NEW c \in Calls, NEW x, call[c].phase = "idle", Begin(c, x) PROVE Plain
    <2>1. Unwritten /\ \A d \in Calls : d # c => call'[d] = call[d]
      BY <1>1, <1>5 DEF Begin, TypeOK
    <2>2. QED
      BY <1>1, <1>5, <2>1, UnwrittenPlain
  <1>6. ASSUME NEW c \in Calls, NEW outcome \in Outcomes, Reject(c, outcome),
               call[c].is # "signin" \/ outcome \notin {"ok", "deleted"}
        PROVE  Plain
    <2>1. Unwritten /\ Done(c, outcome)
      BY <1>6 DEF Reject
    <2>2. call'[c].outcome = outcome /\ \A d \in Calls : d # c => call'[d] = call[d]
      BY <1>1, <2>1, DoneOver
    <2>3. QED
      BY <1>1, <1>6, <2>1, <2>2, UnwrittenPlain
  <1>7. ASSUME NEW c \in Calls,
               \/ \E r \in Responses : BeginSignIn(c, r)
               \/ BeginFile(c) \/ BeginRead(c) \/ BeginConnect(c) \/ BeginVisit(c)
        PROVE  Plain
    <2>1. call[c].phase = "idle" /\ \E x : Begin(c, x)
      BY <1>7 DEF BeginSignIn, BeginFile, BeginRead, BeginConnect, BeginVisit,
                  GetOrSetConnection, Offer, Refuse
    <2>2. QED
      BY <1>5, <2>1
  <1>8. ASSUME NEW c \in Calls,
               \/ VerificationFails(c) \/ KeyFails(c) \/ ProfileFails(c) \/ ConnectFails(c)
               \/ FileFails(c) \/ ReadFails(c)
        PROVE  Plain
    <2>1. \E outcome \in {"invalid", "profile", "failed", "transit", "nokey"} : Reject(c, outcome)
      BY <1>8 DEF VerificationFails, KeyFails, ProfileFails, ConnectFails, FileFails, ReadFails
    <2>2. QED
      BY <1>6, <2>1 DEF Outcomes
  <1>9. ASSUME NEW c \in Calls, WithoutEtag(c) PROVE Plain
    BY <1>6, <1>9 DEF WithoutEtag, Outcomes
  <1>10. ASSUME NEW c \in Calls, CopySession(c) PROVE Plain
    <2>1. Unwritten /\ \A d \in Calls : d # c => call'[d] = call[d]
      BY <1>1, <1>10 DEF CopySession, TypeOK
    <2>2. call[c].is # "signin"
      BY <1>10 DEF CopySession, Apart, CallInv, Began, Runs
    <2>3. QED
      BY <1>1, <2>1, <2>2, UnwrittenPlain
  <1>11. ASSUME NEW c \in Calls, Reconnect(c) PROVE Plain
    <2>1. call[c].is = "file"
      BY <1>11 DEF Reconnect, Running
    <2>2. CASE User = SignedOut
      BY <1>6, <1>11, <2>1, <2>2 DEF Reconnect, Outcomes
    <2>3. CASE User # SignedOut
      <3>1. Unwritten /\ \A d \in Calls : d # c => call'[d] = call[d]
        BY <1>1, <1>11, <2>3 DEF Reconnect, TypeOK
      <3>2. QED
        BY <1>1, <2>1, <3>1, UnwrittenPlain
    <2>4. QED
      BY <2>2, <2>3
  <1>12. ASSUME NEW c \in Calls, ConnectAfterSignOut(c) \/ EndConnect(c) PROVE Plain
    <2>1. Connects(c) /\ current' = current
      BY <1>12 DEF ConnectAfterSignOut, EndConnect
    <2>2. User'.by = User.by /\ data'[current].etag = data[current].etag
      BY <1>2, <1>12, ConnectWrites
    <2>3. call[c].is # "signin"
      BY <2>1 DEF Connects, Apart, CallInv, Began, Runs
    <2>4. \A d \in Calls : d # c => call'[d] = call[d]
      BY <1>1, <1>12 DEF ConnectAfterSignOut, EndConnect, Connected, Done, TypeOK
    <2>5. QED
      BY <1>1, <2>1, <2>2, <2>3, <2>4, NoSignIn DEF Plain
  <1>13. ASSUME NEW c \in Calls, ReadDone(c) PROVE Plain
    <2>1. /\ call[c].is \in {"read", "visit"} /\ Answered(c) /\ Done(c, "ok")
          /\ data' = [data EXCEPT ![current].etag = call[c].hub] /\ current' = current
      BY <1>13 DEF ReadDone
    <2>2. data'[current].user = data[current].user /\ data'[current].etag = call[c].hub
      BY <1>1, <1>2, <2>1 DEF TypeOK, SessionData
    <2>3. call[c].hub # Nobody
      BY <2>1 DEF Apart, CallInv, Began, Runs, Connects, Answered
    <2>4. \A d \in Calls : d # c => call'[d] = call[d]
      BY <1>1, <2>1 DEF Done, TypeOK
    <2>5. QED
      BY <1>1, <1>2, <2>1, <2>2, <2>3, <2>4, NoSignIn DEF Plain, User
  <1>14. QED
    BY <1>3, <1>4, <1>7, <1>8, <1>9, <1>10, <1>11, <1>12, <1>13 DEF Next


\* What the three steps write that end a call with the session it has in hand.
LEMMA Writes ==
    ASSUME Apart, NEW c \in Calls, EndSignIn(c) \/ PutDone(c) \/ DeleteDone(c)
    PROVE  /\ Runs(c) /\ TypeOK /\ CallInv(c) /\ Holds(c)
           /\ \A d \in Calls : d # c => call'[d] = call[d]
           /\ EndSignIn(c) =>
                /\ Ends(c, "signin") /\ User'.by = c /\ call[c].is = "signin"
                /\ data'[current'].etag = Held(c).etag
           /\ PutDone(c) \/ DeleteDone(c) =>
                Ends(c, "file") /\ call[c].is = "file" /\ User' = Held(c).user
           /\ PutDone(c) => data'[current'].etag \in {call[c].hub, Held(c).etag}
           /\ DeleteDone(c) => call'[c].outcome = "deleted"
  <1>1. /\ TypeOK /\ CallInv(c) /\ Runs(c) /\ Holds(c) /\ call[c] \in CallRecord
        /\ Held(c) \in SessionData
    BY StoreTyped
       DEF Apart, EndSignIn, PutDone, DeleteDone, Running, Answered, Runs, Holds
  <1>2. ASSUME NEW s \in SessionData, SetSessionData(c, s)
        PROVE  data'[current'] = s /\ User' = s.user
    BY <1>1, <1>2, Stored
  <1>3. ASSUME NEW outcome \in {"ok", "deleted"}, NEW events, Resolve(c, outcome, events)
        PROVE  /\ Ends(c, call[c].is) /\ call'[c].outcome = outcome
               /\ \A d \in Calls : d # c => call'[d] = call[d]
    <2>1. Done(c, outcome) /\ outcome \in Outcomes
      BY <1>3 DEF Resolve, Outcomes
    <2>2. /\ call'[c].phase = "done" /\ call'[c].outcome = outcome
          /\ \A d \in Calls : d # c => call'[d] = call[d]
      BY <1>1, <2>1, DoneOver
    <2>3. QED
      BY <1>1, <1>3, <2>2 DEF Ends
  <1>4. ASSUME EndSignIn(c)
        PROVE  /\ Ends(c, "signin") /\ User'.by = c /\ call[c].is = "signin"
               /\ data'[current'].etag = Held(c).etag
               /\ \A d \in Calls : d # c => call'[d] = call[d]
    <2>1. PICK profile \in ProfileOf(call[c].response) : SetSessionData(c, SignedIn(c, profile))
      BY <1>4 DEF EndSignIn
    <2>2. call[c].is = "signin" /\ Resolve(c, "ok", {})
      BY <1>4 DEF EndSignIn, Running
    <2>3. current' \in Objects /\ data' = [data EXCEPT ![current'] = SignedIn(c, profile)]
      BY <1>1, <2>1, StoreTyped, AuthSessionAssumption DEF SetSessionData, Objects
    <2>4. data'[current'] = SignedIn(c, profile)
      BY <1>1, <2>3 DEF TypeOK
    <2>5. SignedIn(c, profile).user.by = c /\ SignedIn(c, profile).etag = Held(c).etag
      BY <1>1 DEF SignedIn, SessionData
    <2>6. QED
      BY <1>3, <2>2, <2>4, <2>5 DEF User
  <1>5. ASSUME NEW etag, PutDone(c) \/ DeleteDone(c), etag \in {Nobody, call[c].hub, Held(c).etag},
               SetSessionData(c, [Held(c) EXCEPT !.etag = etag])
        PROVE  data'[current'].etag = etag /\ User' = Held(c).user
    <2> DEFINE s == [Held(c) EXCEPT !.etag = etag]
    <2>1. etag \in {Nobody} \cup Users
      BY <1>1, <1>5, SessionParts, CallParts
    <2>2. s \in SessionData /\ s.etag = etag /\ s.user = Held(c).user
      BY <1>1, <2>1 DEF SessionData
    <2>3. SetSessionData(c, s)
      BY <1>5
    <2> HIDE DEF s
    <2>4. QED
      BY <1>2, <2>2, <2>3
  <1>6. ASSUME PutDone(c)
        PROVE  /\ Ends(c, "file") /\ call[c].is = "file" /\ User' = Held(c).user
               /\ data'[current'].etag \in {call[c].hub, Held(c).etag}
               /\ \A d \in Calls : d # c => call'[d] = call[d]
    <2>1. call[c].is = "file" /\ Resolve(c, "ok", {"file"})
      BY <1>6 DEF PutDone
    <2>2. PICK etag \in {call[c].hub, Held(c).etag} :
            SetSessionData(c, [Held(c) EXCEPT !.etag = etag])
      BY <1>6 DEF PutDone
    <2>3. data'[current'].etag = etag /\ User' = Held(c).user
      BY <1>5, <1>6, <2>2
    <2>4. QED
      BY <1>3, <2>1, <2>3
  <1>7. ASSUME DeleteDone(c)
        PROVE  /\ Ends(c, "file") /\ call[c].is = "file" /\ User' = Held(c).user
               /\ call'[c].outcome = "deleted"
               /\ \A d \in Calls : d # c => call'[d] = call[d]
    <2>1. call[c].is = "file" /\ Resolve(c, "deleted", {"file"})
      BY <1>7 DEF DeleteDone
    <2>2. SetSessionData(c, [Held(c) EXCEPT !.etag = Nobody])
      BY <1>7 DEF DeleteDone
    <2>3. User' = Held(c).user
      BY <1>5, <1>7, <2>2
    <2>4. QED
      BY <1>3, <2>1, <2>3
  <1>8. call[c].is = "signin" => ~PutDone(c) /\ ~DeleteDone(c)
    BY DEF PutDone, DeleteDone
  <1>9. QED
    BY <1>1, <1>4, <1>6, <1>7

\* Nobody becomes signed in but by his own sign-in, or by a file operation that
\* read the session while he was and writes back what it had read.
THEOREM SignInsSignIn == Spec => SignedInBySignIn
  <1>1. ASSUME Apart, [Next]_vars, User'.by # User.by, User'.by # Nobody
        PROVE  \/ Ends(User'.by, "signin")
               \/ \E c \in Calls : Ends(c, "file") /\ seen[c] \cap {"signout", "user"} # {}
    <2>1. ~SignUserOut
      <3>1. SUFFICES ASSUME SignUserOut PROVE User' = SignedOut
        BY <1>1, NewSessionTyped
      <3>2. TypeOK /\ DeleteSessionData /\ signOuts < MaxSignOuts
        BY <1>1, <3>1 DEF Apart, SignUserOut
      <3>3. data' = [data EXCEPT ![current'] = NewSession] /\ current' \in Objects
        BY <3>2, StoreTyped, AuthSessionAssumption DEF DeleteSessionData, Objects, TypeOK
      <3>4. QED
        BY <3>2, <3>3, NewSessionTyped DEF User, TypeOK
    <2>2. PICK c \in Calls : EndSignIn(c) \/ PutDone(c) \/ DeleteDone(c)
      BY <1>1, <2>1, Writers DEF Plain
    <2>3. CASE EndSignIn(c)
      BY <1>1, <2>3, Writes
    <2>4. CASE PutDone(c) \/ DeleteDone(c)
      <3>1. Ends(c, "file") /\ User' = Held(c).user /\ Holds(c) /\ CallInv(c)
        BY <1>1, <2>4, Writes
      <3>2. seen[c] \cap {"user", "signout"} # {}
        BY <1>1, <3>1 DEF CallInv, SameUser
      <3>3. QED
        BY <3>1, <3>2
    <2>5. QED
      BY <2>2, <2>3, <2>4
  <1>2. Apart /\ [Next]_vars =>
            [(User'.by # User.by /\ User'.by # Nobody) =>
                \/ Ends(User'.by, "signin")
                \/ \E c \in Calls :
                        Ends(c, "file") /\ seen[c] \cap {"signout", "user"} # {}]_vars
    BY <1>1
  <1>3. QED
    BY <1>2, UsersKeptApart, PTL DEF Spec, SignedInBySignIn

\* Once signed out, the response of an earlier request signs nobody in, unless a
\* call that began before wrote its transit key back.
THEOREM ReplaysAreRefused == Spec => ReplayRefused
  <1>1. ASSUME Apart, [Next]_vars, NEW c \in Calls, Ends(c, "signin"),
               call[c].response.form = "sealed",
               "signout" \in since[call[c].response.for]
        PROVE  "signout" \in seen[c] \/ "stale" \in since[call[c].response.for]
    <2>1. Runs(c) /\ call[c].is = "signin" /\ CallInv(c) /\ TypeOK
      BY <1>1 DEF Apart, Ends
    <2>2. EndSignIn(c)
      <3>1. ~SignUserOut
        BY <1>1, <2>1 DEF SignUserOut, Ends, Runs
      <3>2. PICK d \in Calls : EndSignIn(d) \/ PutDone(d) \/ DeleteDone(d)
        BY <1>1, <3>1, Writers DEF Plain
      <3>3. d = c
        BY <1>1, <2>1, <3>2, Writes DEF Ends, Runs
      <3>4. QED
        BY <1>1, <2>1, <3>2, <3>3, Writes
    <2>3. call[c].session.transitKey = call[c].response.for /\ Holds(c)
      BY <1>1, <2>1, <2>2, Writes DEF EndSignIn, AppPrivateKey
    <2>4. call[c].response.for \in Requests
      BY <1>1, <2>1, StoreTyped DEF CallInv, Began
    <2>5. QED
      BY <1>1, <2>1, <2>3, <2>4 DEF CallInv, KeysRead
  <1>2. Apart /\ [Next]_vars =>
            [\A c \in Calls :
                Ends(c, "signin") /\ call[c].response.form = "sealed" =>
                    LET was == since[call[c].response.for] IN
                    "signout" \in was => "signout" \in seen[c] \/ "stale" \in was]_vars
    BY <1>1
  <1>3. QED
    BY <1>2, UsersKeptApart, PTL DEF Spec, ReplayRefused

\* An etag that is stored is forgotten only by a deletion, a sign-out, or a call
\* that writes back a session it read before something else was stored there.
THEOREM EtagsAreForgottenForAReason == Spec => EtagForgotten
  <1>1. ASSUME Apart, [Next]_vars, data[current].etag # Nobody, data'[current'].etag = Nobody
        PROVE  \/ signOuts' # signOuts
               \/ \E c \in Calls :
                    \/ Ends(c, "file") /\ (call'[c].outcome = "deleted" \/ Stale(c))
                    \/ Ends(c, "signin") /\ Stale(c)
    <2>1. CASE SignUserOut
      BY <1>1, <2>1, StoreTyped DEF SignUserOut, Apart, TypeOK
    <2>2. CASE ~SignUserOut
      <3>1. PICK c \in Calls : EndSignIn(c) \/ PutDone(c) \/ DeleteDone(c)
        BY <1>1, <2>2, Writers DEF Plain
      <3>2. /\ Holds(c) /\ CallInv(c) /\ TypeOK
            /\ EndSignIn(c) => Ends(c, "signin") /\ data'[current'].etag = Held(c).etag
            /\ PutDone(c) =>
                /\ Ends(c, "file") /\ data'[current'].etag \in {call[c].hub, Held(c).etag}
            /\ DeleteDone(c) => Ends(c, "file") /\ call'[c].outcome = "deleted"
        BY <1>1, <3>1, Writes
      <3>3. Held(c).etag # Nobody \/ Stale(c)
        <4>1. CASE kind = "live"
          BY <1>1, <4>1 DEF Stale, Held
        <4>2. CASE kind = "copy"
          <5>1. CASE seen[c] \subseteq {"moved"}
            BY <1>1, <3>2, <4>2, <5>1 DEF Held, CallInv, SameCopy
          <5>2. CASE ~(seen[c] \subseteq {"moved"})
            BY <4>2, <5>2 DEF Stale
          <5>3. QED
            BY <5>1, <5>2
        <4>3. QED
          BY <3>2, <4>1, <4>2 DEF TypeOK
      <3>4. PutDone(c) => call[c].hub # Nobody
        BY <3>2 DEF PutDone, Answered, CallInv, Began, Runs, Connects
      <3>5. QED
        BY <1>1, <3>1, <3>2, <3>3, <3>4
    <2>3. QED
      BY <2>1, <2>2
  <1>2. Apart /\ [Next]_vars =>
            [(data[current].etag # Nobody /\ data'[current'].etag = Nobody) =>
                \/ signOuts' # signOuts
                \/ \E c \in Calls :
                    \/ Ends(c, "file") /\ (call'[c].outcome = "deleted" \/ Stale(c))
                    \/ Ends(c, "signin") /\ Stale(c)]_vars
    BY <1>1
  <1>3. QED
    BY <1>2, UsersKeptApart, PTL DEF Spec, EtagForgotten
=============================================================================
