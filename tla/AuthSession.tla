---------------------------- MODULE AuthSession ----------------------------
(***************************************************************************)
(* The session of an application (auth/src: UserSession, SessionData and   *)
(* the two session stores) under the calls that use it before and after an *)
(* await: handlePendingSignIn, putFile and deleteFile, getFile, and a      *)
(* connection to a Gaia hub.  Sign-in requests and sign-outs happen at any *)
(* time between.  An InstanceDataStore hands out its live object, a        *)
(* LocalStorageStore a copy of the text that every window shares.          *)
(***************************************************************************)
EXTENDS Integers

CONSTANTS
    Calls,          \* calls that await
    Offered,        \* call |-> what it may be, of Kinds
    Users,          \* identities that answer a request
    Answers,        \* how they answer: sets of identity, form and profile
    Nobody,         \* no user, null or undefined
    MaxRequests,    \* bound on sign-in requests; each has its transit key
    MaxSignOuts     \* bound on sign-outs

(* A sign-in; putFile or deleteFile; getFile of a file of one's own, or of   *)
(* another user's; setLocalGaiaHubConnection.                                *)
Kinds == {"signin", "file", "read", "visit", "connect"}

NoKey == 0
Requests == 1..MaxRequests
Objects == 0..MaxSignOuts   \* SessionData objects that were the current one

(* A response: whose it is; how it carries the application's key, encrypted  *)
(* for the transit key of a request, in plain, or not at all (a legacy       *)
(* response has no version and no key); and how it carries the profile.      *)
Response == [who: Users, form: {"sealed", "plain", "legacy"},
             for: {NoKey} \cup Requests, profile: {"given", "url", "none"}]

NoResponse == [who |-> Nobody, form |-> "legacy", for |-> NoKey, profile |-> "none"]

(* userData: the sign-in that made it, the key and profile it came by, and   *)
(* whose hub connection is kept in it.                                       *)
UserData == [by: {Nobody} \cup Calls, who: {Nobody} \cup Users,
             key: {"none", "own"},
             profile: {"given", "fetched", "blank", "none"}, config: {Nobody} \cup Users]
SignedOut == [by |-> Nobody, who |-> Nobody, key |-> "none", profile |-> "none",
              config |-> Nobody]

(* The etag of one path: the user whose file it is of.                       *)
SessionData == [user: UserData, transitKey: {NoKey} \cup Requests, etag: {Nobody} \cup Users]
NewSession == [user |-> SignedOut, transitKey |-> NoKey, etag |-> Nobody]

ASSUME AuthSessionAssumption ==
    /\ Offered \in [Calls -> SUBSET Kinds]
    /\ Nobody \notin Calls /\ Nobody \notin Users
    /\ Answers \subseteq [who: Users, form: {"sealed", "plain", "legacy"},
                          profile: {"given", "url", "none"}]
    /\ MaxRequests \in Nat /\ MaxSignOuts \in Nat

VARIABLES
    kind,       \* "live" (InstanceDataStore) or "copy" (LocalStorageStore)
    data,       \* object |-> SessionData; a LocalStorageStore has one text
    current,    \* the object in the store
    call,       \* the calls
    requests, signOuts,
    seen,       \* history: what happened while the call ran
    since,      \* history: what happened since the request was made
    spanned,    \* history: a call wrote to a session whose user had changed under it
    visited     \* history: another user's file was read; both are of this session

vars == <<kind, data, current, call, requests, signOuts, seen, since, spanned, visited>>

(* "moved" is the user's change before a call read the session it keeps.      *)
Event == {"request", "signout", "user", "file", "stale", "unstored", "moved"}

(* from is the user data a hub connection is made with; hub is whose hub     *)
(* the connection in use is to, or whose file is read.                       *)
NewCall ==
    [is |-> "none", phase |-> "idle", response |-> NoResponse, object |-> 0,
     session |-> NewSession, from |-> SignedOut, hub |-> Nobody, outcome |-> "none"]

Phases == {"idle", "connect", "chosen", "running", "reconnect", "again", "done"}
Outcomes == {"none", "ok", "deleted", "existing", "invalid", "transit", "nokey", "profile",
             "nouser", "failed"}

CallRecord ==
    [is: {"none"} \cup Kinds, phase: Phases, response: {NoResponse} \cup Response,
     object: Objects, session: SessionData, from: UserData, hub: {Nobody} \cup Users,
     outcome: Outcomes]

TypeOK ==
    /\ kind \in {"live", "copy"}
    /\ data \in [Objects -> SessionData] /\ current \in Objects
    /\ call \in [Calls -> CallRecord]
    /\ requests \in 0..MaxRequests /\ signOuts \in 0..MaxSignOuts
    /\ seen \in [Calls -> SUBSET Event] /\ since \in [Requests -> SUBSET Event]
    /\ spanned \in BOOLEAN /\ visited \in BOOLEAN

Init ==
    /\ kind \in {"live", "copy"}
    /\ data = [o \in Objects |-> NewSession] /\ current = 0
    /\ call = [c \in Calls |-> NewCall]
    /\ requests = 0 /\ signOuts = 0
    /\ seen = [c \in Calls |-> {}] /\ since = [k \in Requests |-> {}]
    /\ spanned = FALSE /\ visited = FALSE

Runs(c) == call[c].phase \notin {"idle", "done"}
Running(c, is) == call[c].phase = "running" /\ call[c].is = is
User == data[current].user

----------------------------------------------------------------------------
(* The stores. *)

(* getSessionData: the object, or a copy of the text.                        *)
Held(c) == IF kind = "live" THEN data[call[c].object] ELSE call[c].session

\* (seeded fault: deleteSessionData clears the user data only)
DeleteUserData ==
    /\ data' = [data EXCEPT ![current].user = SignedOut]
    /\ UNCHANGED current
\* (seeded fault: deleteSessionData keeps the transit key)
DeleteAllButKey ==
    /\ current' = IF kind = "live" THEN signOuts + 1 ELSE current
    /\ data' = [data EXCEPT
                    ![current'] = [NewSession EXCEPT !.transitKey = data[current].transitKey]]

(* deleteSessionData: a new session takes the place of the old one.          *)
DeleteSessionData ==
    /\ current' = IF kind = "live" THEN signOuts + 1 ELSE current
    /\ data' = [data EXCEPT ![current'] = NewSession]

(* setSessionData with the session that call c has held, changed.            *)
SetSessionData(c, session) ==
    /\ data' = [data EXCEPT ![IF kind = "live" THEN call[c].object ELSE 0] = session]
    /\ current' = IF kind = "live" THEN call[c].object ELSE 0

----------------------------------------------------------------------------
(* History. *)

(* Call c holds a session that is not, or need not be, the one in the store.  *)
Stale(c) == IF kind = "live" THEN call[c].object # current ELSE seen[c] \ {"moved"} # {}

(* The user may have changed since call c began.                             *)
Moved(c) == seen[c] \cap {"user", "signout", "moved"} # {}

Record(events) ==
    LET news == events \cup (IF User'.by # User.by THEN {"user"} ELSE {}) IN
    /\ seen' = [c \in Calls |-> IF Runs(c) /\ Runs(c)' THEN seen[c] \cup news ELSE {}]
    /\ since' = [k \in Requests |->
                    IF k <= requests THEN since[k] \cup news
                    ELSE IF k <= requests' /\ "unstored" \in events THEN {"unstored"} ELSE {}]

Offer(c, is) == call[c].phase = "idle" /\ is \in Offered[c]
Unwritten == UNCHANGED <<kind, data, current, requests, signOuts, spanned, visited>>

(* The call begins, and stands at an await.                                  *)
Begin(c, x) ==
    /\ call' = [call EXCEPT ![c] = x]
    /\ Unwritten /\ Record({})

Done(c, outcome) ==
    call' = [call EXCEPT ![c] = [NewCall EXCEPT
                !.is = call[c].is, !.phase = "done", !.outcome = outcome,
                !.response = IF outcome \in {"transit", "nokey"} THEN call[c].response
                             ELSE NoResponse]]

(* The call throws before its first await.                                   *)
Refuse(c, is, outcome) ==
    Begin(c, [NewCall EXCEPT !.is = is, !.phase = "done", !.outcome = outcome])

(* The call ends and has written no session.                                 *)
Reject(c, outcome) == Done(c, outcome) /\ Unwritten /\ Record({})

(* The call ends with the session written that it has held.                  *)
Resolve(c, outcome, events) ==
    /\ Done(c, outcome)
    /\ spanned' = (spanned \/ Moved(c))
    /\ UNCHANGED <<kind, requests, signOuts, visited>>
    /\ Record(events \cup (IF Stale(c) THEN {"stale"} ELSE {}))

----------------------------------------------------------------------------
(* Steps of the application that do not await. *)

(* makeAuthRequest makes a transit key and stores it in the session, unless  *)
(* the application gives one: that key is in no session.                     *)
MakeAuthRequest(given) ==
    /\ requests < MaxRequests
    /\ requests' = requests + 1
    /\ data' = IF given THEN data ELSE [data EXCEPT ![current].transitKey = requests + 1]
    /\ UNCHANGED <<kind, current, call, signOuts, spanned, visited>>
    /\ Record(IF given THEN {"unstored"} ELSE {"request"})

SignUserOut ==
    /\ signOuts < MaxSignOuts
    /\ DeleteSessionData
    /\ signOuts' = signOuts + 1
    /\ spanned' = FALSE /\ visited' = FALSE
    /\ UNCHANGED <<kind, call, requests>>
    /\ Record({"signout"})

----------------------------------------------------------------------------
(* handlePendingSignIn *)

(* Whoever answers encrypts for the public key in the request, if it has one.*)
Responses ==
    UNION {{[who |-> a.who, form |-> a.form, for |-> k, profile |-> a.profile] :
                k \in IF a.form = "sealed" THEN 1..requests ELSE {NoKey}} : a \in Answers}

BeginSignIn(c, r) ==
    /\ Offer(c, "signin") /\ r \in Responses
    /\ IF User # SignedOut THEN Refuse(c, "signin", "existing")
       ELSE Begin(c, [NewCall EXCEPT !.is = "signin", !.phase = "running", !.response = r,
                        !.object = current,
                        !.session = IF kind = "copy" THEN data[current]
                                    ELSE [data[current] EXCEPT !.etag = Nobody]])

(* The key of the application: decrypted with the transit key that was read  *)
(* when the call began; a key that is one as it stands is used as given; and *)
(* a response of version 1.1.0 or later needs a transit key in any case.      *)
AppPrivateKey(c) ==
    LET r == call[c].response  k == call[c].session.transitKey IN
    IF r.form = "legacy" THEN "none"
    ELSE IF k = NoKey THEN "missing"
    ELSE IF r.form = "plain" \/ k = r.for THEN "own" ELSE "changed"

\* (seeded fault: the transit key of a refused response is dropped)
FailsWithoutKey(c) ==
    /\ Running(c, "signin")
    /\ data' = [data EXCEPT ![current].transitKey = NoKey]
    /\ Done(c, "invalid")
    /\ UNCHANGED <<kind, current, requests, signOuts, spanned, visited>>
    /\ Record({})

(* verifyAuthResponse, and the name lookups in it, say no.                   *)
VerificationFails(c) == Running(c, "signin") /\ Reject(c, "invalid")

KeyFails(c) ==
    /\ Running(c, "signin")
    /\ \/ AppPrivateKey(c) = "missing" /\ Reject(c, "nokey")
       \/ AppPrivateKey(c) = "changed" /\ Reject(c, "transit")

(* The profile that was fetched is not a signed profile.                     *)
ProfileFails(c) ==
    /\ Running(c, "signin") /\ call[c].response.profile = "url"
    /\ AppPrivateKey(c) \notin {"missing", "changed"}
    /\ Reject(c, "profile")

ProfileOf(r) == CASE r.profile = "url" -> {"fetched", "blank"}
                  [] OTHER -> {r.profile}

\* (seeded fault: the user's data are put into a new session)
SignedInAnew(c, profile) ==
    [NewSession EXCEPT !.transitKey = Held(c).transitKey,
                       !.user = [by |-> c, who |-> call[c].response.who,
                                 key |-> AppPrivateKey(c), profile |-> profile,
                                 config |-> Nobody]]

(* The session that was read when the call began, with the user's data.      *)
SignedIn(c, profile) ==
    [Held(c) EXCEPT !.user = [by |-> c, who |-> call[c].response.who,
                              key |-> AppPrivateKey(c), profile |-> profile,
                              config |-> Nobody]]

EndSignIn(c) ==
    /\ Running(c, "signin") /\ AppPrivateKey(c) \notin {"missing", "changed"}
    /\ \E profile \in ProfileOf(call[c].response) : SetSessionData(c, SignedIn(c, profile))
    /\ Resolve(c, "ok", {})

----------------------------------------------------------------------------
(* getOrSetLocalGaiaHubConnection, setLocalGaiaHubConnection. *)

AfterConnecting(is) == IF is = "file" THEN "chosen" ELSE "running"

Connecting(is, phase) ==
    [NewCall EXCEPT !.is = is, !.phase = phase, !.from = [User EXCEPT !.config = Nobody]]

(* The config of the session, or a new one.                                  *)
GetOrSetConnection(c, is) ==
    /\ Offer(c, is)
    /\ IF User = SignedOut THEN Refuse(c, is, "nouser")
       ELSE IF User.config = Nobody THEN Begin(c, Connecting(is, "connect"))
       ELSE Begin(c, [NewCall EXCEPT !.is = is, !.phase = AfterConnecting(is),
                                     !.hub = User.config])

BeginConnect(c) ==
    /\ Offer(c, "connect")
    /\ IF User = SignedOut THEN Refuse(c, "connect", "nouser")
       ELSE Begin(c, Connecting("connect", "connect"))

Connects(c) == call[c].phase \in {"connect", "reconnect"}
ConnectFails(c) == Connects(c) /\ Reject(c, "failed")

Configured(user, c) == [user EXCEPT !.config = call[c].from.who]

(* The user data that was read is changed, which is an object of its own or  *)
(* one of a live session; then the session is read again.                    *)
OwnUserData(c) ==
    IF kind = "copy" THEN data
    ELSE [o \in Objects |-> IF data[o].user.by = call[c].from.by
                            THEN [data[o] EXCEPT !.user = Configured(@, c)] ELSE data[o]]

ConnectAfterSignOut(c) ==
    /\ Connects(c) /\ User = SignedOut
    /\ data' = OwnUserData(c)
    /\ Done(c, "nouser")
    /\ UNCHANGED <<kind, current, requests, signOuts, spanned, visited>>
    /\ Record({})

(* What the call goes on with: it is over, or it uses the connection.         *)
Connected(c) ==
    IF call[c].is = "connect" THEN Done(c, "ok")
    ELSE call' = [call EXCEPT ![c].from = SignedOut, ![c].hub = call[c].from.who,
                    ![c].phase = IF @ = "reconnect" THEN "again"
                                 ELSE AfterConnecting(call[c].is)]

\* (seeded fault: the user data that was read is put into the session)
ConnectReadUser(c) ==
    /\ Connects(c) /\ User # SignedOut
    /\ data' = [OwnUserData(c) EXCEPT ![current].user = Configured(call[c].from, c)]
    /\ Connected(c)
    /\ spanned' = (spanned \/ User.by # call[c].from.by)
    /\ UNCHANGED <<kind, current, requests, signOuts, visited>>
    /\ Record({})

EndConnect(c) ==
    /\ Connects(c) /\ User # SignedOut
    /\ data' = [OwnUserData(c) EXCEPT ![current].user = Configured(@, c)]
    /\ Connected(c)
    /\ spanned' = (spanned \/ User.by # call[c].from.by)
    /\ UNCHANGED <<kind, current, requests, signOuts, visited>>
    /\ Record({})

----------------------------------------------------------------------------
(* putFile and deleteFile: the connection, an await, the session that is     *)
(* kept, the requests, and perhaps a new connection and the requests again.  *)

BeginFile(c) == GetOrSetConnection(c, "file")

CopySession(c) ==
    /\ call[c].phase = "chosen"
    /\ call' = [call EXCEPT ![c].phase = "running", ![c].object = current,
                    ![c].session = IF kind = "copy" THEN data[current] ELSE NewSession]
    /\ seen' = [seen EXCEPT ![c] = IF Moved(c) THEN {"moved"} ELSE {}]
    /\ Unwritten /\ UNCHANGED since

FileFails(c) ==
    call[c].is = "file" /\ call[c].phase \in {"chosen", "running", "again"} /\ Reject(c, "failed")

Reconnect(c) ==
    /\ Running(c, "file")
    /\ IF User = SignedOut THEN Reject(c, "nouser")
       ELSE /\ call' = [call EXCEPT ![c].phase = "reconnect", ![c].hub = Nobody,
                            ![c].from = Connecting("file", "reconnect").from]
            /\ Unwritten /\ Record({})

Answered(c) == call[c].phase \in {"running", "again"}

(* A put stores the etag of its file, which may be another than this path's.  *)
PutDone(c) ==
    /\ call[c].is = "file" /\ Answered(c)
    /\ \E etag \in {call[c].hub, Held(c).etag} :
        SetSessionData(c, [Held(c) EXCEPT !.etag = etag])
    /\ Resolve(c, "ok", {"file"})

DeleteDone(c) ==
    /\ call[c].is = "file" /\ Answered(c)
    /\ SetSessionData(c, [Held(c) EXCEPT !.etag = Nobody])
    /\ Resolve(c, "deleted", {"file"})

----------------------------------------------------------------------------
(* getFile: the session is read and written when the file has come.          *)

BeginRead(c) == GetOrSetConnection(c, "read")

(* The core node is looked up in the user data if no lookup URL is given.    *)
BeginVisit(c) ==
    /\ Offer(c, "visit")
    /\ \/ User = SignedOut /\ Refuse(c, "visit", "nouser")
       \/ \E whose \in Users :
            Begin(c, [NewCall EXCEPT !.is = "visit", !.phase = "running", !.hub = whose])

ReadFails(c) == call[c].is \in {"read", "visit"} /\ Answered(c) /\ Reject(c, "failed")

ReadDone(c) ==
    /\ call[c].is \in {"read", "visit"} /\ Answered(c)
    /\ data' = [data EXCEPT ![current].etag = call[c].hub]
    /\ spanned' = (spanned \/ (call[c].is = "read" /\ Moved(c)))
    /\ visited' = (visited \/ (call[c].is = "visit" /\ call[c].hub # User.who))
    /\ Done(c, "ok")
    /\ UNCHANGED <<kind, current, requests, signOuts>>
    /\ Record({"file"})

(* The answer has no etag, or a put ignores etags.                           *)
WithoutEtag(c) ==
    call[c].is \in {"file", "read", "visit"} /\ Answered(c) /\ Reject(c, "ok")

----------------------------------------------------------------------------
Next ==
    \/ \E given \in BOOLEAN : MakeAuthRequest(given)
    \/ SignUserOut
    \/ \E c \in Calls :
        \/ \E r \in Responses : BeginSignIn(c, r)
        \/ VerificationFails(c) \/ KeyFails(c) \/ ProfileFails(c) \/ EndSignIn(c)
        \/ BeginConnect(c) \/ ConnectFails(c) \/ ConnectAfterSignOut(c) \/ EndConnect(c)
        \/ BeginFile(c) \/ CopySession(c) \/ FileFails(c) \/ Reconnect(c)
        \/ PutDone(c) \/ DeleteDone(c)
        \/ BeginRead(c) \/ BeginVisit(c) \/ ReadFails(c) \/ ReadDone(c) \/ WithoutEtag(c)

Spec == Init /\ [][Next]_vars

----------------------------------------------------------------------------
(* A response cannot be decrypted with the session's transit key only if,    *)
(* since its request was stored, another request was stored, the user signed *)
(* out, or a call wrote back a session it had read before one of these       *)
(* (userSession.ts:154, 350; sessionStore.ts:49).  The live store never      *)
(* loses a transit key to a call that merely overlaps the request.           *)
TransitKeyLost ==
    \A c \in Calls :
        (call[c].outcome \in {"transit", "nokey"} /\ call[c].response.form = "sealed") =>
            LET was == since[call[c].response.for] IN
            /\ was \cap {"unstored", "request", "signout", "stale"} # {}
            /\ (kind = "live" /\ "stale" \in was) => signOuts > 0

(* What one user left in the session is never used for another.  The hub     *)
(* connection is the signed-in user's, unless a call wrote to a session whose *)
(* user had changed since the call began or its connection was begun          *)
(* (storage.ts:478 and 512, 615, 829); so is the etag, unless, besides, a     *)
(* file of another user was read at its path (storage.ts:295).                *)
SessionOfOneUser ==
    /\ spanned \/ User.config \in {Nobody, User.who}
    /\ spanned \/ visited \/ data[current].etag \in {Nobody, User.who}

Ends(c, is) ==
    Runs(c) /\ call[c].is = is /\ call'[c].phase = "done" /\ call'[c].outcome \in {"ok", "deleted"}

(* Nobody becomes signed in but by his own sign-in, or by a putFile or        *)
(* deleteFile that read the session while he was and writes it back after he  *)
(* had signed out.  A hub connection or a getFile never brings a user back.   *)
SignedInBySignIn ==
    [][(User'.by # User.by /\ User'.by # Nobody) =>
        \/ Ends(User'.by, "signin")
        \/ \E c \in Calls : Ends(c, "file") /\ seen[c] \cap {"signout", "user"} # {}]_vars

(* Once signed out, the response of an earlier request (it may still be in   *)
(* the address of the page) signs nobody in: its transit key is gone, unless *)
(* a call that began before the sign-out wrote it back.                      *)
ReplayRefused ==
    [][\A c \in Calls :
        Ends(c, "signin") /\ call[c].response.form = "sealed" =>
            LET was == since[call[c].response.for] IN
            "signout" \in was => "signout" \in seen[c] \/ "stale" \in was]_vars

(* The etag of a file, once stored, is forgotten only by the deletion of that *)
(* file, by a sign-out, or by a sign-in or a file operation, of this or       *)
(* another file, that writes back a session it read before something else was *)
(* stored there; in the live store the last needs a sign-out in between.      *)
EtagForgotten ==
    [][(data[current].etag # Nobody /\ data'[current'].etag = Nobody) =>
        \/ signOuts' # signOuts
        \/ \E c \in Calls :
            \/ Ends(c, "file") /\ (call'[c].outcome = "deleted" \/ Stale(c))
            \/ Ends(c, "signin") /\ Stale(c)]_vars
=============================================================================
