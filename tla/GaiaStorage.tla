----------------------------- MODULE GaiaStorage -----------------------------
(***************************************************************************)
(* The Gaia client of packages/storage/src/storage.ts: putFile, getFile    *)
(* and deleteFile as the chains of continuations between their awaits, the *)
(* session record they keep in localStorage (packages/auth), and the       *)
(* sign-in and sign-out that can happen in the middle of them.             *)
(*                                                                         *)
(* A session is one localStorage entry; the calls of a session are the     *)
(* storage operations of the pages that share it.  Every                   *)
(* getSessionData() is a copy of the entry and every setSessionData(d)     *)
(* replaces the whole entry, so a copy taken before an await is old news   *)
(* when it is written back.                                                *)
(***************************************************************************)
EXTENDS GaiaHub

CONSTANTS
    Sessions,     \* localStorage entries (browser profiles, devices)
    SessionOf,    \* the session each call belongs to
    Accounts,     \* the users who sign in on each session
    Offered,      \* the operations, with their options, the application makes
    MaxPuts,      \* bound: putFile calls
    MaxSignOuts   \* bound: times a session is signed out

Modes == {"plain", "sealed", "signed"}
    \* putFile: neither encrypted nor signed; encrypted; signed only.
    \* deleteFile: "signed" is wasSigned.

Option == [kind: {"put", "get", "delete"}, path: Paths, mode: Modes,
           ignore: BOOLEAN,             \* dangerouslyIgnoreEtag
           of: Users \cup {Nobody}]     \* getFile's username, Nobody: own files

ASSUME StorageAssumption ==
    /\ SessionOf \in [Calls -> Sessions]
    /\ Accounts \in [Sessions -> SUBSET Users]
    /\ Offered \in SUBSET Option
    /\ MaxPuts \in Nat
    /\ MaxSignOuts \in Nat

VARIABLES
    store,        \* the session data in localStorage
    op,           \* what each call is doing
    seen,         \* history: the etags a session has received
    used          \* counters behind MaxPuts and MaxSignOuts

vars == <<files, clock, epoch, net, effects, mishaps, store, op, seen, used>>

NoConfig == [user |-> Nobody, epoch |-> 0]
Config == [user: Users, epoch: Nat] \cup {NoConfig}    \* GaiaHubConfig

SessionData == [user: Users \cup {Nobody}, config: Config, etags: [Paths -> Nat]]
EmptySession == [user |-> Nobody, config |-> NoConfig, etags |-> [p \in Paths |-> 0]]

Settled == {"idle", "resolved", "rejected"}
Phases == Settled \cup {"connect", "begin", "encode", "wait"}

Operation ==
    [opt: Option, phase: Phases,
     try: 1..2,             \* first attempt, or the one after reconnecting
     cfg: Config,           \* the hub config of this attempt
     first: Config,         \* gaiaHubConfig of the first attempt
     snap: SessionData,     \* sessionData, read before the requests
     etag: Nat,             \* 0: newFile
     got: SUBSET Parts,     \* requests of this attempt that succeeded
     written: Nat,          \* writeResponse.etag
     status: Statuses]      \* the HTTP status it was rejected with, if any

TypeOK ==
    /\ HubTypeOK
    /\ store \in [Sessions -> SessionData]
    /\ op \in [Calls -> Operation]
    /\ seen \in [Sessions -> SUBSET Nat]
    /\ used \in [puts: Nat, signOuts: Nat]

NewOperation(o, ph, cfg) ==
    [opt |-> o, phase |-> ph, try |-> 1, cfg |-> cfg, first |-> cfg,
     snap |-> EmptySession, etag |-> 0, got |-> {}, written |-> 0, status |-> Pending]

NoOption ==
    [kind |-> "get", path |-> CHOOSE p \in Paths : TRUE, mode |-> "plain",
     ignore |-> FALSE, of |-> Nobody]

Init ==
    /\ HubInit
    /\ store = [s \in Sessions |-> EmptySession]
    /\ op = [c \in Calls |-> NewOperation(NoOption, "idle", NoConfig)]
    /\ seen = [s \in Sessions |-> {}]
    /\ used = [puts |-> 0, signOuts |-> 0]

----------------------------------------------------------------------------
Session(c) == store[SessionOf[c]]
Path(c) == op[c].opt.path
SignedIn(c) == Session(c).user # Nobody

\* The promise of call c settles; what the call kept is garbage.
Settle(c, outcome, code) ==
    op' = [op EXCEPT ![c] = [NewOperation(@.opt, outcome, @.cfg)
                             EXCEPT !.try = op[c].try, !.status = code]]

Reject(c, code) == Settle(c, "rejected", code)

WriteBack(c, d) == store' = [store EXCEPT ![SessionOf[c]] = d]

Learn(c, v) == seen' = [seen EXCEPT ![SessionOf[c]] = @ \cup {v}]

hubState == <<files, clock, epoch, effects, mishaps>>

----------------------------------------------------------------------------
(* Starting an operation: getOrSetLocalGaiaHubConnection.                  *)

Idle(c) == op[c].phase \in Settled /\ \A e \in net : e.call # c

\* (seeded fault: nobody checks that a user is signed in)
ConnectionUnchecked(c, o) ==
    LET d == Session(c) IN
    \/ /\ d.config # NoConfig
       /\ op' = [op EXCEPT ![c] = NewOperation(o, "begin", d.config)]
       /\ UNCHANGED net
    \/ /\ d.config = NoConfig
       /\ op' = [op EXCEPT ![c] = NewOperation(o, "connect", NoConfig)]
       /\ net' = net \cup {InfoRequest(c, 1, d.user, o.path)}

GetOrSetConnection(c, o) ==
    LET d == Session(c) IN
    \/ /\ d.user = Nobody               \* InvalidStateError
       /\ op' = [op EXCEPT ![c] = NewOperation(o, "rejected", NoConfig)]
       /\ UNCHANGED net
    \/ /\ d.user # Nobody /\ d.config # NoConfig
       /\ op' = [op EXCEPT ![c] = NewOperation(o, "begin", d.config)]
       /\ UNCHANGED net
    \/ /\ d.user # Nobody /\ d.config = NoConfig
       /\ op' = [op EXCEPT ![c] = NewOperation(o, "connect", NoConfig)]
       /\ net' = net \cup {InfoRequest(c, 1, d.user, o.path)}

Start(c, o) ==
    /\ Idle(c)
    /\ effects' = [effects EXCEPT ![c] = {}]
    /\ UNCHANGED <<files, clock, epoch, mishaps, store, seen>>

PutFile(c, o) ==
    /\ o.kind = "put" /\ used.puts < MaxPuts
    /\ used' = [used EXCEPT !.puts = @ + 1]
    /\ Start(c, o)
    /\ GetOrSetConnection(c, o)

GetFile(c, o) ==
    /\ o.kind = "get" /\ o.of = Nobody
    /\ Start(c, o)
    /\ GetOrSetConnection(c, o)
    /\ UNCHANGED used

\* A multi-player read finds the owner's bucket in the owner's profile.
GetForeignFile(c, o) ==
    /\ o.kind = "get" /\ o.of # Nobody
    /\ Start(c, o)
    /\ IF SignedIn(c)
       THEN /\ op' = [op EXCEPT ![c] = NewOperation(o, "wait", NoConfig)]
            /\ net' = net \cup {GetRequest(c, o.of, o.path)}
       ELSE /\ op' = [op EXCEPT ![c] = NewOperation(o, "rejected", NoConfig)]
            /\ UNCHANGED net
    /\ UNCHANGED used

DeleteFile(c, o) ==
    /\ o.kind = "delete"
    /\ Start(c, o)
    /\ GetOrSetConnection(c, o)
    /\ UNCHANGED used

----------------------------------------------------------------------------
(* Requests of an attempt. *)

\* uploadFn: one POST, or two in parallel when signing without encrypting.
\* The .sig upload never passes newFile, etag or dangerouslyIgnoreEtag on.
Uploads(c, k, cfg, etag) ==
    LET o == op[c].opt IN
    {PostRequest(c, k, cfg, o.path, "content", etag = 0, etag, o.ignore)}
    \cup (IF o.mode = "signed"
          THEN {PostRequest(c, k, cfg, o.path, "sig", TRUE, 0, FALSE)} ELSE {})

\* (seeded fault: a second delete attempt goes straight to the signature)
DeleteRetryResumes(c, k, cfg) ==
    IF op[c].opt.kind = "put" THEN Uploads(c, k, cfg, op[c].etag)
    ELSE {DeleteRequest(c, k, cfg, Path(c), IF k = 2 THEN "sig" ELSE "content")}

Requests(c, k, cfg) ==
    IF op[c].opt.kind = "put" THEN Uploads(c, k, cfg, op[c].etag)
    ELSE {DeleteRequest(c, k, cfg, Path(c), "content")}

Awaited(c, e) ==    \* call c is waiting for the answer to e
    /\ e.call = c /\ e.try = op[c].try
    /\ op[c].phase \in {"connect", "wait"}

\* The pages read an answer that nobody waits for any more.
DropAnswer(e) ==
    /\ Answered(e) /\ ~Awaited(e.call, e)
    /\ net' = net \ {e}
    /\ UNCHANGED <<hubState, store, op, seen, used>>

----------------------------------------------------------------------------
(* setLocalGaiaHubConnection, after connectToGaiaHub has answered.         *)

ConnectFails(c, e) ==
    /\ e.status # 200
    /\ Reject(c, e.status)
    /\ net' = net \ {e}
    /\ UNCHANGED store

\* `sessionData.userData!.gaiaHubConfig = ...` on a signed-out session
ConnectAfterSignOut(c, e) ==
    /\ e.status = 200 /\ ~SignedIn(c)
    /\ Reject(c, Pending)
    /\ net' = net \ {e}
    /\ UNCHANGED store

\* (seeded fault: putFile tries again with the config that failed)
ConnectRetriesOldConfig(c, e) ==
    /\ e.status = 200 /\ SignedIn(c)
    /\ LET cfg == [user |-> e.file.user, epoch |-> e.value] IN
        /\ WriteBack(c, [Session(c) EXCEPT !.config = cfg])
        /\ IF e.try = 1
           THEN /\ op' = [op EXCEPT ![c].phase = "begin", ![c].cfg = cfg, ![c].first = cfg]
                /\ net' = net \ {e}
           ELSE /\ op' = [op EXCEPT ![c].phase = "wait", ![c].cfg = cfg]
                /\ net' = (net \ {e}) \cup Requests(c, 2, op[c].cfg)

Connect(c, e) ==
    /\ e.status = 200 /\ SignedIn(c)
    /\ LET cfg == [user |-> e.file.user, epoch |-> e.value] IN
        /\ WriteBack(c, [Session(c) EXCEPT !.config = cfg])
        /\ IF e.try = 1
           THEN /\ op' = [op EXCEPT ![c].phase = "begin", ![c].cfg = cfg, ![c].first = cfg]
                /\ net' = net \ {e}
           ELSE /\ op' = [op EXCEPT ![c].phase = "wait", ![c].cfg = cfg]
                /\ net' = (net \ {e}) \cup Requests(c, 2, cfg)

Connected(c, e) ==
    /\ Awaited(c, e) /\ Answered(e) /\ op[c].phase = "connect"
    /\ ConnectFails(c, e) \/ ConnectAfterSignOut(c, e) \/ Connect(c, e)
    /\ UNCHANGED <<hubState, seen, used>>

\* (seeded fault: the second attempt believes what the first has done)
ReconnectKeepsParts(c, e) ==
    IF SignedIn(c)
    THEN /\ op' = [op EXCEPT ![c].phase = "connect", ![c].try = 2, ![c].written = 0]
         /\ net' = (net \ {e}) \cup {InfoRequest(c, 2, Session(c).user, Path(c))}
    ELSE Reject(c, Pending) /\ net' = net \ {e}

\* Any error of a first attempt that is worth retrying ends up here.
Reconnect(c, e) ==
    IF SignedIn(c)
    THEN /\ op' = [op EXCEPT ![c].phase = "connect", ![c].try = 2,
                             ![c].got = {}, ![c].written = 0]
         /\ net' = (net \ {e}) \cup {InfoRequest(c, 2, Session(c).user, Path(c))}
    ELSE Reject(c, Pending) /\ net' = net \ {e}

----------------------------------------------------------------------------
(* putFile *)

\* The content exceeds the hub's max_file_upload_size_megabytes.
PutOversized(c) ==
    /\ op[c].phase = "begin" /\ op[c].opt.kind = "put"
    /\ Reject(c, Pending)
    /\ UNCHANGED <<hubState, net, store, seen, used>>

KnownEtag(c) == IF op[c].opt.ignore THEN 0 ELSE Session(c).etags[Path(c)]

\* Read the session, then upload or, when encrypting or signing, load the
\* content first.
PutBegin(c) ==
    /\ op[c].phase = "begin" /\ op[c].opt.kind = "put"
    /\ \/ /\ op[c].opt.mode = "plain"
          /\ op' = [op EXCEPT ![c].phase = "wait", ![c].snap = Session(c),
                              ![c].etag = KnownEtag(c)]
          /\ net' = net \cup Uploads(c, 1, op[c].cfg, KnownEtag(c))
       \/ /\ op[c].opt.mode = "sealed" /\ ~SignedIn(c)      \* loadUserData
          /\ Reject(c, Pending)
          /\ UNCHANGED net
       \/ /\ op[c].opt.mode = "signed" \/ (op[c].opt.mode = "sealed" /\ SignedIn(c))
          /\ op' = [op EXCEPT ![c].phase = "encode", ![c].snap = Session(c),
                              ![c].etag = KnownEtag(c)]
          /\ UNCHANGED net
    /\ UNCHANGED <<hubState, store, seen, used>>

\* The content is loaded; encrypting and signing need the app private key.
PutEncode(c) ==
    /\ op[c].phase = "encode" /\ op[c].opt.kind = "put"
    /\ IF SignedIn(c)
       THEN /\ op' = [op EXCEPT ![c].phase = "wait"]
            /\ net' = net \cup Uploads(c, 1, op[c].cfg, op[c].etag)
       ELSE /\ Reject(c, Pending)
            /\ UNCHANGED net
    /\ UNCHANGED <<hubState, store, seen, used>>

AllParts(o) == IF o.mode = "signed" THEN Parts ELSE {"content"}

WriteEtag(c, e) == IF e.file.part = "content" THEN e.value ELSE op[c].written

PutPartDone(c, e) ==    \* Promise.all is still waiting for the other upload
    /\ e.status = 200 /\ op[c].got \cup {e.file.part} # AllParts(op[c].opt)
    /\ op' = [op EXCEPT ![c].got = op[c].got \cup {e.file.part},
                     ![c].written = WriteEtag(c, e)]
    /\ net' = net \ {e}
    /\ Learn(c, WriteEtag(c, e))
    /\ UNCHANGED store

\* (seeded fault: a signed put resolves with the first of its two uploads)
PutResolvesEarly(c, e) ==
    /\ e.status = 200
    /\ WriteBack(c, [op[c].snap EXCEPT !.etags[Path(c)] = WriteEtag(c, e)])
    /\ Settle(c, "resolved", 200)
    /\ net' = net \ {e}
    /\ Learn(c, WriteEtag(c, e))

\* (seeded fault: the new etag is not kept)
PutForgetsEtag(c, e) ==
    /\ e.status = 200 /\ op[c].got \cup {e.file.part} = AllParts(op[c].opt)
    /\ WriteBack(c, op[c].snap)
    /\ Settle(c, "resolved", 200)
    /\ net' = net \ {e}
    /\ Learn(c, WriteEtag(c, e))

\* The etag goes into the copy of the session, the copy into localStorage.
PutResolves(c, e) ==
    /\ e.status = 200 /\ op[c].got \cup {e.file.part} = AllParts(op[c].opt)
    /\ IF op[c].opt.mode = "signed" /\ op[c].opt.ignore
       THEN UNCHANGED store
       ELSE WriteBack(c, [op[c].snap EXCEPT !.etags[Path(c)] = WriteEtag(c, e)])
    /\ Settle(c, "resolved", 200)
    /\ net' = net \ {e}
    /\ Learn(c, WriteEtag(c, e))

\* isRecoverableGaiaError, for the errors getBlockstackErrorFromResponse
\* makes: a 5xx becomes a plain Error, which has no hubError.
Recoverable(code) == code \in {401, 409}

PutFails(c, e) ==
    /\ e.status # 200
    /\ IF Recoverable(e.status) /\ op[c].try = 1
       THEN Reconnect(c, e)
       ELSE Reject(c, e.status) /\ net' = net \ {e}
    /\ UNCHANGED <<store, seen>>

PutAnswered(c, e) ==
    /\ Awaited(c, e) /\ Answered(e)
    /\ op[c].phase = "wait" /\ op[c].opt.kind = "put"
    /\ PutPartDone(c, e) \/ PutResolves(c, e) \/ PutFails(c, e)
    /\ UNCHANGED <<hubState, used>>

----------------------------------------------------------------------------
(* getFile *)

GetBegin(c) ==
    /\ op[c].phase = "begin" /\ op[c].opt.kind = "get"
    /\ op' = [op EXCEPT ![c].phase = "wait"]
    /\ net' = net \cup {GetRequest(c, op[c].cfg.user, Path(c))}
    /\ UNCHANGED <<hubState, store, seen, used>>

\* The session is read again here: only the etag of this path changes, but
\* it is the path's etag whoever's bucket the file came from.
GetAnswered(c, e) ==
    /\ Awaited(c, e) /\ Answered(e)
    /\ op[c].phase = "wait" /\ op[c].opt.kind = "get"
    /\ net' = net \ {e}
    /\ IF e.status = 200
       THEN /\ WriteBack(c, [Session(c) EXCEPT !.etags[Path(c)] = e.value])
            /\ Learn(c, e.value)
            /\ Settle(c, "resolved", 200)
       ELSE /\ Reject(c, e.status)
            /\ UNCHANGED <<store, seen>>
    /\ UNCHANGED <<hubState, used>>

----------------------------------------------------------------------------
(* deleteFile *)

DeleteBegin(c) ==
    /\ op[c].phase = "begin" /\ op[c].opt.kind = "delete"
    /\ op' = [op EXCEPT ![c].phase = "wait", ![c].snap = Session(c)]
    /\ net' = net \cup Requests(c, 1, op[c].cfg)
    /\ UNCHANGED <<hubState, store, seen, used>>

\* The signature file goes second, with the first config in both attempts.
DeletePartDone(c, e) ==
    /\ e.status = 200 /\ e.file.part = "content" /\ op[c].opt.mode = "signed"
    /\ op' = [op EXCEPT ![c].got = {"content"}]
    /\ net' = (net \ {e}) \cup {DeleteRequest(c, op[c].try, op[c].first, Path(c), "sig")}
    /\ UNCHANGED store

DeleteResolves(c, e) ==
    /\ e.status = 200 /\ (e.file.part = "sig" \/ op[c].opt.mode # "signed")
    /\ WriteBack(c, [op[c].snap EXCEPT !.etags[Path(c)] = 0])
    /\ Settle(c, "resolved", 200)
    /\ net' = net \ {e}

\* (seeded fault: a file that is not there counts as deleted)
DeleteMissingResolves(c, e) ==
    /\ e.status # 200
    /\ IF e.status = 404 THEN Settle(c, "resolved", 200) /\ net' = net \ {e}
       ELSE IF op[c].try = 1 THEN Reconnect(c, e)
       ELSE Reject(c, e.status) /\ net' = net \ {e}
    /\ UNCHANGED store

\* (seeded fault: every failed attempt is followed by another)
DeleteRetriesForever(c, e) ==
    /\ e.status # 200
    /\ Reconnect(c, e)
    /\ UNCHANGED store

DeleteFails(c, e) ==
    /\ e.status # 200
    /\ IF op[c].try = 1
       THEN Reconnect(c, e)
       ELSE Reject(c, e.status) /\ net' = net \ {e}
    /\ UNCHANGED store

DeleteAnswered(c, e) ==
    /\ Awaited(c, e) /\ Answered(e)
    /\ op[c].phase = "wait" /\ op[c].opt.kind = "delete"
    /\ DeletePartDone(c, e) \/ DeleteResolves(c, e) \/ DeleteFails(c, e)
    /\ UNCHANGED <<hubState, seen, used>>

----------------------------------------------------------------------------
(* The session, from outside of the storage package. *)

\* The last step of handlePendingSignIn, which refuses a session that has a
\* user.  AuthSession has the steps before it.
SignIn(s, u) ==
    /\ store[s].user = Nobody
    /\ store' = [store EXCEPT ![s].user = u, ![s].config = NoConfig]
    /\ UNCHANGED <<hubState, net, op, seen, used>>

\* signUserOut: deleteSessionData
SignOut(s) ==
    /\ store[s] # EmptySession /\ used.signOuts < MaxSignOuts
    /\ used' = [used EXCEPT !.signOuts = @ + 1]
    /\ store' = [store EXCEPT ![s] = EmptySession]
    /\ UNCHANGED <<hubState, net, op, seen>>

----------------------------------------------------------------------------
Invoke(c) ==
    \E o \in Offered :
        PutFile(c, o) \/ GetFile(c, o) \/ GetForeignFile(c, o) \/ DeleteFile(c, o)

Continue(c) ==      \* a continuation of call c runs
    \/ PutOversized(c) \/ PutBegin(c) \/ PutEncode(c)
    \/ GetBegin(c) \/ DeleteBegin(c)
    \/ \E e \in net : Connected(c, e) \/ PutAnswered(c, e)
                      \/ GetAnswered(c, e) \/ DeleteAnswered(c, e)

Hub(e) ==
    /\ HubServe(e) \/ HubFails(e) \/ HubConflict(e) \/ LoseRequest(e) \/ LoseAnswer(e)
    /\ UNCHANGED <<store, op, seen, used>>

Expire(u) == ExpireTokens(u) /\ UNCHANGED <<store, op, seen, used>>

Next ==
    \/ \E c \in Calls : Invoke(c) \/ Continue(c)
    \/ \E e \in net : Hub(e) \/ DropAnswer(e)
    \/ \E u \in Users : Expire(u)
    \/ \E s \in Sessions : SignOut(s) \/ \E u \in Accounts[s] : SignIn(s, u)

Spec == Init /\ [][Next]_vars

\* The event loop runs every continuation whose promise has settled, and
\* every request is answered or fails.  Nothing forces the application to
\* call anything, tokens to expire or faults to happen.
FairSpec ==
    /\ Spec
    /\ \A c \in Calls :
        /\ WF_vars(Continue(c))
        /\ WF_vars(\E e \in net : e.call = c /\ Hub(e))

----------------------------------------------------------------------------
(* Properties *)

Wrote(c, f, v) == [verb |-> "post", file |-> f, version |-> v] \in effects'[c]

\* An upload replaces an existing version of a file only when the session it
\* runs in has received that version's etag before, or when its caller asked
\* putFile to ignore etags; a .sig file is never replaced.  (The If-Match and
\* If-None-Match headers of putFile, through stale copies of the session,
\* multi-player reads, retries and abandoned uploads.)
NoUnseenOverwrite ==
    [][\A f \in File :
        files[f] # 0 /\ files'[f] \notin {0, files[f]} =>
            /\ f.part = "content"
            /\ \E c \in Calls :
                /\ Wrote(c, f, files'[f])
                /\ op[c].opt.ignore \/ files[f] \in seen[SessionOf[c]]]_vars

Did(c, verb, part) == \E x \in effects[c] : x.verb = verb /\ x.file.part = part

\* deleteFile resolves only when the hub has removed the file for this call,
\* and with wasSigned its signature too, however the attempts went.
DeleteOutcome ==
    \A c \in Calls :
        op[c].opt.kind = "delete" /\ op[c].phase = "resolved" =>
            /\ Did(c, "delete", "content")
            /\ op[c].opt.mode = "signed" => Did(c, "delete", "sig")

\* putFile resolves only when its own upload was stored; when it is rejected
\* with an HTTP status and uploads one file, the hub has stored nothing for it.
PutOutcome ==
    \A c \in Calls : op[c].opt.kind = "put" =>
        /\ op[c].phase = "resolved" =>
            \A part \in AllParts(op[c].opt) : Did(c, "post", part)
        /\ op[c].phase = "rejected" /\ op[c].status \notin {Pending, Lost}
           /\ op[c].opt.mode # "signed" => effects[c] = {}

\* A put writes the content at most once, its retry included; only a signed
\* put, one of whose two uploads can succeed while the other is tried again,
\* writes it twice, if it ignores etags or the file was deleted in between.
PutWritesOnce ==
    [][\A c \in Calls : \A x \in effects'[c] \ effects[c] :
        x.verb = "post" /\ x.file.part = "content" /\ Did(c, "post", "content") =>
            /\ op[c].opt.mode = "signed"
            /\ op[c].opt.ignore \/ files[x.file] = 0]_vars

\* A put that is refused for its token was refused with a token renewed
\* during the put, which has expired since.
RenewalHelps ==
    \A c \in Calls :
        op[c].opt.kind = "put" /\ op[c].phase = "rejected" /\ op[c].status = 401 =>
            op[c].try = 2 /\ op[c].cfg.epoch < epoch[op[c].cfg.user]

\* The put that resolves leaves in localStorage, as the etag of its path, a
\* version of that file which this very call wrote.
PutRemembersItsVersion ==
    [][\A c \in Calls :
        op[c].opt.kind = "put" /\ op[c].phase = "wait" /\ op'[c].phase = "resolved" =>
            \/ op[c].opt.mode = "signed" /\ op[c].opt.ignore
            \/ Wrote(c, [user |-> op[c].cfg.user, path |-> Path(c), part |-> "content"],
                     store'[SessionOf[c]].etags[Path(c)])]_vars

\* A request of call c about a part of its file, or its answer, is on its way.
UnderWay(c, verb, part) ==
    \E e \in net : Awaited(c, e) /\ e.verb = verb /\ e.file.part = part

\* All that call c still needs is on its way.
InHand(c) ==
    /\ op[c].phase = "connect" => UnderWay(c, "info", "content")
    /\ op[c].phase = "wait" =>
        /\ op[c].got \in (SUBSET AllParts(op[c].opt)) \ {AllParts(op[c].opt)}
        /\ op[c].opt.kind = "put" => \A part \in AllParts(op[c].opt) :
            part \in op[c].got <=> ~UnderWay(c, "post", part)
        /\ op[c].opt.kind = "get" => UnderWay(c, "get", "content")
        /\ op[c].opt.kind = "delete" =>
            /\ "sig" \notin op[c].got
            /\ UnderWay(c, "delete", IF "content" \in op[c].got THEN "sig" ELSE "content")

\* No call waits in vain: whatever failed, whoever signed out and however many
\* uploads an earlier attempt has left behind, each answer that a call still
\* needs in this attempt will come, and none comes twice.  (What CallsSettle
\* rests on, but for fairness.)
NobodyWaitsInVain == \A c \in Calls : InHand(c)

\* Every operation settles, whatever fails on the way.
CallsSettle == \A c \in Calls : op[c].phase \notin Settled ~> op[c].phase \in Settled
=============================================================================
