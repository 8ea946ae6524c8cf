------------------------- MODULE GaiaStorageProofs -------------------------
(***************************************************************************)
(* Theorems about the Gaia client, for every number of calls, sessions,    *)
(* users and paths, every choice of operations, and every bound on         *)
(* failures and expiries: the types; that nothing unseen is overwritten;   *)
(* that the client keeps the promise of ConditionalFiles, and what it says *)
(* when a put or a delete settles is what happened at the hub; that no     *)
(* call waits in vain.                                                     *)
(***************************************************************************)
EXTENDS GaiaPromise, TLAPS

----------------------------------------------------------------------------
(* The values the model builds have the types TypeOK names. *)

\* The requests that hub.ts builds are exchanges waiting for an answer.
LEMMA RequestTypes ==
    ASSUME NEW c \in Calls, NEW k \in 1..2, NEW u \in Users, NEW p \in Paths,
           NEW cfg \in [user: Users, epoch: Nat], NEW part \in Parts,
           NEW b \in BOOLEAN, NEW i \in BOOLEAN, NEW v \in Nat
    PROVE  /\ InfoRequest(c, k, u, p) \in Exchange
           /\ GetRequest(c, u, p) \in Exchange
           /\ PostRequest(c, k, cfg, p, part, b, v, i) \in Exchange
           /\ DeleteRequest(c, k, cfg, p, part) \in Exchange
  BY DEF InfoRequest, GetRequest, PostRequest, DeleteRequest, Exchange, File,
         Parts, Verbs, Statuses, Pending, Lost

\* An empty session and a new operation are what TypeOK says they are.
LEMMA RecordTypes ==
    /\ NoConfig \in Config
    /\ EmptySession \in SessionData
    /\ NoOption \in Option
    /\ \A o \in Option, ph \in Phases, cfg \in Config : NewOperation(o, ph, cfg) \in Operation
  <1>1. NoConfig \in Config
    BY DEF NoConfig, Config
  <1>2. EmptySession \in SessionData
    BY <1>1 DEF EmptySession, SessionData
  <1>3. NoOption \in Option
    BY HubAssumption DEF NoOption, Option, Modes
  <1>4. ASSUME NEW o \in Option, NEW ph \in Phases, NEW cfg \in Config
        PROVE  NewOperation(o, ph, cfg) \in Operation
    BY <1>2 DEF NewOperation, Operation, Statuses, Pending
  <1>5. QED
    BY <1>1, <1>2, <1>3, <1>4


----------------------------------------------------------------------------
(* Type correctness.  TypeOK is not inductive: the address of a request is  *)
(* the user of a hub config, so an operation that is about to send one must *)
(* have a config.                                                           *)

ConfigInPlace ==
    \A c \in Calls :
        /\ op[c].phase \in {"begin", "encode"} =>
              op[c].cfg # NoConfig /\ op[c].first # NoConfig
        /\ op[c].phase = "wait" /\ op[c].opt.kind # "get" =>
              op[c].cfg # NoConfig /\ op[c].first # NoConfig
        /\ op[c].phase = "connect" /\ op[c].try = 2 =>
              op[c].opt.kind # "get" /\ op[c].first # NoConfig

TypeInv == TypeOK /\ ConfigInPlace

\* A session or a config that is not empty names a user.
LEMMA ConfigUser ==
    ASSUME NEW cfg \in Config, cfg # NoConfig
    PROVE  cfg \in [user: Users, epoch: Nat]
  BY DEF Config

\* The config a reconnect obtains is one.
LEMMA NewConfig ==
    ASSUME NEW u \in Users, NEW v \in Nat
    PROVE  /\ [user |-> u, epoch |-> v] \in Config
           /\ [user |-> u, epoch |-> v] # NoConfig
  BY HubAssumption DEF Config, NoConfig

\* The uploads of an attempt are exchanges.
LEMMA UploadTypes ==
    ASSUME TypeInv, NEW c \in Calls, NEW k \in 1..2, NEW cfg \in Config,
           cfg # NoConfig, NEW v \in Nat
    PROVE  Uploads(c, k, cfg, v) \subseteq Exchange
  <1>1. op[c].opt \in Option /\ op[c].opt.path \in Paths /\ op[c].opt.ignore \in BOOLEAN
    BY DEF TypeInv, TypeOK, Operation, Option
  <1>2. cfg \in [user: Users, epoch: Nat]
    BY ConfigUser
  <1>3. /\ PostRequest(c, k, cfg, op[c].opt.path, "content", v = 0, v, op[c].opt.ignore) \in Exchange
        /\ PostRequest(c, k, cfg, op[c].opt.path, "sig", TRUE, 0, FALSE) \in Exchange
    BY <1>1, <1>2, RequestTypes DEF Parts
  <1>4. QED
    BY <1>3 DEF Uploads

\* So are the requests of either kind of attempt.
LEMMA AttemptTypes ==
    ASSUME TypeInv, NEW c \in Calls, NEW k \in 1..2, NEW cfg \in Config, cfg # NoConfig
    PROVE  Requests(c, k, cfg) \subseteq Exchange
  <1>1. op[c].etag \in Nat /\ Path(c) \in Paths
    BY DEF TypeInv, TypeOK, Operation, Option, Path
  <1>2. Uploads(c, k, cfg, op[c].etag) \subseteq Exchange
    BY <1>1, UploadTypes
  <1>3. DeleteRequest(c, k, cfg, Path(c), "content") \in Exchange
    BY <1>1, ConfigUser, RequestTypes DEF Parts
  <1>4. QED
    BY <1>2, <1>3 DEF Requests
\* What the invariant says of one call, in the form the steps use.
LEMMA CallTypes ==
    ASSUME TypeInv, NEW c \in Calls
    PROVE  /\ op[c] \in Operation /\ op[c].opt \in Option /\ Path(c) \in Paths
           /\ SessionOf[c] \in Sessions /\ Session(c) \in SessionData
           /\ Session(c).etags \in [Paths -> Nat] /\ Session(c).config \in Config
           /\ SignedIn(c) => Session(c).user \in Users
           /\ KnownEtag(c) \in Nat
  <1>1. op[c] \in Operation /\ op[c].opt \in Option /\ Path(c) \in Paths
    BY DEF TypeInv, TypeOK, Operation, Option, Path
  <1>2. SessionOf[c] \in Sessions /\ Session(c) \in SessionData
    BY StorageAssumption DEF TypeInv, TypeOK, Session
  <1>3. /\ Session(c).etags \in [Paths -> Nat] /\ Session(c).config \in Config
        /\ SignedIn(c) => Session(c).user \in Users
    BY <1>2 DEF SessionData, SignedIn
  <1>4. KnownEtag(c) \in Nat
    BY <1>1, <1>3 DEF KnownEtag
  <1>5. QED
    BY <1>1, <1>2, <1>3, <1>4

\* Replacing the record of one call by a well-typed one keeps the invariant.
LEMMA OperationStep ==
    ASSUME TypeInv, NEW c \in Calls, NEW x \in Operation,
           op' = [op EXCEPT ![c] = x],
           x.phase \in {"begin", "encode"} => x.cfg # NoConfig /\ x.first # NoConfig,
           x.phase = "wait" /\ x.opt.kind # "get" => x.cfg # NoConfig /\ x.first # NoConfig,
           x.phase = "connect" /\ x.try = 2 => x.opt.kind # "get" /\ x.first # NoConfig
    PROVE  op' \in [Calls -> Operation] /\ ConfigInPlace'
  <1>1. op \in [Calls -> Operation]
    BY DEF TypeInv, TypeOK
  <1>2. op' \in [Calls -> Operation]
    BY <1>1
  <1>3. ASSUME NEW d \in Calls
        PROVE  op'[d] = IF d = c THEN x ELSE op[d]
    BY <1>1
  <1>4. ConfigInPlace'
    BY <1>3 DEF ConfigInPlace, TypeInv
  <1>5. QED
    BY <1>2, <1>4

\* Settling a call does.
LEMMA SettleStep ==
    ASSUME TypeInv, NEW c \in Calls, NEW o \in {"resolved", "rejected"},
           NEW code \in Statuses, Settle(c, o, code)
    PROVE  op' \in [Calls -> Operation] /\ ConfigInPlace'
  <1> DEFINE n == NewOperation(op[c].opt, o, op[c].cfg)
             x == [n EXCEPT !.try = op[c].try, !.status = code]
  <1>1. op \in [Calls -> Operation] /\ op[c].cfg \in Config /\ op[c].try \in 1..2
    BY CallTypes DEF TypeInv, TypeOK, Operation
  <1>2. n \in Operation
    BY <1>1, CallTypes, RecordTypes DEF Phases, Settled
  <1>3. x \in Operation
    BY <1>1, <1>2 DEF Operation
  <1>4. x.phase = o
    BY DEF NewOperation
  <1>5. op' = [op EXCEPT ![c] = x]
    BY <1>1 DEF Settle
  <1> HIDE DEF x
  <1>6. QED
    BY <1>3, <1>4, <1>5, OperationStep
\* The hub only puts well-typed answers in place of requests.
LEMMA ReplyTypes ==
    ASSUME TypeInv, NEW e \in net, NEW code \in Statuses, NEW v \in Nat, Reply(e, code, v)
    PROVE  net' \in SUBSET Exchange
  BY DEF TypeInv, TypeOK, HubTypeOK, Reply, Exchange

\* Every step of the hub and the network keeps the types.
LEMMA HubKeepsTypes ==
    ASSUME TypeInv, NEW e \in net, HubServe(e) \/ HubFails(e) \/ HubConflict(e)
                                    \/ LoseRequest(e) \/ LoseAnswer(e)
    PROVE  HubTypeOK'
  <1>1. /\ e \in Exchange /\ e.file \in File /\ e.file.user \in Users
        /\ e.call \in Calls /\ e.verb \in Verbs
    BY DEF TypeInv, TypeOK, HubTypeOK, Exchange, File
  <1>2. /\ files \in [File -> Nat] /\ clock \in Nat /\ epoch \in [Users -> Nat]
        /\ effects \in [Calls -> SUBSET Effect] /\ mishaps \in [faults: Nat, expiries: Nat]
        /\ files[e.file] \in Nat /\ epoch[e.file.user] \in Nat
    BY <1>1 DEF TypeInv, TypeOK, HubTypeOK
  <1>3. {0, 1, 200, 401, 404, 409, 412, 500} = Statuses
    BY DEF Statuses, Pending, Lost
  <1>4. ASSUME NEW v \in Nat, e.verb \in {"post", "delete"}, Perform(e, v)
        PROVE  /\ files' \in [File -> Nat] /\ effects' \in [Calls -> SUBSET Effect]
               /\ net' \in SUBSET Exchange
    <2>1. [verb |-> e.verb, file |-> e.file,
           version |-> IF v = 0 THEN files[e.file] ELSE v] \in Effect
      BY <1>1, <1>2, <1>4 DEF Effect
    <2>2. effects' \in [Calls -> SUBSET Effect]
      BY <1>2, <1>4, <2>1 DEF Perform
    <2>3. net' \in SUBSET Exchange
      BY <1>3, <1>4, ReplyTypes DEF Perform
    <2>4. QED
      BY <1>2, <1>4, <2>2, <2>3 DEF Perform
  <1>5. CASE HubInfo(e)
    <2>1. Reply(e, 200, epoch[e.file.user])
      BY <1>5 DEF HubInfo
    <2>2. net' \in SUBSET Exchange
      BY <1>2, <1>3, <2>1, ReplyTypes
    <2>3. QED
      BY <1>2, <1>5, <2>2 DEF HubInfo, HubTypeOK
  <1>6. CASE HubGet(e)
    <2>1. CASE files[e.file] = 0
      <3>1. Reply(e, 404, 0)
        BY <1>6, <2>1 DEF HubGet
      <3>2. QED
        BY <1>2, <1>3, <1>6, <3>1, ReplyTypes DEF HubGet, HubTypeOK
    <2>2. CASE files[e.file] # 0
      <3>1. Reply(e, 200, files[e.file])
        BY <1>6, <2>2 DEF HubGet
      <3>2. QED
        BY <1>2, <1>3, <1>6, <3>1, ReplyTypes DEF HubGet, HubTypeOK
    <2>3. QED
      BY <2>1, <2>2
  <1>7. CASE HubPost(e)
    <2>1. clock + 1 \in Nat
      BY <1>2
    <2>2. QED
      BY <1>2, <1>4, <1>7, <2>1 DEF HubPost, HubTypeOK
  <1>8. CASE HubDelete(e)
    BY <1>2, <1>4, <1>8 DEF HubDelete, HubTypeOK
  <1>9. CASE HubRefuse(e)
    <2>1. Refusal(e) \in Statuses
      BY <1>3 DEF Refusal
    <2>2. QED
      BY <1>2, <1>9, <2>1, ReplyTypes DEF HubRefuse, HubTypeOK
  <1>10. CASE HubFails(e) \/ HubConflict(e) \/ LoseRequest(e) \/ LoseAnswer(e)
    <2>1. net' \in SUBSET Exchange
      BY <1>3, <1>10, ReplyTypes DEF HubFails, HubConflict, LoseRequest, LoseAnswer, Lost
    <2>2. mishaps' \in [faults: Nat, expiries: Nat]
      BY <1>2, <1>10 DEF HubFails, HubConflict, LoseRequest, LoseAnswer, Fault
    <2>3. QED
      BY <1>2, <1>10, <2>1, <2>2
      DEF HubFails, HubConflict, LoseRequest, LoseAnswer, Fault, HubTypeOK
  <1>11. QED
    BY <1>5, <1>6, <1>7, <1>8, <1>9, <1>10 DEF HubServe

\* Starting an operation keeps them.
LEMMA StartTypes ==
    ASSUME TypeInv, NEW c \in Calls, NEW o \in Option, GetOrSetConnection(c, o)
    PROVE  op' \in [Calls -> Operation] /\ ConfigInPlace' /\ net' \in SUBSET Exchange
  <1>1. /\ Session(c).config \in Config /\ (SignedIn(c) => Session(c).user \in Users)
        /\ net \in SUBSET Exchange /\ o.path \in Paths
    BY CallTypes DEF TypeInv, TypeOK, HubTypeOK, Option
  <1>2. ASSUME NEW ph \in {"rejected", "begin", "connect"}, NEW cfg \in Config,
               ph = "begin" => cfg # NoConfig, op' = [op EXCEPT ![c] = NewOperation(o, ph, cfg)]
        PROVE  op' \in [Calls -> Operation] /\ ConfigInPlace'
    <2> DEFINE x == NewOperation(o, ph, cfg)
    <2>1. x \in Operation
      BY RecordTypes DEF Phases, Settled
    <2>2. x.phase = ph /\ x.cfg = cfg /\ x.first = cfg /\ x.try = 1
      BY DEF NewOperation
    <2>3. op' = [op EXCEPT ![c] = x]
      BY <1>2
    <2> HIDE DEF x
    <2>4. /\ x.phase \in {"begin", "encode"} => x.cfg # NoConfig /\ x.first # NoConfig
          /\ x.phase # "wait" /\ x.try # 2
      BY <1>2, <2>2
    <2>5. QED
      BY <2>1, <2>3, <2>4, OperationStep
  <1>3. CASE Session(c).user = Nobody
    BY <1>1, <1>2, <1>3, RecordTypes DEF GetOrSetConnection
  <1>4. CASE Session(c).user # Nobody /\ Session(c).config # NoConfig
    BY <1>1, <1>2, <1>4, RecordTypes DEF GetOrSetConnection
  <1>5. CASE Session(c).user # Nobody /\ Session(c).config = NoConfig
    <2>1. NoConfig \in Config /\ InfoRequest(c, 1, Session(c).user, o.path) \in Exchange
      BY <1>1, <1>5, RecordTypes, RequestTypes DEF SignedIn, InfoRequest, Exchange, File,
         Parts, Verbs, Statuses, Pending, Lost
    <2>2. QED
      BY <1>1, <1>2, <1>5, <2>1 DEF GetOrSetConnection
  <1>6. QED
    BY <1>3, <1>4, <1>5
\* Facts about an exchange a call waits for.
LEMMA AnswerTypes ==
    ASSUME TypeInv, NEW e \in net
    PROVE  /\ e \in Exchange /\ e.file.user \in Users /\ e.value \in Nat
           /\ e.try \in 1..2 /\ e.status \in Statuses /\ e.file.part \in Parts
           /\ net \in SUBSET Exchange
  BY DEF TypeInv, TypeOK, HubTypeOK, Exchange, File

\* Rejecting keeps the types; so does settling in any way.
LEMMA RejectTypes ==
    ASSUME TypeInv, NEW c \in Calls, NEW code \in Statuses, Reject(c, code)
    PROVE  op' \in [Calls -> Operation] /\ ConfigInPlace'
  BY SettleStep DEF Reject

\* Two of the statuses a call settles with.
LEMMA PendingIsStatus == Pending \in Statuses /\ 200 \in Statuses
  BY DEF Statuses

\* Going back for a new hub config keeps them.
LEMMA ReconnectTypes ==
    ASSUME TypeInv, NEW c \in Calls, NEW e \in net, Reconnect(c, e),
           op[c].phase = "wait", op[c].opt.kind # "get"
    PROVE  op' \in [Calls -> Operation] /\ ConfigInPlace' /\ net' \in SUBSET Exchange
  <1>1. CASE SignedIn(c)
    <2> DEFINE x == [op[c] EXCEPT !.phase = "connect", !.try = 2, !.got = {}, !.written = 0]
    <2>1. op' = [op EXCEPT ![c] = x]
      BY <1>1, CallTypes DEF Reconnect, TypeInv, TypeOK
    <2>2. x \in Operation
      <3>1. op[c] \in Operation /\ "connect" \in Phases /\ 2 \in 1..2
        BY CallTypes DEF Phases
      <3>2. \A y \in Operation : [y EXCEPT !.phase = "connect", !.try = 2, !.got = {},
                                            !.written = 0] \in Operation
        BY <3>1 DEF Operation
      <3>3. QED
        BY <3>1, <3>2
    <2>3. /\ x.phase = "connect" /\ x.opt = op[c].opt /\ x.first = op[c].first
          /\ op[c].first # NoConfig
      BY CallTypes DEF Operation, TypeInv, ConfigInPlace
    <2> HIDE DEF x
    <2>4. op' \in [Calls -> Operation] /\ ConfigInPlace'
      BY <2>1, <2>2, <2>3, OperationStep
    <2>5. InfoRequest(c, 2, Session(c).user, Path(c)) \in Exchange
      <3>1. Session(c).user \in Users /\ Path(c) \in Paths
        BY <1>1, CallTypes
      <3>2. QED
        BY <3>1 DEF InfoRequest, Exchange, File, Parts, Verbs, Statuses, Pending, Lost
    <2>6. QED
      BY <1>1, <2>4, <2>5, AnswerTypes DEF Reconnect
  <1>2. CASE ~SignedIn(c)
    BY <1>2, RejectTypes, PendingIsStatus, AnswerTypes DEF Reconnect
  <1>3. QED
    BY <1>1, <1>2

\* The answer to hub_info keeps them.
LEMMA ConnectedTypes ==
    ASSUME TypeInv, NEW c \in Calls, NEW e \in net, Connected(c, e)
    PROVE  TypeInv'
  <1> USE DEF Connected
  <1>1. /\ UNCHANGED <<files, clock, epoch, effects, mishaps, seen, used>>
        /\ Awaited(c, e) /\ op[c].phase = "connect"
    BY DEF hubState
  <1>2. SUFFICES /\ op' \in [Calls -> Operation] /\ ConfigInPlace'
                 /\ net' \in SUBSET Exchange /\ store' \in [Sessions -> SessionData]
    BY <1>1 DEF TypeInv, TypeOK, HubTypeOK
  <1>3. store \in [Sessions -> SessionData]
    BY DEF TypeInv, TypeOK
  <1>4. CASE ConnectFails(c, e)
    BY <1>3, <1>4, RejectTypes, AnswerTypes DEF ConnectFails
  <1>5. CASE ConnectAfterSignOut(c, e)
    BY <1>3, <1>5, RejectTypes, PendingIsStatus, AnswerTypes DEF ConnectAfterSignOut
  <1>6. CASE Connect(c, e)
    <2> DEFINE cfg == [user |-> e.file.user, epoch |-> e.value]
    <2>1. cfg \in Config /\ cfg # NoConfig
      BY AnswerTypes, NewConfig
    <2> HIDE DEF cfg
    <2>2. [Session(c) EXCEPT !.config = cfg] \in SessionData
      BY <2>1, CallTypes DEF SessionData
    <2>3. store' \in [Sessions -> SessionData]
      BY <1>3, <1>6, <2>2 DEF Connect, WriteBack, cfg
    <2>4. CASE e.try = 1
      <3> DEFINE x == [op[c] EXCEPT !.phase = "begin", !.cfg = cfg, !.first = cfg]
      <3>0. /\ op' = [op EXCEPT ![c].phase = "begin", ![c].cfg = cfg, ![c].first = cfg]
            /\ net' = net \ {e}
        BY <1>6, <2>4 DEF Connect, cfg
      <3>1. op' = [op EXCEPT ![c] = x] /\ net' = net \ {e}
        BY <3>0 DEF TypeInv, TypeOK
      <3>2. /\ x \in Operation /\ x.phase = "begin" /\ x.cfg = cfg /\ x.first = cfg
        BY <2>1, CallTypes DEF Operation, Phases
      <3> HIDE DEF x
      <3>3. QED
        BY <2>1, <2>3, <3>1, <3>2, OperationStep, AnswerTypes
    <2>5. CASE e.try # 1
      <3> DEFINE x == [op[c] EXCEPT !.phase = "wait", !.cfg = cfg]
      <3>0. /\ op' = [op EXCEPT ![c].phase = "wait", ![c].cfg = cfg]
            /\ net' = (net \ {e}) \cup Requests(c, 2, cfg)
        BY <1>6, <2>5 DEF Connect, cfg
      <3>1. op' = [op EXCEPT ![c] = x] /\ net' = (net \ {e}) \cup Requests(c, 2, cfg)
        BY <3>0 DEF TypeInv, TypeOK
      <3>2. op[c].try = 2 /\ op[c].first # NoConfig
        BY <1>1, <2>5, AnswerTypes DEF Awaited, TypeInv, ConfigInPlace
      <3>3. /\ x \in Operation /\ x.phase = "wait" /\ x.cfg = cfg /\ x.first = op[c].first
        BY <2>1, CallTypes DEF Operation, Phases
      <3> HIDE DEF x
      <3>4. op' \in [Calls -> Operation] /\ ConfigInPlace'
        BY <2>1, <3>1, <3>2, <3>3, OperationStep
      <3>5. net' \in SUBSET Exchange
        BY <2>1, <3>1, AttemptTypes, AnswerTypes
      <3>6. QED
        BY <2>3, <3>4, <3>5
    <2>6. QED
      BY <2>4, <2>5
  <1>7. QED
    BY <1>4, <1>5, <1>6
\* Writing a session back keeps the store well-typed.
LEMMA WriteBackTypes ==
    ASSUME TypeInv, NEW c \in Calls, NEW d \in SessionData, WriteBack(c, d)
    PROVE  store' \in [Sessions -> SessionData]
  BY CallTypes DEF WriteBack, TypeInv, TypeOK

\* Learning an etag keeps the history of etags well-typed.
LEMMA LearnTypes ==
    ASSUME TypeInv, NEW c \in Calls, NEW v \in Nat, Learn(c, v)
    PROVE  seen' \in [Sessions -> SUBSET Nat]
  BY CallTypes DEF Learn, TypeInv, TypeOK

\* A session with another etag for one path is a session.
LEMMA SessionWithEtag ==
    ASSUME NEW d \in SessionData, NEW p \in Paths, NEW v \in Nat
    PROVE  [d EXCEPT !.etags[p] = v] \in SessionData
  <1>1. [d.etags EXCEPT ![p] = v] \in [Paths -> Nat]
    BY DEF SessionData
  <1>2. [d EXCEPT !.etags = [d.etags EXCEPT ![p] = v]] \in SessionData
    BY <1>1 DEF SessionData
  <1>3. QED
    BY <1>2

\* The steps of putFile between its start and its first answer.
LEMMA PutBeginTypes ==
    ASSUME TypeInv, NEW c \in Calls, PutOversized(c) \/ PutBegin(c) \/ PutEncode(c)
    PROVE  TypeInv'
  <1>1. /\ UNCHANGED <<files, clock, epoch, effects, mishaps, store, seen, used>>
        /\ op[c].opt.kind = "put" /\ op[c].phase \in {"begin", "encode"}
    BY DEF PutOversized, PutBegin, PutEncode, hubState
  <1>2. SUFFICES op' \in [Calls -> Operation] /\ ConfigInPlace' /\ net' \in SUBSET Exchange
    BY <1>1 DEF TypeInv, TypeOK, HubTypeOK
  <1>3. /\ net \in SUBSET Exchange /\ op \in [Calls -> Operation] /\ op[c] \in Operation
        /\ op[c].cfg \in Config /\ op[c].etag \in Nat
        /\ op[c].cfg # NoConfig /\ op[c].first # NoConfig
        /\ 1 \in 1..2 /\ {"wait", "encode"} \subseteq Phases
    BY <1>1, CallTypes
    DEF TypeInv, TypeOK, HubTypeOK, ConfigInPlace, Operation, Phases
  <1>4. CASE Reject(c, Pending) /\ UNCHANGED net
    BY <1>3, <1>4, RejectTypes, PendingIsStatus
  <1>5. ASSUME NEW ph \in {"wait", "encode"}, NEW d \in SessionData, NEW v \in Nat,
               op' = [op EXCEPT ![c] = [op[c] EXCEPT !.phase = ph, !.snap = d, !.etag = v]]
        PROVE  op' \in [Calls -> Operation] /\ ConfigInPlace'
    <2> DEFINE x == [op[c] EXCEPT !.phase = ph, !.snap = d, !.etag = v]
    <2>1. x \in Operation
      BY <1>3 DEF Operation
    <2>2. x.phase = ph /\ x.cfg = op[c].cfg /\ x.first = op[c].first
      BY <1>3 DEF Operation
    <2>3. op' = [op EXCEPT ![c] = x]
      BY <1>5
    <2> HIDE DEF x
    <2>4. QED
      BY <1>3, <2>1, <2>2, <2>3, OperationStep
  <1>6. CASE PutOversized(c)
    BY <1>4, <1>6 DEF PutOversized
  <1>7. CASE PutBegin(c)
    <2>1. CASE op[c].opt.mode = "plain"
      <3>1. /\ op' = [op EXCEPT ![c] = [op[c] EXCEPT !.phase = "wait", !.snap = Session(c),
                                                      !.etag = KnownEtag(c)]]
            /\ net' = net \cup Uploads(c, 1, op[c].cfg, KnownEtag(c))
        BY <1>3, <1>7, <2>1 DEF PutBegin
      <3>2. QED
        BY <1>3, <1>5, <3>1, CallTypes, UploadTypes
    <2>2. CASE op[c].opt.mode # "plain"
      <3>1. \/ Reject(c, Pending) /\ UNCHANGED net
            \/ /\ op' = [op EXCEPT ![c] = [op[c] EXCEPT !.phase = "encode",
                              !.snap = Session(c), !.etag = KnownEtag(c)]]
               /\ UNCHANGED net
        BY <1>3, <1>7, <2>2 DEF PutBegin
      <3>2. QED
        BY <1>3, <1>4, <1>5, <3>1, CallTypes
    <2>3. QED
      BY <2>1, <2>2
  <1>8. CASE PutEncode(c)
    <2>1. CASE SignedIn(c)
      <3>1. /\ op' = [op EXCEPT ![c] = [op[c] EXCEPT !.phase = "wait"]]
            /\ net' = net \cup Uploads(c, 1, op[c].cfg, op[c].etag)
        BY <1>3, <1>8, <2>1 DEF PutEncode
      <3>2. /\ op[c].snap \in SessionData
            /\ op' = [op EXCEPT ![c] = [op[c] EXCEPT !.phase = "wait",
                              !.snap = op[c].snap, !.etag = op[c].etag]]
        BY <1>3, <3>1 DEF Operation
      <3>3. QED
        BY <1>3, <1>5, <3>1, <3>2, UploadTypes
    <2>2. CASE ~SignedIn(c)
      BY <1>4, <1>8, <2>2 DEF PutEncode
    <2>3. QED
      BY <2>1, <2>2
  <1>9. QED
    BY <1>6, <1>7, <1>8

\* The answers to uploads.
LEMMA PutAnsweredTypes ==
    ASSUME TypeInv, NEW c \in Calls, NEW e \in net, PutAnswered(c, e)
    PROVE  TypeInv'
  <1>1. /\ UNCHANGED <<files, clock, epoch, effects, mishaps, used>>
        /\ op[c].opt.kind = "put" /\ op[c].phase = "wait"
    BY DEF PutAnswered, hubState
  <1>2. SUFFICES /\ op' \in [Calls -> Operation] /\ ConfigInPlace'
                 /\ net' \in SUBSET Exchange /\ store' \in [Sessions -> SessionData]
                 /\ seen' \in [Sessions -> SUBSET Nat]
    BY <1>1 DEF TypeInv, TypeOK, HubTypeOK
  <1>3. /\ op \in [Calls -> Operation] /\ op[c] \in Operation
        /\ store \in [Sessions -> SessionData] /\ seen \in [Sessions -> SUBSET Nat]
        /\ op[c].cfg # NoConfig /\ op[c].first # NoConfig
        /\ op[c].snap \in SessionData /\ Path(c) \in Paths
    BY <1>1, CallTypes DEF TypeInv, TypeOK, ConfigInPlace, Operation
  <1>4. WriteEtag(c, e) \in Nat
    BY <1>3, AnswerTypes DEF WriteEtag, Operation
  <1>5. CASE PutPartDone(c, e)
    <2> DEFINE g == op[c].got \cup {e.file.part}
               x == [op[c] EXCEPT !.got = g, !.written = WriteEtag(c, e)]
    <2>1. op' = [op EXCEPT ![c] = x]
      <3>1. op' = [op EXCEPT ![c].got = g, ![c].written = WriteEtag(c, e)]
        BY <1>5 DEF PutPartDone
      <3> HIDE DEF g
      <3>2. QED
        BY <1>3, <3>1
    <2>2. x \in Operation /\ x.phase = "wait" /\ x.cfg = op[c].cfg /\ x.first = op[c].first
      <3>1. op[c].got \cup {e.file.part} \in SUBSET Parts
        BY <1>3, AnswerTypes DEF Operation
      <3>2. QED
        BY <1>1, <1>3, <1>4, <3>1 DEF Operation
    <2> HIDE DEF x
    <2>3. op' \in [Calls -> Operation] /\ ConfigInPlace'
      BY <1>3, <2>1, <2>2, OperationStep
    <2>4. QED
      BY <1>3, <1>4, <1>5, <2>3, AnswerTypes, LearnTypes DEF PutPartDone
  <1>6. CASE PutResolves(c, e)
    <2>1. [op[c].snap EXCEPT !.etags[Path(c)] = WriteEtag(c, e)] \in SessionData
      BY <1>3, <1>4, SessionWithEtag
    <2>2. store' \in [Sessions -> SessionData]
      BY <1>3, <1>6, <2>1, WriteBackTypes DEF PutResolves
    <2>3. op' \in [Calls -> Operation] /\ ConfigInPlace'
      BY <1>6, SettleStep, PendingIsStatus DEF PutResolves
    <2>4. QED
      BY <1>4, <1>6, <2>2, <2>3, AnswerTypes, LearnTypes DEF PutResolves
  <1>7. CASE PutFails(c, e)
    <2>1. store' \in [Sessions -> SessionData] /\ seen' \in [Sessions -> SUBSET Nat]
      BY <1>3, <1>7 DEF PutFails
    <2>2. Reconnect(c, e) \/ (Reject(c, e.status) /\ net' = net \ {e})
      BY <1>7 DEF PutFails
    <2>3. QED
      BY <1>1, <2>1, <2>2, ReconnectTypes, RejectTypes, AnswerTypes
  <1>8. QED
    BY <1>5, <1>6, <1>7 DEF PutAnswered
\* The steps of getFile and deleteFile.
LEMMA GetTypes ==
    ASSUME TypeInv, NEW c \in Calls,
           GetBegin(c) \/ (\E e \in net : GetAnswered(c, e))
    PROVE  TypeInv'
  <1>1. /\ UNCHANGED <<files, clock, epoch, effects, mishaps, used>>
        /\ op[c].opt.kind = "get"
    BY DEF GetBegin, GetAnswered, hubState
  <1>2. SUFFICES /\ op' \in [Calls -> Operation] /\ ConfigInPlace'
                 /\ net' \in SUBSET Exchange /\ store' \in [Sessions -> SessionData]
                 /\ seen' \in [Sessions -> SUBSET Nat]
    BY <1>1 DEF TypeInv, TypeOK, HubTypeOK
  <1>3. /\ op \in [Calls -> Operation] /\ op[c] \in Operation /\ net \in SUBSET Exchange
        /\ store \in [Sessions -> SessionData] /\ seen \in [Sessions -> SUBSET Nat]
    BY CallTypes DEF TypeInv, TypeOK, HubTypeOK
  <1>4. CASE GetBegin(c)
    <2> DEFINE x == [op[c] EXCEPT !.phase = "wait"]
    <2>1. op' = [op EXCEPT ![c] = x]
      BY <1>3, <1>4 DEF GetBegin
    <2>2. x \in Operation /\ x.phase = "wait" /\ x.opt = op[c].opt
      BY <1>3 DEF Operation, Phases
    <2> HIDE DEF x
    <2>3. op' \in [Calls -> Operation] /\ ConfigInPlace'
      BY <1>1, <2>1, <2>2, OperationStep
    <2>4. op[c].cfg \in [user: Users, epoch: Nat]
      BY <1>3, <1>4, ConfigUser DEF GetBegin, TypeInv, ConfigInPlace, Operation
    <2>5. GetRequest(c, op[c].cfg.user, Path(c)) \in Exchange
      <3>1. op[c].cfg.user \in Users /\ Path(c) \in Paths
        BY <2>4, CallTypes
      <3>2. QED
        BY <3>1 DEF GetRequest, Exchange, File, Parts, Verbs, Statuses, Pending, Lost
    <2>6. QED
      BY <1>3, <1>4, <2>3, <2>5 DEF GetBegin
  <1>5. ASSUME NEW e \in net, GetAnswered(c, e)
        PROVE  /\ op' \in [Calls -> Operation] /\ ConfigInPlace'
               /\ net' \in SUBSET Exchange /\ store' \in [Sessions -> SessionData]
               /\ seen' \in [Sessions -> SUBSET Nat]
    <2>1. net' \in SUBSET Exchange
      BY <1>3, <1>5 DEF GetAnswered
    <2>2. CASE e.status = 200
      <3>1. [Session(c) EXCEPT !.etags[Path(c)] = e.value] \in SessionData
        BY CallTypes, AnswerTypes, SessionWithEtag
      <3>2. store' \in [Sessions -> SessionData]
        BY <1>5, <2>2, <3>1, WriteBackTypes DEF GetAnswered
      <3>3. op' \in [Calls -> Operation] /\ ConfigInPlace'
        BY <1>5, <2>2, SettleStep, PendingIsStatus DEF GetAnswered
      <3>4. QED
        BY <1>5, <2>1, <2>2, <3>2, <3>3, AnswerTypes, LearnTypes DEF GetAnswered
    <2>3. CASE e.status # 200
      BY <1>3, <1>5, <2>1, <2>3, AnswerTypes, RejectTypes DEF GetAnswered
    <2>4. QED
      BY <2>2, <2>3
  <1>6. QED
    BY <1>4, <1>5

\* The steps of deleteFile after its start.
LEMMA DeleteTypes ==
    ASSUME TypeInv, NEW c \in Calls,
           DeleteBegin(c) \/ (\E e \in net : DeleteAnswered(c, e))
    PROVE  TypeInv'
  <1>1. /\ UNCHANGED <<files, clock, epoch, effects, mishaps, seen, used>>
        /\ op[c].opt.kind = "delete" /\ op[c].phase \in {"begin", "wait"}
    BY DEF DeleteBegin, DeleteAnswered, hubState
  <1>2. SUFFICES /\ op' \in [Calls -> Operation] /\ ConfigInPlace'
                 /\ net' \in SUBSET Exchange /\ store' \in [Sessions -> SessionData]
    BY <1>1 DEF TypeInv, TypeOK, HubTypeOK
  <1>3. /\ op \in [Calls -> Operation] /\ op[c] \in Operation /\ net \in SUBSET Exchange
        /\ store \in [Sessions -> SessionData] /\ op[c].snap \in SessionData
        /\ op[c].cfg \in Config /\ op[c].cfg # NoConfig
        /\ op[c].first \in Config /\ op[c].first # NoConfig
        /\ op[c].try \in 1..2 /\ 1 \in 1..2 /\ "wait" \in Phases
    BY <1>1, CallTypes
    DEF TypeInv, TypeOK, HubTypeOK, ConfigInPlace, Operation, Phases
  <1>4. CASE DeleteBegin(c)
    <2> DEFINE x == [op[c] EXCEPT !.phase = "wait", !.snap = Session(c)]
    <2>1. op' = [op EXCEPT ![c] = x]
      BY <1>3, <1>4 DEF DeleteBegin
    <2>2. x \in Operation /\ x.phase = "wait" /\ x.cfg = op[c].cfg /\ x.first = op[c].first
      BY <1>3, CallTypes DEF Operation
    <2> HIDE DEF x
    <2>3. op' \in [Calls -> Operation] /\ ConfigInPlace'
      BY <1>3, <2>1, <2>2, OperationStep
    <2>4. Requests(c, 1, op[c].cfg) \subseteq Exchange
      BY <1>3, AttemptTypes
    <2>5. QED
      BY <1>3, <1>4, <2>3, <2>4 DEF DeleteBegin
  <1>5. ASSUME NEW e \in net, DeleteAnswered(c, e)
        PROVE  /\ op' \in [Calls -> Operation] /\ ConfigInPlace'
               /\ net' \in SUBSET Exchange /\ store' \in [Sessions -> SessionData]
    <2>1. op[c].phase = "wait"
      BY <1>5 DEF DeleteAnswered
    <2>2. CASE DeletePartDone(c, e)
      <3> DEFINE x == [op[c] EXCEPT !.got = {"content"}]
      <3>1. op' = [op EXCEPT ![c] = x]
        BY <1>3, <2>2 DEF DeletePartDone
      <3>2. x \in Operation /\ x.phase = "wait" /\ x.cfg = op[c].cfg /\ x.first = op[c].first
        BY <1>3, <2>1 DEF Operation, Parts
      <3> HIDE DEF x
      <3>3. op' \in [Calls -> Operation] /\ ConfigInPlace'
        BY <1>3, <3>1, <3>2, OperationStep
      <3>4. DeleteRequest(c, op[c].try, op[c].first, Path(c), "sig") \in Exchange
        <4>1. op[c].first \in [user: Users, epoch: Nat] /\ "sig" \in Parts
          BY <1>3, ConfigUser DEF Parts
        <4>2. QED
          BY <1>3, <4>1, CallTypes, RequestTypes
      <3>5. QED
        BY <1>3, <2>2, <3>3, <3>4 DEF DeletePartDone
    <2>3. CASE DeleteResolves(c, e)
      <3>1. [op[c].snap EXCEPT !.etags[Path(c)] = 0] \in SessionData
        BY <1>3, CallTypes, SessionWithEtag
      <3>2. store' \in [Sessions -> SessionData]
        BY <2>3, <3>1, WriteBackTypes DEF DeleteResolves
      <3>3. QED
        BY <1>3, <2>3, <3>2, SettleStep, PendingIsStatus DEF DeleteResolves
    <2>4. CASE DeleteFails(c, e)
      <3>1. Reconnect(c, e) \/ (Reject(c, e.status) /\ net' = net \ {e})
        BY <2>4 DEF DeleteFails
      <3>2. QED
        BY <1>1, <1>3, <2>1, <2>4, <3>1, ReconnectTypes, RejectTypes, AnswerTypes
        DEF DeleteFails
    <2>5. QED
      BY <1>5, <2>2, <2>3, <2>4 DEF DeleteAnswered
  <1>6. QED
    BY <1>4, <1>5

\* Every operation starts from a well-typed record.
LEMMA InvokeTypes ==
    ASSUME TypeInv, NEW c \in Calls, Invoke(c)
    PROVE  TypeInv'
  <1>1. PICK o \in Offered :
            PutFile(c, o) \/ GetFile(c, o) \/ GetForeignFile(c, o) \/ DeleteFile(c, o)
    BY DEF Invoke
  <1>2. o \in Option
    BY StorageAssumption
  <1>3. /\ UNCHANGED <<files, clock, epoch, mishaps, store, seen>>
        /\ effects' = [effects EXCEPT ![c] = {}]
    BY <1>1 DEF PutFile, GetFile, GetForeignFile, DeleteFile, Start
  <1>4. effects' \in [Calls -> SUBSET Effect]
    BY <1>3 DEF TypeInv, TypeOK, HubTypeOK
  <1>5. used' \in [puts: Nat, signOuts: Nat]
    BY <1>1 DEF PutFile, GetFile, GetForeignFile, DeleteFile, TypeInv, TypeOK
  <1>6. SUFFICES op' \in [Calls -> Operation] /\ ConfigInPlace' /\ net' \in SUBSET Exchange
    BY <1>3, <1>4, <1>5 DEF TypeInv, TypeOK, HubTypeOK
  <1>7. CASE GetOrSetConnection(c, o)
    BY <1>2, <1>7, StartTypes
  <1>8. CASE GetForeignFile(c, o)
    <2>1. PICK ph \in {"wait", "rejected"} :
              op' = [op EXCEPT ![c] = NewOperation(o, ph, NoConfig)]
      BY <1>8 DEF GetForeignFile
    <2> DEFINE x == NewOperation(o, ph, NoConfig)
    <2>2. x \in Operation
      BY <1>2, RecordTypes DEF Phases, Settled
    <2>3. x.phase = ph /\ x.opt.kind = "get" /\ op' = [op EXCEPT ![c] = x]
      BY <1>8, <2>1 DEF NewOperation, GetForeignFile
    <2> HIDE DEF x
    <2>4. op' \in [Calls -> Operation] /\ ConfigInPlace'
      BY <2>2, <2>3, OperationStep
    <2>5. o.of # Nobody => GetRequest(c, o.of, o.path) \in Exchange
      BY <1>2 DEF Option, GetRequest, Exchange, File, Parts, Verbs, Statuses, Pending, Lost
    <2>6. net \in SUBSET Exchange /\ o.of # Nobody
      BY <1>8 DEF TypeInv, TypeOK, HubTypeOK, GetForeignFile
    <2>7. net' \in SUBSET Exchange
      BY <1>8, <2>5, <2>6 DEF GetForeignFile
    <2>8. QED
      BY <2>4, <2>7
  <1>9. QED
    BY <1>1, <1>7, <1>8 DEF PutFile, GetFile, DeleteFile
\* The initial state has the types.
LEMMA InitTypes == Init => TypeInv
  <1> SUFFICES ASSUME Init PROVE TypeInv
    OBVIOUS
  <1>1. HubTypeOK
    BY DEF Init, HubInit, HubTypeOK
  <1>2. store \in [Sessions -> SessionData]
    BY RecordTypes DEF Init
  <1>3. op \in [Calls -> Operation] /\ ConfigInPlace
    <2> DEFINE x == NewOperation(NoOption, "idle", NoConfig)
    <2>1. x \in Operation /\ x.phase = "idle"
      BY RecordTypes DEF Phases, Settled, NewOperation
    <2>2. op = [c \in Calls |-> x]
      BY DEF Init
    <2> HIDE DEF x
    <2>3. QED
      BY <2>1, <2>2 DEF ConfigInPlace
  <1>4. seen \in [Sessions -> SUBSET Nat] /\ used \in [puts: Nat, signOuts: Nat]
    BY DEF Init
  <1>5. QED
    BY <1>1, <1>2, <1>3, <1>4 DEF TypeInv, TypeOK

\* Every step of the system keeps them.
LEMMA NextTypes == TypeInv /\ [Next]_vars => TypeInv'
  <1> SUFFICES ASSUME TypeInv, [Next]_vars PROVE TypeInv'
    OBVIOUS
  <1>1. ASSUME NEW c \in Calls, Invoke(c) PROVE TypeInv'
    BY <1>1, InvokeTypes
  <1>2. ASSUME NEW c \in Calls, Continue(c) PROVE TypeInv'
    BY <1>2, PutBeginTypes, GetTypes, DeleteTypes, ConnectedTypes, PutAnsweredTypes
    DEF Continue
  <1>3. ASSUME NEW e \in net, Hub(e) PROVE TypeInv'
    BY <1>3, HubKeepsTypes DEF Hub, TypeInv, TypeOK, ConfigInPlace
  <1>4. ASSUME NEW e \in net, DropAnswer(e) PROVE TypeInv'
    BY <1>4 DEF DropAnswer, hubState, TypeInv, TypeOK, HubTypeOK, ConfigInPlace
  <1>5. ASSUME NEW u \in Users, Expire(u) PROVE TypeInv'
    BY <1>5 DEF Expire, ExpireTokens, TypeInv, TypeOK, HubTypeOK, ConfigInPlace
  <1>6. ASSUME NEW s \in Sessions, SignOut(s) PROVE TypeInv'
    BY <1>6, RecordTypes DEF SignOut, hubState, TypeInv, TypeOK, HubTypeOK, ConfigInPlace
  <1>7. ASSUME NEW s \in Sessions, NEW u \in Accounts[s], SignIn(s, u) PROVE TypeInv'
    <2>1. u \in Users
      BY StorageAssumption
    <2>2. [store[s] EXCEPT !.user = u, !.config = NoConfig] \in SessionData
      BY <2>1, RecordTypes DEF TypeInv, TypeOK, SessionData
    <2>3. store' = [store EXCEPT ![s] = [store[s] EXCEPT !.user = u, !.config = NoConfig]]
      BY <1>7 DEF SignIn, TypeInv, TypeOK
    <2>4. store' \in [Sessions -> SessionData]
      BY <2>2, <2>3 DEF TypeInv, TypeOK
    <2>5. QED
      BY <1>7, <2>4 DEF SignIn, hubState, TypeInv, TypeOK, HubTypeOK, ConfigInPlace
  <1>8. CASE UNCHANGED vars
    BY <1>8 DEF vars, TypeInv, TypeOK, HubTypeOK, ConfigInPlace
  <1>9. QED
    BY <1>1, <1>2, <1>3, <1>4, <1>5, <1>6, <1>7, <1>8 DEF Next

\* The variables of the client and of the hub keep their types, and every
\* operation that is about to send a request has a hub config.
THEOREM TypesHold == Spec => []TypeInv
  BY InitTypes, NextTypes, PTL DEF Spec

\* TypeOK holds in every reachable state (the type invariant of the runs).
THEOREM TypeCorrectness == Spec => []TypeOK
  <1>1. TypeInv => TypeOK
    BY DEF TypeInv
  <1>2. QED
    BY <1>1, TypesHold, PTL
----------------------------------------------------------------------------
(* No unseen overwrite.  The property is about one step of the hub; what     *)
(* makes it hold is where the etag in that request came from.  The           *)
(* invariant follows an etag from the answer it arrived in, through          *)
(* localStorage, the copies the calls keep of it and the requests they       *)
(* send, to the hub: at every place it is one the session has received.      *)

Known(c, v) == v = 0 \/ v \in seen[SessionOf[c]]
NowKnown(c, v) == v = 0 \/ v \in seen'[SessionOf[c]]    \* after the step

StoreKnown ==
    \A s \in Sessions, p \in Paths : store[s].etags[p] = 0 \/ store[s].etags[p] \in seen[s]

CallKnown(c) ==
    /\ \A p \in Paths : Known(c, op[c].snap.etags[p])
    /\ Known(c, op[c].etag) /\ Known(c, op[c].written)

Guarded(e) ==   \* what an upload in the network may still do
    e.verb = "post" =>
        /\ Known(e.call, e.match)
        /\ e.match = 0 => e.fresh \/ op[e.call].opt.ignore
        /\ e.file.part = "sig" => e.fresh

Inv ==
    /\ TypeInv
    /\ StoreKnown
    /\ \A c \in Calls : CallKnown(c)
    /\ \A e \in net : Guarded(e)

\* Sessions never forget an etag, and while a request of a call is in the
\* network the options of the call do not change.
Steady ==
    /\ \A s \in Sessions : seen[s] \subseteq seen'[s]
    /\ \A e \in net : op'[e.call].opt = op[e.call].opt

\* So a request that is guarded stays guarded.
LEMMA GuardStays ==
    ASSUME Inv, Steady, NEW e \in net
    PROVE  Guarded(e)'
  <1>1. e.call \in Calls /\ SessionOf[e.call] \in Sessions
    BY CallTypes DEF Inv, TypeInv, TypeOK, HubTypeOK, Exchange
  <1>2. Guarded(e)
    BY DEF Inv
  <1>3. \A v : Known(e.call, v) => Known(e.call, v)'
    BY <1>1 DEF Known, Steady
  <1>4. QED
    BY <1>2, <1>3 DEF Guarded, Steady

\* And what a call knows stays known.
LEMMA KnowledgeStays ==
    ASSUME Inv, Steady, NEW c \in Calls, op'[c] = op[c]
    PROVE  CallKnown(c)'
  <1>1. SessionOf[c] \in Sessions
    BY StorageAssumption
  <1>2. \A v : Known(c, v) => Known(c, v)'
    BY <1>1 DEF Known, Steady
  <1>3. CallKnown(c)
    BY DEF Inv
  <1>4. QED
    BY <1>2, <1>3 DEF CallKnown

\* And what the stored sessions hold stays known.
LEMMA StoreStays ==
    ASSUME Inv, Steady, UNCHANGED store
    PROVE  StoreKnown'
  BY DEF Inv, StoreKnown, Steady

\* Uploads built from an etag the session has received are guarded.
LEMMA UploadsGuarded ==
    ASSUME Inv, NEW c \in Calls, NEW k \in 1..2, NEW cfg, NEW v, NowKnown(c, v),
           op'[c].opt = op[c].opt
    PROVE  \A e \in Uploads(c, k, cfg, v) : Guarded(e)'
  <1> DEFINE content == PostRequest(c, k, cfg, op[c].opt.path, "content", v = 0, v,
                                    op[c].opt.ignore)
             sig == PostRequest(c, k, cfg, op[c].opt.path, "sig", TRUE, 0, FALSE)
  <1>1. op[c].opt.ignore \in BOOLEAN
    BY CallTypes DEF Inv, Option
  <1>2. Guarded(content)'
    BY <1>1 DEF Guarded, PostRequest, Known, NowKnown
  <1>3. Guarded(sig)'
    BY DEF Guarded, PostRequest, Known
  <1>4. \A e \in Uploads(c, k, cfg, v) : e = content \/ e = sig
    BY DEF Uploads
  <1>5. QED
    BY <1>2, <1>3, <1>4
\* A continuation changes the record of its own call only, never its options.
LEMMA ContinueFrame ==
    ASSUME Inv, NEW c \in Calls, Continue(c)
    PROVE  /\ \A d \in Calls : op'[d].opt = op[d].opt
           /\ \A d \in Calls \ {c} : op'[d] = op[d]
  <1>1. op \in [Calls -> Operation] /\ op[c] \in Operation
    BY CallTypes DEF Inv, TypeInv, TypeOK
  <1>2. ASSUME NEW o, NEW code, Settle(c, o, code)
        PROVE  op'[c].opt = op[c].opt /\ \A d \in Calls \ {c} : op'[d] = op[d]
    BY <1>1, <1>2 DEF Settle, NewOperation
  <1>3. CASE PutOversized(c) \/ PutBegin(c) \/ PutEncode(c)
    <2>1. CASE \E code \in Statuses : Reject(c, code)
      BY <1>2, <2>1 DEF Reject
    <2>2. CASE ~\E code \in Statuses : Reject(c, code)
      BY <1>1, <1>3, <2>2, PendingIsStatus DEF PutOversized, PutBegin, PutEncode, Operation
    <2>3. QED
      BY <2>1, <2>2
  <1>4. CASE GetBegin(c) \/ DeleteBegin(c)
    BY <1>1, <1>4 DEF GetBegin, DeleteBegin, Operation
  <1>5. ASSUME NEW e \in net, Reconnect(c, e)
        PROVE  op'[c].opt = op[c].opt /\ \A d \in Calls \ {c} : op'[d] = op[d]
    BY <1>1, <1>2, <1>5 DEF Reconnect, Reject, Operation
  <1>6. ASSUME NEW e \in net, Connected(c, e)
        PROVE  op'[c].opt = op[c].opt /\ \A d \in Calls \ {c} : op'[d] = op[d]
    <2>1. CASE Connect(c, e)
      BY <1>1, <2>1 DEF Connect, Operation
    <2>2. QED
      BY <1>2, <1>6, <2>1 DEF Connected, ConnectFails, ConnectAfterSignOut, Reject
  <1>7. ASSUME NEW e \in net, PutAnswered(c, e) \/ GetAnswered(c, e) \/ DeleteAnswered(c, e)
        PROVE  op'[c].opt = op[c].opt /\ \A d \in Calls \ {c} : op'[d] = op[d]
    <2>1. CASE PutPartDone(c, e) \/ DeletePartDone(c, e)
      BY <1>1, <2>1 DEF PutPartDone, DeletePartDone, Operation
    <2>2. QED
      BY <1>2, <1>5, <1>7, <2>1
      DEF PutAnswered, PutResolves, PutFails, GetAnswered, DeleteAnswered, DeleteResolves,
          DeleteFails, Reject
  <1>8. QED
    BY <1>3, <1>4, <1>6, <1>7 DEF Continue

\* What is left to show of a continuation.
LEMMA ContinueStep ==
    ASSUME Inv, TypeInv', NEW c \in Calls, Continue(c),
           \A s \in Sessions : seen[s] \subseteq seen'[s],
           StoreKnown', CallKnown(c)',
           \A e \in net' : e \in net \/ Guarded(e)'
    PROVE  Inv'
  <1>1. Steady
    BY ContinueFrame DEF Steady, Inv, TypeInv, TypeOK, HubTypeOK, Exchange
  <1>2. \A d \in Calls : CallKnown(d)'
    BY <1>1, ContinueFrame, KnowledgeStays
  <1>3. \A e \in net' : Guarded(e)'
    BY <1>1, GuardStays
  <1>4. QED
    BY <1>2, <1>3 DEF Inv

\* A settled call keeps no etag.
LEMMA SettledKnows ==
    ASSUME TypeInv, NEW c \in Calls, NEW o, NEW code, Settle(c, o, code)
    PROVE  CallKnown(c)'
  <1>1. op'[c].snap = EmptySession /\ op'[c].etag = 0 /\ op'[c].written = 0
    BY DEF Settle, NewOperation, TypeInv, TypeOK
  <1>2. \A p \in Paths : EmptySession.etags[p] = 0
    BY DEF EmptySession
  <1>3. QED
    BY <1>1, <1>2 DEF CallKnown, Known

\* Writing back a session whose etags are known leaves only known etags.
LEMMA WriteBackKnown ==
    ASSUME Inv, NEW c \in Calls, NEW d, WriteBack(c, d),
           \A s \in Sessions : seen[s] \subseteq seen'[s],
           \A p \in Paths : NowKnown(c, d.etags[p])
    PROVE  StoreKnown'
  <1>1. \A s \in Sessions : store'[s] = IF s = SessionOf[c] THEN d ELSE store[s]
    BY DEF WriteBack, Inv, TypeInv, TypeOK
  <1>2. \A p \in Paths : d.etags[p] = 0 \/ d.etags[p] \in seen'[SessionOf[c]]
    BY DEF NowKnown
  <1>3. QED
    BY <1>1, <1>2 DEF StoreKnown, Inv

\* What a session learns is known, and nothing is forgotten.
LEMMA LearnKnows ==
    ASSUME TypeInv, NEW c \in Calls, NEW v, Learn(c, v)
    PROVE  /\ NowKnown(c, v)
           /\ \A s \in Sessions : seen[s] \subseteq seen'[s]
           /\ \A w : Known(c, w) => NowKnown(c, w)
  BY StorageAssumption DEF Learn, Known, NowKnown, TypeInv, TypeOK

\* The etags of a copy of the session, and the one putFile sends, are known.
LEMMA SessionKnown ==
    ASSUME Inv, NEW c \in Calls
    PROVE  /\ \A p \in Paths : Known(c, Session(c).etags[p])
           /\ Known(c, KnownEtag(c))
  BY CallTypes DEF Inv, StoreKnown, Known, Session, KnownEtag

\* A reconnect sends a request that writes nothing, and copies nothing.
LEMMA ReconnectKnown ==
    ASSUME Inv, NEW c \in Calls, NEW e \in net, Reconnect(c, e), UNCHANGED seen
    PROVE  CallKnown(c)' /\ \A x \in net' : x \in net \/ Guarded(x)'
  <1>1. CASE SignedIn(c)
    <2>1. /\ op'[c].snap = op[c].snap /\ op'[c].etag = op[c].etag /\ op'[c].written = 0
      BY <1>1, CallTypes DEF Reconnect, Operation, Inv, TypeInv, TypeOK
    <2>2. CallKnown(c)'
      BY <2>1 DEF CallKnown, Known, Inv
    <2>3. QED
      BY <1>1, <2>2 DEF Reconnect, Guarded, InfoRequest
  <1>2. CASE ~SignedIn(c)
    BY <1>2, SettledKnows DEF Reconnect, Reject, Inv
  <1>3. QED
    BY <1>1, <1>2

\* putFile's steps before the uploads are answered.
LEMMA PutBeginKnown ==
    ASSUME Inv, NEW c \in Calls, PutOversized(c) \/ PutBegin(c) \/ PutEncode(c)
    PROVE  /\ UNCHANGED <<store, seen>> /\ CallKnown(c)'
           /\ \A e \in net' : e \in net \/ Guarded(e)'
  <1>1. UNCHANGED <<store, seen>>
    BY DEF PutOversized, PutBegin, PutEncode
  <1>2. op \in [Calls -> Operation] /\ op[c] \in Operation
    BY CallTypes DEF Inv, TypeInv, TypeOK
  <1>3. \A v : (Known(c, v)' <=> Known(c, v)) /\ (NowKnown(c, v) <=> Known(c, v))
    BY <1>1 DEF Known, NowKnown
  <1>4. CASE Reject(c, Pending) /\ UNCHANGED net
    BY <1>1, <1>4, SettledKnows DEF Reject, Inv
  <1>5. CASE PutBegin(c) /\ ~(Reject(c, Pending) /\ UNCHANGED net)
    <2>1. /\ op'[c].snap = Session(c) /\ op'[c].etag = KnownEtag(c)
          /\ op'[c].written = op[c].written /\ op'[c].opt = op[c].opt
      BY <1>2, <1>5 DEF PutBegin, Operation
    <2>2. Known(c, op[c].written)
      BY DEF Inv, CallKnown
    <2>3. CallKnown(c)'
      BY <1>3, <2>1, <2>2, SessionKnown DEF CallKnown
    <2>4. \A e \in Uploads(c, 1, op[c].cfg, KnownEtag(c)) : Guarded(e)'
      BY <1>3, <2>1, SessionKnown, UploadsGuarded
    <2>5. QED
      BY <1>1, <1>5, <2>3, <2>4 DEF PutBegin
  <1>6. CASE PutEncode(c) /\ ~(Reject(c, Pending) /\ UNCHANGED net)
    <2>1. /\ op'[c].snap = op[c].snap /\ op'[c].etag = op[c].etag
          /\ op'[c].written = op[c].written /\ op'[c].opt = op[c].opt
      BY <1>2, <1>6 DEF PutEncode, Operation
    <2>2. CallKnown(c)'
      BY <1>3, <2>1 DEF CallKnown, Inv
    <2>3. NowKnown(c, op[c].etag)
      BY <1>3 DEF Inv, CallKnown
    <2>4. \A e \in Uploads(c, 1, op[c].cfg, op[c].etag) : Guarded(e)'
      BY <2>1, <2>3, UploadsGuarded
    <2>5. QED
      BY <1>1, <1>6, <2>2, <2>4 DEF PutEncode
  <1>7. QED
    BY <1>4, <1>5, <1>6 DEF PutOversized, PutBegin, PutEncode

\* Storing a hub config leaves the etags alone; a second attempt of putFile
\* sends the etag of the first one.
LEMMA ConnectedKnown ==
    ASSUME Inv, NEW c \in Calls, NEW e \in net, Connected(c, e)
    PROVE  /\ UNCHANGED seen /\ StoreKnown' /\ CallKnown(c)'
           /\ \A x \in net' : x \in net \/ Guarded(x)'
  <1>1. UNCHANGED seen
    BY DEF Connected
  <1>2. op \in [Calls -> Operation] /\ op[c] \in Operation
    BY CallTypes DEF Inv, TypeInv, TypeOK
  <1>3. \A v : (Known(c, v)' <=> Known(c, v)) /\ (NowKnown(c, v) <=> Known(c, v))
    BY <1>1 DEF Known, NowKnown
  <1>4. CASE Connect(c, e)
    <2> DEFINE cfg == [user |-> e.file.user, epoch |-> e.value]
               d == [Session(c) EXCEPT !.config = cfg]
    <2>1. WriteBack(c, d)
      BY <1>4 DEF Connect
    <2>2. d.etags = Session(c).etags
      BY CallTypes DEF Inv, SessionData
    <2> HIDE DEF d
    <2>3. StoreKnown'
      BY <1>1, <1>3, <2>1, <2>2, SessionKnown, WriteBackKnown
    <2>4. /\ op'[c].snap = op[c].snap /\ op'[c].etag = op[c].etag
          /\ op'[c].written = op[c].written /\ op'[c].opt = op[c].opt
      BY <1>2, <1>4 DEF Connect, Operation
    <2>5. CallKnown(c)' /\ NowKnown(c, op[c].etag)
      BY <1>3, <2>4 DEF CallKnown, Inv
    <2>6. \A x \in Uploads(c, 2, cfg, op[c].etag) : Guarded(x)'
      BY <2>4, <2>5, UploadsGuarded
    <2>7. \A x \in Requests(c, 2, cfg) : Guarded(x)'
      BY <2>6 DEF Requests, DeleteRequest, Guarded
    <2>8. QED
      BY <1>1, <1>4, <2>3, <2>5, <2>7 DEF Connect
  <1>5. CASE ~Connect(c, e)
    <2>1. /\ \E code \in Statuses : Settle(c, "rejected", code)
          /\ net' = net \ {e} /\ UNCHANGED store
      BY <1>5, PendingIsStatus, AnswerTypes
      DEF Connected, ConnectFails, ConnectAfterSignOut, Reject, Inv
    <2>2. StoreKnown'
      BY <1>1, <2>1 DEF Inv, StoreKnown
    <2>3. QED
      BY <1>1, <2>1, <2>2, SettledKnows DEF Inv
  <1>6. QED
    BY <1>4, <1>5

\* The etag of an answered upload is one the session has received when it
\* is kept, and when it is written back.
LEMMA PutAnsweredKnown ==
    ASSUME Inv, NEW c \in Calls, NEW e \in net, PutAnswered(c, e)
    PROVE  /\ \A s \in Sessions : seen[s] \subseteq seen'[s]
           /\ StoreKnown' /\ CallKnown(c)'
           /\ \A x \in net' : x \in net \/ Guarded(x)'
  <1>1. op \in [Calls -> Operation] /\ op[c] \in Operation /\ op[c].snap \in SessionData
        /\ Path(c) \in Paths /\ CallKnown(c)
    BY CallTypes DEF Inv, TypeInv, TypeOK, Operation
  <1>2. CASE PutPartDone(c, e)
    <2>1. Learn(c, WriteEtag(c, e)) /\ UNCHANGED store /\ net' = net \ {e}
      BY <1>2 DEF PutPartDone
    <2>2. /\ op'[c].snap = op[c].snap /\ op'[c].etag = op[c].etag
          /\ op'[c].written = WriteEtag(c, e)
      BY <1>1, <1>2 DEF PutPartDone, Operation
    <2>3. CallKnown(c)'
      BY <1>1, <2>1, <2>2, LearnKnows DEF CallKnown, Inv, Known, NowKnown
    <2>4. StoreKnown'
      BY <2>1, LearnKnows DEF StoreKnown, Inv
    <2>5. QED
      BY <2>1, <2>3, <2>4, LearnKnows DEF Inv
  <1>3. CASE PutResolves(c, e)
    <2> DEFINE v == WriteEtag(c, e)
               d == [op[c].snap EXCEPT !.etags[Path(c)] = v]
    <2>1. Learn(c, v) /\ Settle(c, "resolved", 200) /\ net' = net \ {e}
      BY <1>3 DEF PutResolves
    <2>2. CallKnown(c)'
      BY <2>1, SettledKnows DEF Inv
    <2>3. \A p \in Paths : d.etags[p] = IF p = Path(c) THEN v ELSE op[c].snap.etags[p]
      BY <1>1 DEF SessionData
    <2>4. \A p \in Paths : NowKnown(c, d.etags[p])
      BY <1>1, <2>1, <2>3, LearnKnows DEF CallKnown, Inv
    <2>5. WriteBack(c, d) \/ UNCHANGED store
      BY <1>3 DEF PutResolves
    <2> HIDE DEF d, v
    <2>6. StoreKnown'
      <3>1. CASE WriteBack(c, d)
        BY <2>1, <2>4, <3>1, LearnKnows, WriteBackKnown DEF Inv
      <3>2. CASE UNCHANGED store
        BY <2>1, <3>2, LearnKnows DEF StoreKnown, Inv
      <3>3. QED
        BY <2>5, <3>1, <3>2
    <2>7. QED
      BY <2>1, <2>2, <2>6, LearnKnows DEF Inv
  <1>4. CASE PutFails(c, e)
    <2>1. UNCHANGED <<store, seen>>
      BY <1>4 DEF PutFails
    <2>2. StoreKnown'
      BY <2>1 DEF Inv, StoreKnown
    <2>3. CallKnown(c)' /\ \A x \in net' : x \in net \/ Guarded(x)'
      BY <1>4, <2>1, ReconnectKnown, SettledKnows DEF PutFails, Reject, Inv
    <2>4. QED
      BY <2>1, <2>2, <2>3
  <1>5. QED
    BY <1>2, <1>3, <1>4 DEF PutAnswered

\* getFile stores the etag it has just received.
LEMMA GetKnown ==
    ASSUME Inv, NEW c \in Calls, GetBegin(c) \/ (\E e \in net : GetAnswered(c, e))
    PROVE  /\ \A s \in Sessions : seen[s] \subseteq seen'[s]
           /\ StoreKnown' /\ CallKnown(c)'
           /\ \A x \in net' : x \in net \/ Guarded(x)'
  <1>1. op \in [Calls -> Operation] /\ op[c] \in Operation /\ Path(c) \in Paths
        /\ CallKnown(c) /\ Session(c) \in SessionData
    BY CallTypes DEF Inv, TypeInv, TypeOK
  <1>2. CASE GetBegin(c)
    <2>1. UNCHANGED <<store, seen>>
      BY <1>2 DEF GetBegin
    <2>2. /\ op'[c].snap = op[c].snap /\ op'[c].etag = op[c].etag
          /\ op'[c].written = op[c].written
      BY <1>1, <1>2 DEF GetBegin, Operation
    <2>3. StoreKnown' /\ CallKnown(c)'
      BY <1>1, <2>1, <2>2 DEF Inv, StoreKnown, CallKnown, Known
    <2>4. QED
      BY <1>2, <2>1, <2>3 DEF GetBegin, GetRequest, Guarded
  <1>3. ASSUME NEW e \in net, GetAnswered(c, e), e.status = 200
        PROVE  /\ \A s \in Sessions : seen[s] \subseteq seen'[s]
               /\ StoreKnown' /\ CallKnown(c)'
               /\ \A x \in net' : x \in net \/ Guarded(x)'
    <2> DEFINE d == [Session(c) EXCEPT !.etags[Path(c)] = e.value]
    <2>1. /\ Learn(c, e.value) /\ Settle(c, "resolved", 200) /\ net' = net \ {e}
          /\ WriteBack(c, d)
      BY <1>3 DEF GetAnswered
    <2>2. \A p \in Paths : d.etags[p] = IF p = Path(c) THEN e.value ELSE Session(c).etags[p]
      BY <1>1 DEF SessionData
    <2>3. \A p \in Paths : NowKnown(c, d.etags[p])
      BY <2>1, <2>2, LearnKnows, SessionKnown DEF Inv
    <2> HIDE DEF d
    <2>4. StoreKnown'
      BY <2>1, <2>3, LearnKnows, WriteBackKnown DEF Inv
    <2>5. QED
      BY <2>1, <2>4, SettledKnows, LearnKnows DEF Inv
  <1>4. ASSUME NEW e \in net, GetAnswered(c, e), e.status # 200
        PROVE  /\ \A s \in Sessions : seen[s] \subseteq seen'[s]
               /\ StoreKnown' /\ CallKnown(c)'
               /\ \A x \in net' : x \in net \/ Guarded(x)'
    BY <1>4, SettledKnows DEF GetAnswered, Reject, Inv, StoreKnown
  <1>5. QED
    BY <1>2, <1>3, <1>4

\* deleteFile writes back its copy of the session with one etag less.
LEMMA DeleteKnown ==
    ASSUME Inv, NEW c \in Calls, DeleteBegin(c) \/ (\E e \in net : DeleteAnswered(c, e))
    PROVE  /\ UNCHANGED seen /\ StoreKnown' /\ CallKnown(c)'
           /\ \A x \in net' : x \in net \/ Guarded(x)'
  <1>1. op \in [Calls -> Operation] /\ op[c] \in Operation /\ op[c].snap \in SessionData
        /\ Path(c) \in Paths /\ CallKnown(c) /\ StoreKnown
    BY CallTypes DEF Inv, TypeInv, TypeOK, Operation
  <1>2. UNCHANGED seen /\ op[c].opt.kind = "delete"
    BY DEF DeleteBegin, DeleteAnswered
  <1>3. \A v : (Known(c, v)' <=> Known(c, v)) /\ (NowKnown(c, v) <=> Known(c, v))
    BY <1>2 DEF Known, NowKnown
  <1>4. \A k, cfg, p, part : Guarded(DeleteRequest(c, k, cfg, p, part))'
    BY DEF Guarded, DeleteRequest
  <1>5. CASE DeleteBegin(c)
    <2>1. /\ op'[c].snap = Session(c) /\ op'[c].etag = op[c].etag
          /\ op'[c].written = op[c].written
      BY <1>1, <1>5 DEF DeleteBegin, Operation
    <2>2. CallKnown(c)'
      BY <1>1, <1>3, <2>1, SessionKnown DEF CallKnown
    <2>3. StoreKnown'
      BY <1>1, <1>2, <1>5 DEF DeleteBegin, StoreKnown
    <2>4. net' = net \cup Requests(c, 1, op[c].cfg)
      BY <1>5 DEF DeleteBegin
    <2>5. \A x \in Requests(c, 1, op[c].cfg) : Guarded(x)'
      BY <1>2, <1>4 DEF Requests
    <2>6. QED
      BY <1>2, <2>2, <2>3, <2>4, <2>5
  <1>6. ASSUME NEW e \in net, DeleteAnswered(c, e)
        PROVE  /\ StoreKnown' /\ CallKnown(c)'
               /\ \A x \in net' : x \in net \/ Guarded(x)'
    <2>1. CASE DeletePartDone(c, e)
      <3>1. /\ op'[c].snap = op[c].snap /\ op'[c].etag = op[c].etag
            /\ op'[c].written = op[c].written
        BY <1>1, <2>1 DEF DeletePartDone, Operation
      <3>2. CallKnown(c)'
        BY <1>1, <1>3, <3>1 DEF CallKnown
      <3>3. StoreKnown'
        BY <1>1, <1>2, <2>1 DEF DeletePartDone, StoreKnown
      <3>4. QED
        BY <1>4, <2>1, <3>2, <3>3 DEF DeletePartDone
    <2>2. CASE DeleteResolves(c, e)
      <3> DEFINE d == [op[c].snap EXCEPT !.etags[Path(c)] = 0]
      <3>1. WriteBack(c, d) /\ Settle(c, "resolved", 200) /\ net' = net \ {e}
        BY <2>2 DEF DeleteResolves
      <3>2. \A p \in Paths : d.etags[p] = IF p = Path(c) THEN 0 ELSE op[c].snap.etags[p]
        BY <1>1 DEF SessionData
      <3>3. \A p \in Paths : NowKnown(c, d.etags[p])
        BY <1>1, <1>3, <3>2 DEF CallKnown, Known
      <3> HIDE DEF d
      <3>4. StoreKnown'
        BY <1>2, <3>1, <3>3, WriteBackKnown
      <3>5. QED
        BY <3>1, <3>4, SettledKnows DEF Inv
    <2>3. CASE DeleteFails(c, e)
      <3>1. StoreKnown'
        BY <1>1, <1>2, <2>3 DEF DeleteFails, StoreKnown
      <3>2. CallKnown(c)' /\ \A x \in net' : x \in net \/ Guarded(x)'
        BY <1>2, <2>3, ReconnectKnown, SettledKnows DEF DeleteFails, Reject, Inv
      <3>3. QED
        BY <3>1, <3>2
    <2>4. QED
      BY <1>6, <2>1, <2>2, <2>3 DEF DeleteAnswered
  <1>7. QED
    BY <1>2, <1>5, <1>6

\* So every continuation keeps the invariant.
LEMMA ContinueKeepsInv ==
    ASSUME Inv, TypeInv', NEW c \in Calls, Continue(c)
    PROVE  Inv'
  <1>1. /\ \A s \in Sessions : seen[s] \subseteq seen'[s]
        /\ StoreKnown' /\ CallKnown(c)'
        /\ \A x \in net' : x \in net \/ Guarded(x)'
    <2>1. CASE PutOversized(c) \/ PutBegin(c) \/ PutEncode(c)
      BY <2>1, PutBeginKnown DEF Inv, StoreKnown
    <2>2. CASE GetBegin(c) \/ \E e \in net : GetAnswered(c, e)
      BY <2>2, GetKnown
    <2>3. CASE DeleteBegin(c) \/ \E e \in net : DeleteAnswered(c, e)
      BY <2>3, DeleteKnown
    <2>4. CASE \E e \in net : Connected(c, e)
      BY <2>4, ConnectedKnown
    <2>5. CASE \E e \in net : PutAnswered(c, e)
      BY <2>5, PutAnsweredKnown
    <2>6. QED
      BY <2>1, <2>2, <2>3, <2>4, <2>5 DEF Continue
  <1>2. QED
    BY <1>1, ContinueStep

\* An operation starts with no etag at all and sends nothing that writes.
LEMMA InvokeKeepsInv ==
    ASSUME Inv, TypeInv', NEW c \in Calls, Invoke(c)
    PROVE  Inv'
  <1>1. PICK o \in Offered :
            PutFile(c, o) \/ GetFile(c, o) \/ GetForeignFile(c, o) \/ DeleteFile(c, o)
    BY DEF Invoke
  <1>2. Start(c, o) /\ UNCHANGED <<store, seen>>
    BY <1>1 DEF PutFile, GetFile, GetForeignFile, DeleteFile, Start
  <1>3. PICK ph, cfg : op' = [op EXCEPT ![c] = NewOperation(o, ph, cfg)]
    BY <1>1 DEF PutFile, GetFile, GetForeignFile, DeleteFile, GetOrSetConnection
  <1>4. /\ op'[c].snap = EmptySession /\ op'[c].etag = 0 /\ op'[c].written = 0
        /\ \A d \in Calls \ {c} : op'[d] = op[d]
    BY <1>3 DEF NewOperation, Inv, TypeInv, TypeOK
  <1>5. \A p \in Paths : EmptySession.etags[p] = 0
    BY DEF EmptySession
  <1>6. CallKnown(c)'
    BY <1>4, <1>5 DEF CallKnown, Known
  <1>7. Steady
    <2>1. \A e \in net : e.call \in Calls /\ e.call # c
      BY <1>2 DEF Start, Idle, Inv, TypeInv, TypeOK, HubTypeOK, Exchange
    <2>2. QED
      BY <1>2, <1>4, <2>1 DEF Steady
  <1>8. \A x \in net' : x \in net \/ Guarded(x)'
    BY <1>1 DEF PutFile, GetFile, GetForeignFile, DeleteFile, GetOrSetConnection,
       Guarded, InfoRequest, GetRequest
  <1>9. \A d \in Calls : CallKnown(d)'
    BY <1>4, <1>6, <1>7, KnowledgeStays
  <1>10. StoreKnown' /\ \A e \in net' : Guarded(e)'
    BY <1>2, <1>7, <1>8, StoreStays, GuardStays
  <1>11. QED
    BY <1>9, <1>10 DEF Inv

\* An answer has the call, the file and the preconditions of its request.
LEMMA HubKeepsInv ==
    ASSUME Inv, TypeInv', NEW e \in net, Hub(e)
    PROVE  Inv'
  <1>1. UNCHANGED <<store, op, seen>>
    BY DEF Hub
  <1>2. PICK code, v : Reply(e, code, v)
    BY DEF Hub, HubServe, HubInfo, HubGet, HubPost, HubDelete, Perform, HubRefuse,
       HubFails, HubConflict, LoseRequest, LoseAnswer
  <1>3. Steady
    BY <1>1 DEF Steady
  <1>4. ASSUME NEW x \in net' PROVE Guarded(x)'
    <2> DEFINE a == [e EXCEPT !.status = code, !.value = v]
    <2>1. x \in net \/ x = a
      BY <1>2 DEF Reply
    <2>2. /\ a.verb = e.verb /\ a.call = e.call /\ a.match = e.match
          /\ a.fresh = e.fresh /\ a.file = e.file
      BY AnswerTypes DEF Exchange, Inv
    <2>3. Guarded(e)'
      BY <1>3, GuardStays
    <2> HIDE DEF a
    <2>4. CASE x = a
      BY <2>2, <2>3, <2>4 DEF Guarded
    <2>5. QED
      BY <1>3, <2>1, <2>4, GuardStays
  <1>5. \A c \in Calls : CallKnown(c)'
    BY <1>1, <1>3, KnowledgeStays
  <1>6. QED
    BY <1>1, <1>3, <1>4, <1>5, StoreStays DEF Inv

\* Signing in keeps the etags of the session, signing out removes them.
LEMMA SessionKeepsInv ==
    ASSUME Inv, TypeInv', NEW s \in Sessions,
           SignOut(s) \/ (\E u \in Accounts[s] : SignIn(s, u))
    PROVE  Inv'
  <1>1. UNCHANGED <<net, op, seen>> /\ Steady
    BY DEF SignOut, SignIn, Steady
  <1>2. \A t \in Sessions, p \in Paths :
            store'[t].etags[p] = store[t].etags[p] \/ store'[t].etags[p] = 0
    <2>1. store \in [Sessions -> SessionData]
      BY DEF Inv, TypeInv, TypeOK
    <2>2. CASE SignOut(s)
      BY <2>1, <2>2 DEF SignOut, EmptySession
    <2>3. ASSUME NEW u \in Accounts[s], SignIn(s, u)
          PROVE  \A t \in Sessions : store'[t].etags = store[t].etags
      <3> DEFINE d == [store[s] EXCEPT !.user = u, !.config = NoConfig]
      <3>1. store' = [store EXCEPT ![s] = d]
        BY <2>1, <2>3 DEF SignIn
      <3>2. d.etags = store[s].etags
        BY <2>1 DEF SessionData
      <3> HIDE DEF d
      <3>3. QED
        BY <2>1, <3>1, <3>2
    <2>4. QED
      BY <2>2, <2>3
  <1>3. StoreKnown'
    BY <1>1, <1>2 DEF Inv, StoreKnown
  <1>4. (\A c \in Calls : CallKnown(c)') /\ (\A e \in net : Guarded(e)')
    BY <1>1, KnowledgeStays, GuardStays
  <1>5. QED
    BY <1>1, <1>3, <1>4 DEF Inv

\* Nothing is known, and nothing sent, at the start.
LEMMA InitInv == Init => Inv
  <1> SUFFICES ASSUME Init PROVE Inv
    OBVIOUS
  <1>1. \A p \in Paths : EmptySession.etags[p] = 0
    BY DEF EmptySession
  <1>2. StoreKnown
    BY <1>1 DEF Init, StoreKnown
  <1>3. \A c \in Calls : op[c].snap = EmptySession /\ op[c].etag = 0 /\ op[c].written = 0
    BY DEF Init, NewOperation
  <1>4. \A c \in Calls : CallKnown(c)
    BY <1>1, <1>3 DEF CallKnown, Known
  <1>5. QED
    BY <1>2, <1>4, InitTypes DEF Inv, Init, HubInit

\* The invariant is inductive.
LEMMA NextInv == Inv /\ [Next]_vars => Inv'
  <1> SUFFICES ASSUME Inv, [Next]_vars PROVE Inv'
    OBVIOUS
  <1>1. TypeInv'
    BY NextTypes DEF Inv
  <1>2. ASSUME NEW c \in Calls, Invoke(c) \/ Continue(c) PROVE Inv'
    BY <1>1, <1>2, InvokeKeepsInv, ContinueKeepsInv
  <1>3. ASSUME NEW e \in net, Hub(e) PROVE Inv'
    BY <1>1, <1>3, HubKeepsInv
  <1>4. ASSUME NEW s \in Sessions, SignOut(s) \/ (\E u \in Accounts[s] : SignIn(s, u))
        PROVE Inv'
    BY <1>1, <1>4, SessionKeepsInv
  <1>5. CASE \/ \E e \in net : DropAnswer(e)
             \/ \E u \in Users : Expire(u)
             \/ UNCHANGED vars
    <2>1. UNCHANGED <<store, op, seen>> /\ net' \subseteq net
      BY <1>5 DEF DropAnswer, Expire, ExpireTokens, vars
    <2>2. Steady
      BY <2>1 DEF Steady
    <2>3. (\A c \in Calls : CallKnown(c)') /\ (\A e \in net' : Guarded(e)')
      BY <2>1, <2>2, KnowledgeStays, GuardStays
    <2>4. QED
      BY <1>1, <2>1, <2>2, <2>3, StoreStays DEF Inv
  <1>6. QED
    BY <1>2, <1>3, <1>4, <1>5 DEF Next

\* Only an upload changes a file into another version of it.
LEMMA OnlyUploadsWrite ==
    ASSUME TypeInv, [Next]_vars, NEW f \in File, files[f] # 0,
           files'[f] \notin {0, files[f]}
    PROVE  \E e \in net : HubPost(e) /\ e.file = f /\ UNCHANGED <<op, seen>>
  <1>1. ~UNCHANGED files
    OBVIOUS
  <1>2. PICK e \in net : Hub(e)
    <2>1. ASSUME NEW c \in Calls, Invoke(c) PROVE UNCHANGED files
      BY <2>1 DEF Invoke, PutFile, GetFile, GetForeignFile, DeleteFile, Start
    <2>2. ASSUME NEW c \in Calls, Continue(c) PROVE UNCHANGED files
      BY <2>2 DEF Continue, PutOversized, PutBegin, PutEncode, GetBegin, DeleteBegin,
         Connected, PutAnswered, GetAnswered, DeleteAnswered, hubState
    <2>3. ASSUME NEW s \in Sessions, SignOut(s) \/ (\E u \in Accounts[s] : SignIn(s, u))
          PROVE  UNCHANGED files
      BY <2>3 DEF SignOut, SignIn, hubState
    <2>4. CASE \/ \E x \in net : DropAnswer(x)
               \/ \E u \in Users : Expire(u)
               \/ UNCHANGED vars
      BY <2>4 DEF DropAnswer, Expire, ExpireTokens, hubState, vars
    <2>5. QED
      BY <1>1, <2>1, <2>2, <2>3, <2>4 DEF Next
  <1>3. UNCHANGED <<op, seen>> /\ files \in [File -> Nat]
    BY <1>2 DEF Hub, TypeInv, TypeOK, HubTypeOK
  <1>4. HubPost(e) \/ HubDelete(e)
    BY <1>1, <1>2 DEF Hub, HubServe, HubInfo, HubGet, HubRefuse, HubFails, HubConflict,
       LoseRequest, LoseAnswer, Fault
  <1>5. PICK v : files' = [files EXCEPT ![e.file] = v] /\ (HubDelete(e) => v = 0)
    BY <1>4 DEF HubPost, HubDelete, Perform
  <1>6. e.file = f /\ ~HubDelete(e)
    BY <1>3, <1>5
  <1>7. QED
    BY <1>3, <1>4, <1>6

\* The invariant makes every step satisfy the property.
LEMMA OverwriteStep ==
    ASSUME Inv, [Next]_vars, NEW f \in File, files[f] # 0, files'[f] \notin {0, files[f]}
    PROVE  /\ f.part = "content"
           /\ \E c \in Calls :
                /\ Wrote(c, f, files'[f])
                /\ op[c].opt.ignore \/ files[f] \in seen[SessionOf[c]]
  <1>1. PICK e \in net : HubPost(e) /\ e.file = f
    BY OnlyUploadsWrite DEF Inv
  <1>2. e \in Exchange /\ e.call \in Calls /\ f.part \in Parts /\ Guarded(e)
    BY AnswerTypes DEF Inv, Exchange, File
  <1>3. ~e.fresh /\ (e.match # 0 => files[f] = e.match) /\ e.verb = "post"
    BY <1>1 DEF HubPost, Satisfied
  <1>4. f.part = "content"
    BY <1>1, <1>2, <1>3 DEF Guarded, Parts
  <1>5. op[e.call].opt.ignore \/ files[f] \in seen[SessionOf[e.call]]
    BY <1>2, <1>3 DEF Guarded, Known
  <1>6. Wrote(e.call, f, files'[f])
    <2>1. /\ files \in [File -> Nat] /\ clock \in Nat
          /\ effects \in [Calls -> SUBSET Effect]
      BY DEF Inv, TypeInv, TypeOK, HubTypeOK
    <2>2. clock + 1 # 0
      BY <2>1
    <2>3. files'[f] = clock + 1
      BY <1>1, <2>1 DEF HubPost, Perform
    <2>4. [verb |-> "post", file |-> f, version |-> clock + 1] \in effects'[e.call]
      BY <1>1, <1>2, <1>3, <2>1, <2>2 DEF HubPost, Perform
    <2>5. QED
      BY <2>3, <2>4 DEF Wrote
  <1>7. QED
    BY <1>2, <1>4, <1>5, <1>6

\* Inv holds in every reachable state.
THEOREM EtagsAreKnown == Spec => []Inv
  BY InitInv, NextInv, PTL DEF Spec

\* No upload replaces a version of a file that its session has not received,
\* unless the caller asked for it; no signature file is ever replaced.
THEOREM NothingUnseenIsOverwritten == Spec => NoUnseenOverwrite
  <1>1. Inv /\ [Next]_vars =>
            [\A f \in File :
                files[f] # 0 /\ files'[f] \notin {0, files[f]} =>
                    /\ f.part = "content"
                    /\ \E c \in Calls :
                        /\ Wrote(c, f, files'[f])
                        /\ op[c].opt.ignore \/ files[f] \in seen[SessionOf[c]]]_vars
    BY OverwriteStep
  <1>2. QED
    BY <1>1, EtagsAreKnown, PTL DEF Spec, NoUnseenOverwrite

----------------------------------------------------------------------------
(* The invariant.  The abstract specification speaks of what a call has     *)
(* done; the client knows only the answers it has read.  The invariant ties *)
(* the two together: what each exchange in the network, each answer that    *)
(* was read and each settled call say about the effects at the hub.         *)

\* The operation a call is in, and what it is waiting for.
Kind(c) == op[c].opt.kind
IsAt(c, phases) == op[c].phase \in phases
Plain(c) == op[c].opt.mode # "signed"

\* Versions are issued in order, and no two files share one.
Numbered ==
    /\ \A f \in File : files[f] <= clock
    /\ \A f, g \in File : files[f] = files[g] /\ files[f] # 0 => f = g
    /\ \A s \in Sessions : \A v \in seen[s] : v <= clock

\* An exchange that writes is about the file its call was asked to write.
About(c, e) == e.file.path = Path(c) /\ e.file.part \in AllParts(op[c].opt)

\* The exchanges of a call are those of the phase it is in, but for uploads
\* of an earlier attempt, which only a signed put leaves behind.
Sent(c) ==
    \A e \in net : e.call = c =>
        /\ e.verb = "info" => IsAt(c, {"connect"}) /\ e.try = op[c].try
        /\ e.verb = "get" => IsAt(c, {"wait"}) /\ Kind(c) = "get"
        /\ e.verb = "delete" =>
            /\ IsAt(c, {"wait"}) /\ Kind(c) = "delete" /\ About(c, e)
            /\ e.file.part = "sig" => Did(c, "delete", "content")
        /\ e.verb = "post" =>
            /\ Kind(c) = "put" /\ About(c, e) /\ e.try <= op[c].try
            /\ ~IsAt(c, {"begin", "encode"})
            /\ IsAt(c, {"connect"}) => e.try # op[c].try
            /\ Plain(c) => IsAt(c, {"wait"}) /\ e.try = op[c].try
            /\ IsAt(c, {"wait"}) /\ e.try = op[c].try => e.file.user = op[c].cfg.user

\* None of them is there twice.
Single(c) ==
    \A d, e \in net : d.call = c /\ e.call = c =>
        /\ d.verb # "post" /\ e.verb # "post" => d = e
        /\ d.verb = "post" /\ e.verb = "post" /\ d.try = e.try
           /\ d.file.part = e.file.part => d = e

\* An answer with status 200 says what the hub did.
Truthful(c) ==
    \A e \in net : e.call = c /\ e.status = 200 =>
        /\ e.verb \in {"post", "get"} => e.value \in 1..clock
        /\ e.verb = "post" =>
            [verb |-> "post", file |-> e.file, version |-> e.value] \in effects[c]
        /\ e.verb = "delete" => Did(c, "delete", e.file.part)

\* What an attempt to put has gathered from such answers.
Gathered(c) ==
    /\ op[c].got # {} => IsAt(c, {"wait"})
    /\ Kind(c) = "put" /\ "content" \in op[c].got =>
        /\ op[c].written \in 1..clock
        /\ [verb |-> "post",
            file |-> [user |-> op[c].cfg.user, path |-> Path(c), part |-> "content"],
            version |-> op[c].written] \in effects[c]
    /\ Kind(c) = "put" /\ "sig" \in op[c].got => Did(c, "post", "sig")

\* A call acts only as it was asked to, and not before its first request.
Asked(c) ==
    /\ \A x \in effects[c] :
        /\ Kind(c) = (IF x.verb = "post" THEN "put" ELSE "delete")
        /\ x.file.part \in AllParts(op[c].opt)
    /\ IsAt(c, {"begin", "encode"}) => op[c].try = 1
    /\ IsAt(c, {"connect", "begin", "encode"}) /\ op[c].try = 1 => effects[c] = {}

\* The one upload of a plain put is done only if it is answered with 200 or
\* its answer is lost: no second attempt and no other error follows.
OneUpload(c) ==
    Kind(c) = "put" /\ Plain(c) =>
        /\ IsAt(c, {"connect"}) => effects[c] = {}
        /\ IsAt(c, {"rejected"}) /\ op[c].status \notin {Pending, Lost} => effects[c] = {}
        /\ \A e \in net : e.call = c /\ e.verb = "post" /\ e.status \notin {Lost, 200} =>
                effects[c] = {}

\* A signed put may leave two uploads of the content, with the same
\* preconditions.  When one has been done, the version the other one asks to
\* replace is gone for good.
Spent(c) ==
    /\ op[c].opt.ignore => op[c].etag = 0
    /\ \A e \in net : e.call = c /\ e.verb = "post" /\ e.file.part = "content" =>
        /\ IsAt(c, {"connect", "wait"}) => e.match = op[c].etag
        /\ \A d \in net : d.call = c /\ d.verb = "post" /\ d.file.part = "content" =>
                d.match = e.match
        /\ Did(c, "post", "content") /\ e.match # 0 => \A f \in File : files[f] # e.match
    /\ IsAt(c, {"connect", "wait"}) /\ Did(c, "post", "content") /\ op[c].etag # 0 =>
        \A f \in File : files[f] # op[c].etag

\* A put or a delete that has resolved did all it was asked to.
Done(c) ==
    IsAt(c, {"resolved"}) /\ Kind(c) # "get" =>
        \A part \in AllParts(op[c].opt) :
            Did(c, IF Kind(c) = "put" THEN "post" ELSE "delete", part)

CallInv(c) ==
    /\ Sent(c) /\ Single(c) /\ Truthful(c) /\ Gathered(c) /\ Asked(c)
    /\ OneUpload(c) /\ Spent(c) /\ Done(c)

Faithful ==
    /\ Inv
    /\ Numbered
    /\ \A c \in Calls : CallInv(c)

----------------------------------------------------------------------------
(* What the invariant says at the points where the actions use it. *)

\* The types of an exchange and of the call it belongs to.
LEMMA ExchangeTypes ==
    ASSUME Inv, NEW e \in net
    PROVE  /\ e \in Exchange /\ e.call \in Calls /\ e.verb \in Verbs
           /\ e.file \in File /\ e.file.part \in Parts /\ e.match \in Nat
           /\ e.try \in 1..2 /\ e.status \in Statuses /\ e.value \in Nat
  BY DEF Inv, TypeInv, TypeOK, HubTypeOK, Exchange, File

\* The types of the hub.
LEMMA HubTypes ==
    ASSUME Inv
    PROVE  /\ files \in [File -> Nat] /\ clock \in Nat
           /\ effects \in [Calls -> SUBSET Effect]
           /\ op \in [Calls -> Operation] /\ seen \in [Sessions -> SUBSET Nat]
  BY DEF Inv, TypeInv, TypeOK, HubTypeOK

\* The etags a call uses were issued.
LEMMA EtagsIssued ==
    ASSUME Faithful, NEW c \in Calls
    PROVE  /\ op[c].etag \in 0..clock /\ op[c].written \in 0..clock
           /\ KnownEtag(c) \in 0..clock
           /\ \A e \in net : e.call = c /\ e.verb = "post" => e.match \in 0..clock
  <1>1. SessionOf[c] \in Sessions /\ clock \in Nat /\ \A v \in seen[SessionOf[c]] : v \in Nat /\ v <= clock
    BY StorageAssumption, HubTypes DEF Faithful, Numbered
  <1>2. ASSUME NEW v, Known(c, v) PROVE v \in 0..clock
    BY <1>1, <1>2 DEF Known
  <1>3. Known(c, op[c].etag) /\ Known(c, op[c].written) /\ Known(c, KnownEtag(c))
    BY SessionKnown DEF Faithful, Inv, CallKnown
  <1>4. ASSUME NEW e \in net, e.call = c, e.verb = "post" PROVE Known(c, e.match)
    BY <1>4 DEF Faithful, Inv, Guarded
  <1>5. QED
    BY <1>2, <1>3, <1>4

\* Before its first request a call has no exchange in the network.
LEMMA NothingSentYet ==
    ASSUME Faithful, NEW c \in Calls, IsAt(c, {"begin", "encode"})
    PROVE  \A e \in net : e.call # c
  <1> SUFFICES ASSUME NEW e \in net, e.call = c PROVE FALSE
    OBVIOUS
  <1>1. e.verb \in Verbs
    BY ExchangeTypes DEF Faithful
  <1>2. Sent(c)
    BY DEF Faithful, CallInv
  <1>3. QED
    BY <1>1, <1>2 DEF Sent, IsAt, Verbs

\* The answer a call waits for is of the kind its phase and operation say.
LEMMA AwaitedVerb ==
    ASSUME Faithful, NEW c \in Calls, NEW e \in net, Awaited(c, e)
    PROVE  /\ IsAt(c, {"connect"}) => e.verb = "info"
           /\ IsAt(c, {"wait"}) =>
                /\ Kind(c) = "put" => e.verb = "post"
                /\ Kind(c) = "get" => e.verb = "get"
                /\ Kind(c) = "delete" => e.verb = "delete"
  <1>1. e.verb \in Verbs /\ e.call = c /\ e.try = op[c].try
    BY ExchangeTypes DEF Faithful, Awaited
  <1>2. Sent(c) /\ op[c].opt.kind \in {"put", "get", "delete"}
    BY CallTypes DEF Faithful, CallInv, Inv, Option
  <1>3. QED
    BY <1>1, <1>2 DEF Sent, IsAt, Verbs, Kind

\* When it has been read, what is left are uploads of a signed put.
LEMMA LeftBehind ==
    ASSUME Faithful, NEW c \in Calls, NEW e \in net, Awaited(c, e)
    PROVE  \A d \in net \ {e} : d.call = c => d.verb = "post" /\ ~Plain(c)
  <1> SUFFICES ASSUME NEW d \in net, d # e, d.call = c
               PROVE  d.verb = "post" /\ ~Plain(c)
    OBVIOUS
  <1>1. /\ d.verb \in Verbs /\ e.verb \in Verbs /\ e.call = c /\ e.try = op[c].try
        /\ d.file.part \in Parts /\ e.file.part \in Parts
    BY ExchangeTypes DEF Faithful, Awaited
  <1>2. Sent(c) /\ Single(c)
    BY DEF Faithful, CallInv
  <1>3. op[c].opt.kind \in {"put", "get", "delete"} /\ op[c].phase \in {"connect", "wait"}
    BY CallTypes DEF Faithful, Inv, Option, Awaited
  <1>4. CASE e.verb # "post"
    <2>1. d.verb = "post"
      BY <1>1, <1>2, <1>4 DEF Single
    <2>2. Kind(c) = "put"
      BY <1>2, <2>1 DEF Sent
    <2>3. IsAt(c, {"connect"})
      BY <1>1, <1>2, <1>3, <1>4, <2>2 DEF Sent, Verbs, IsAt
    <2>4. QED
      BY <1>2, <2>1, <2>3 DEF Sent, IsAt
  <1>5. CASE e.verb = "post"
    <2>1. Kind(c) = "put" /\ IsAt(c, {"wait"})
      BY <1>1, <1>2, <1>3, <1>5 DEF Sent, IsAt
    <2>2. d.verb = "post"
      BY <1>1, <1>2, <2>1 DEF Sent, Verbs, IsAt
    <2>3. ASSUME Plain(c) PROVE FALSE
      <3>1. d.file.part = "content" /\ e.file.part = "content"
        BY <1>2, <1>1, <1>5, <2>2, <2>3 DEF Sent, About, AllParts, Plain
      <3>2. d.try = e.try
        BY <1>1, <1>2, <2>2, <2>3 DEF Sent
      <3>3. QED
        BY <1>1, <1>2, <1>5, <2>2, <3>1, <3>2 DEF Single
    <2>4. QED
      BY <2>2, <2>3
  <1>6. QED
    BY <1>4, <1>5

----------------------------------------------------------------------------
(* What every step leaves alone. *)

\* A call whose record and effects stay, and to which no exchange is added,
\* keeps its part of the invariant: others only remove files or give them
\* versions that were not there before.
LEMMA OthersKeep ==
    ASSUME Faithful, NEW c \in Calls, op'[c] = op[c], effects'[c] = effects[c],
           \A e \in net' : e.call = c => e \in net,
           clock' \in Nat, clock <= clock',
           \A f \in File : files'[f] \in {0, files[f], clock + 1}
    PROVE  CallInv(c)'
  <1>1. CallInv(c) /\ clock \in Nat
    BY HubTypes DEF Faithful
  <1>2. /\ op[c].etag \in 0..clock
        /\ \A e \in net : e.call = c /\ e.verb = "post" => e.match \in 0..clock
    BY EtagsIssued
  <1>3. Sent(c)'
    BY <1>1 DEF CallInv, Sent, IsAt, Kind, About, Plain, Did, Path
  <1>4. Single(c)'
    BY <1>1 DEF CallInv, Single
  <1>5. Truthful(c)'
    BY <1>1 DEF CallInv, Truthful, Did
  <1>6. Gathered(c)'
    BY <1>1 DEF CallInv, Gathered, IsAt, Kind, Did, Path
  <1>7. Asked(c)'
    BY <1>1 DEF CallInv, Asked, IsAt, Kind
  <1>8. OneUpload(c)'
    BY <1>1 DEF CallInv, OneUpload, IsAt, Kind, Plain
  <1>9. Spent(c)'
    <2>1. ASSUME NEW v \in 0..clock, v # 0, \A f \in File : files[f] # v
          PROVE  \A f \in File : files'[f] # v
      BY <1>1, <2>1
    <2>2. Spent(c)
      BY <1>1 DEF CallInv
    <2>3. QED
      BY <1>2, <2>1, <2>2 DEF Spent, IsAt, Did
  <1>10. Done(c)'
    BY <1>1 DEF CallInv, Done, IsAt, Kind, Did
  <1>11. QED
    BY <1>3, <1>4, <1>5, <1>6, <1>7, <1>8, <1>9, <1>10 DEF CallInv

----------------------------------------------------------------------------
(* The continuations, by what they leave of the call. *)

\* A settled call keeps its operation and nothing else.
LEMMA SettledFields ==
    ASSUME Inv, NEW c \in Calls, NEW o, NEW code, Settle(c, o, code)
    PROVE  /\ op'[c].opt = op[c].opt /\ op'[c].phase = o /\ op'[c].try = op[c].try
           /\ op'[c].cfg = op[c].cfg /\ op'[c].etag = 0 /\ op'[c].got = {}
           /\ op'[c].written = 0 /\ op'[c].status = code
  BY HubTypes DEF Settle, NewOperation

\* Settling keeps the invariant, when it tells the truth.
LEMMA SettledInv ==
    ASSUME Faithful, NEW c \in Calls, NEW o \in {"resolved", "rejected"}, NEW code,
           Settle(c, o, code), UNCHANGED <<files, clock, effects>>, net' \subseteq net,
           \A e \in net' : e.call = c => e.verb = "post" /\ ~Plain(c),
           o = "resolved" /\ Kind(c) # "get" =>
               \A part \in AllParts(op[c].opt) :
                   Did(c, IF Kind(c) = "put" THEN "post" ELSE "delete", part),
           o = "rejected" /\ code \notin {Pending, Lost} /\ Kind(c) = "put" /\ Plain(c) =>
               effects[c] = {}
    PROVE  CallInv(c)'
  <1>1. CallInv(c)
    BY DEF Faithful
  <1>2. /\ op'[c].opt = op[c].opt /\ op'[c].phase = o /\ op'[c].try = op[c].try
        /\ op'[c].cfg = op[c].cfg /\ op'[c].etag = 0 /\ op'[c].got = {}
        /\ op'[c].written = 0 /\ op'[c].status = code
    BY SettledFields DEF Faithful
  <1>3. Sent(c)'
    BY <1>1, <1>2 DEF CallInv, Sent, IsAt, Kind, About, Plain, Path
  <1>4. Single(c)'
    BY <1>1 DEF CallInv, Single
  <1>5. Truthful(c)'
    BY <1>1 DEF CallInv, Truthful, Did
  <1>6. Gathered(c)'
    BY <1>2 DEF Gathered
  <1>7. Asked(c)'
    BY <1>1, <1>2 DEF CallInv, Asked, IsAt, Kind
  <1>8. OneUpload(c)'
    BY <1>2 DEF OneUpload, IsAt, Kind, Plain
  <1>9. Spent(c)'
    BY <1>1, <1>2 DEF CallInv, Spent, IsAt, Did
  <1>10. Done(c)'
    BY <1>2 DEF Done, IsAt, Kind, Did
  <1>11. QED
    BY <1>3, <1>4, <1>5, <1>6, <1>7, <1>8, <1>9, <1>10 DEF CallInv

\* A call that has done nothing yet, and asks for nothing to be written.
LEMMA FreshInv ==
    ASSUME Faithful, NEW c \in Calls, effects'[c] = {}, op'[c].got = {},
           op'[c].phase # "resolved", op'[c].opt.ignore => op'[c].etag = 0,
           op'[c].phase \in {"begin", "encode"} => op'[c].try = 1,
           \A e \in net' : e.call = c => e.verb # "post" /\ e.status = Pending,
           Sent(c)', Single(c)'
    PROVE  CallInv(c)'
  <1>1. Truthful(c)'
    BY DEF Truthful, Pending
  <1>2. Gathered(c)' /\ Asked(c)' /\ OneUpload(c)' /\ Done(c)'
    BY DEF Gathered, Asked, OneUpload, Done, IsAt
  <1>3. Spent(c)'
    BY DEF Spent, Did
  <1>4. QED
    BY <1>1, <1>2, <1>3 DEF CallInv

\* The uploads of an attempt: one for each part, with the preconditions of
\* the etag the call has read.
LEMMA UploadFacts ==
    ASSUME Inv, NEW c \in Calls, NEW k, NEW cfg, NEW v, op[c].opt.ignore => v = 0
    PROVE  /\ \A e \in Uploads(c, k, cfg, v) :
                /\ e.call = c /\ e.try = k /\ e.verb = "post" /\ e.status = Pending
                /\ e.file.user = cfg.user /\ e.file.path = Path(c)
                /\ e.file.part \in AllParts(op[c].opt)
                /\ e.file.part = "content" => e.match = v
           /\ \A d, e \in Uploads(c, k, cfg, v) : d.file.part = e.file.part => d = e
  BY DEF Uploads, PostRequest, Path, AllParts, Parts

\* An attempt to put.
LEMMA UploadsInv ==
    ASSUME Faithful, NEW c \in Calls, NEW k \in 1..2, NEW cfg, NEW v, NEW left \in SUBSET net,
           op[c].opt.kind = "put", op[c].opt.ignore => v = 0,
           op'[c].opt = op[c].opt, op'[c].phase = "wait", op'[c].try = k,
           op'[c].cfg = cfg, op'[c].etag = v, op'[c].got = {},
           UNCHANGED <<files, clock, effects>>,
           net' = left \cup Uploads(c, k, cfg, v),
           \A e \in left : e.call = c =>
               /\ e.verb = "post" /\ ~Plain(c) /\ e.try # k /\ e.try <= k
               /\ e.file.part = "content" => e.match = v,
           Plain(c) => effects[c] = {},
           Did(c, "post", "content") /\ v # 0 => \A f \in File : files[f] # v
    PROVE  CallInv(c)'
  <1> DEFINE U == Uploads(c, k, cfg, v)
  <1>1. CallInv(c)
    BY DEF Faithful
  <1>2. /\ \A e \in U : /\ e.call = c /\ e.try = k /\ e.verb = "post" /\ e.status = Pending
                        /\ e.file.user = cfg.user /\ e.file.path = Path(c)
                        /\ e.file.part \in AllParts(op[c].opt)
                        /\ e.file.part = "content" => e.match = v
        /\ \A d, e \in U : d.file.part = e.file.part => d = e
    BY UploadFacts DEF Faithful
  <1> HIDE DEF U
  <1>3. net' = left \cup U /\ Path(c)' = Path(c)
    BY DEF U, Path
  <1>4. Sent(c)'
    BY <1>1, <1>2, <1>3 DEF CallInv, Sent, IsAt, Kind, About, Plain
  <1>5. Single(c)'
    BY <1>1, <1>2, <1>3 DEF CallInv, Single
  <1>6. Truthful(c)'
    BY <1>1, <1>2, <1>3 DEF CallInv, Truthful, Did, Pending
  <1>7. Gathered(c)' /\ Done(c)'
    BY DEF Gathered, Done, IsAt
  <1>8. Asked(c)'
    BY <1>1 DEF CallInv, Asked, IsAt, Kind
  <1>9. OneUpload(c)'
    BY <1>2, <1>3 DEF OneUpload, IsAt, Plain
  <1>10. Spent(c)'
    BY <1>1, <1>2, <1>3 DEF CallInv, Spent, IsAt, Did
  <1>11. QED
    BY <1>4, <1>5, <1>6, <1>7, <1>8, <1>9, <1>10 DEF CallInv

\* A request to delete one of the files of a call.
LEMMA DeletionInv ==
    ASSUME Faithful, NEW c \in Calls, NEW k, NEW cfg, NEW part \in AllParts(op[c].opt),
           NEW left \in SUBSET net, op[c].opt.kind = "delete",
           part = "sig" => Did(c, "delete", "content"),
           op'[c].opt = op[c].opt, op'[c].phase = "wait", op'[c].etag = op[c].etag,
           UNCHANGED <<files, clock, effects>>,
           net' = left \cup {DeleteRequest(c, k, cfg, Path(c), part)},
           \A e \in left : e.call # c
    PROVE  CallInv(c)'
  <1> DEFINE r == DeleteRequest(c, k, cfg, Path(c), part)
  <1>1. CallInv(c)
    BY DEF Faithful
  <1>2. /\ r.call = c /\ r.verb = "delete" /\ r.status = Pending
        /\ r.file.path = Path(c) /\ r.file.part = part
    BY DEF DeleteRequest
  <1> HIDE DEF r
  <1>3. \A e \in net' : e.call = c => e = r
    BY DEF r
  <1>4. Sent(c)'
    BY <1>2, <1>3 DEF Sent, IsAt, Kind, About, Did, Path
  <1>5. Single(c)' /\ Truthful(c)'
    BY <1>2, <1>3 DEF Single, Truthful, Pending
  <1>6. Gathered(c)' /\ OneUpload(c)' /\ Done(c)'
    BY DEF Gathered, OneUpload, Done, IsAt, Kind
  <1>7. Asked(c)'
    BY <1>1 DEF CallInv, Asked, IsAt, Kind
  <1>8. ~Did(c, "post", "content")
    BY <1>1 DEF CallInv, Asked, Kind, Did
  <1>9. Spent(c)'
    BY <1>1, <1>2, <1>3, <1>8 DEF CallInv, Spent, IsAt, Did
  <1>10. QED
    BY <1>4, <1>5, <1>6, <1>7, <1>9 DEF CallInv

\* Rejecting with the answer that was awaited: a plain put whose upload was
\* refused or conflicted has done nothing.
LEMMA RejectInv ==
    ASSUME Faithful, NEW c \in Calls, NEW e \in net, Awaited(c, e), NEW code,
           Reject(c, code), UNCHANGED <<files, clock, effects>>, net' = net \ {e},
           code \in {Pending, Lost} \/ effects[c] = {} \/ Kind(c) # "put" \/ ~Plain(c)
    PROVE  CallInv(c)'
  <1>1. \A d \in net' : d.call = c => d.verb = "post" /\ ~Plain(c)
    BY LeftBehind
  <1>2. Settle(c, "rejected", code)
    BY DEF Reject
  <1>3. QED
    BY <1>1, <1>2, SettledInv

\* The answer to hub_info.
LEMMA ConnectedInv ==
    ASSUME Faithful, NEW c \in Calls, NEW e \in net, Connected(c, e)
    PROVE  CallInv(c)'
  <1>1. /\ Awaited(c, e) /\ op[c].phase = "connect" /\ UNCHANGED <<files, clock, effects>>
        /\ e.call = c /\ e.try = op[c].try /\ IsAt(c, {"connect"})
    BY DEF Connected, Awaited, hubState, IsAt
  <1>2. Inv /\ CallInv(c) /\ op \in [Calls -> Operation] /\ op[c] \in Operation
    BY HubTypes DEF Faithful
  <1>3. Kind(c) = "put" /\ Plain(c) => effects[c] = {}
    BY <1>1, <1>2 DEF CallInv, OneUpload
  <1>4. /\ op[c].got = {} /\ (op[c].opt.ignore => op[c].etag = 0)
        /\ op[c].etag \in Nat /\ op[c].try \in 1..2
    BY <1>1, <1>2 DEF CallInv, Gathered, Spent, IsAt, Operation
  <1>5. \A d \in net \ {e} : d.call = c =>
            /\ d.verb = "post" /\ ~Plain(c) /\ Kind(c) = "put"
            /\ d.try # op[c].try /\ d.try <= op[c].try /\ d.try \in 1..2
            /\ d.file.part = "content" => d.match = op[c].etag
    BY <1>1, <1>2, LeftBehind, ExchangeTypes DEF CallInv, Sent, Spent, IsAt
  <1>6. CASE ConnectFails(c, e) \/ ConnectAfterSignOut(c, e)
    BY <1>1, <1>3, <1>6, RejectInv DEF ConnectFails, ConnectAfterSignOut
  <1>7. CASE Connect(c, e)
    <2> DEFINE cfg == [user |-> e.file.user, epoch |-> e.value]
    <2>1. CASE e.try = 1
      <3>1. net' = net \ {e} /\ op' = [op EXCEPT ![c].phase = "begin", ![c].cfg = cfg,
                                               ![c].first = cfg]
        BY <1>7, <2>1 DEF Connect
      <3>2. /\ op'[c].opt = op[c].opt /\ op'[c].phase = "begin" /\ op'[c].got = op[c].got
            /\ op'[c].etag = op[c].etag /\ op'[c].try = op[c].try
        BY <1>2, <3>1 DEF Operation
      <3>3. \A d \in net' : d.call # c
        BY <1>1, <1>5, <2>1, <3>1
      <3>4. effects[c] = {}
        BY <1>1, <1>2, <2>1 DEF CallInv, Asked, IsAt
      <3>5. Sent(c)' /\ Single(c)'
        BY <3>3 DEF Sent, Single
      <3>6. QED
        BY <1>1, <1>4, <2>1, <3>2, <3>3, <3>4, <3>5, FreshInv
    <2>2. CASE e.try # 1
      <3>1. /\ net' = (net \ {e}) \cup Requests(c, 2, cfg)
            /\ op' = [op EXCEPT ![c].phase = "wait", ![c].cfg = cfg]
        BY <1>7, <2>2 DEF Connect
      <3>2. /\ op'[c].opt = op[c].opt /\ op'[c].phase = "wait" /\ op'[c].got = op[c].got
            /\ op'[c].etag = op[c].etag /\ op'[c].cfg = cfg /\ op'[c].try = op[c].try
        BY <1>2, <3>1 DEF Operation
      <3> HIDE DEF cfg
      <3>3. op[c].try = 2 /\ op[c].opt.kind \in {"put", "delete"}
        BY <1>1, <1>2, <1>4, <2>2, CallTypes DEF Inv, TypeInv, ConfigInPlace, Option
      <3>4. CASE op[c].opt.kind = "put"
        <4>1. net' = (net \ {e}) \cup Uploads(c, 2, cfg, op[c].etag)
          BY <3>1, <3>4 DEF Requests
        <4>2. Did(c, "post", "content") /\ op[c].etag # 0 =>
                  \A f \in File : files[f] # op[c].etag
          BY <1>1, <1>2 DEF CallInv, Spent, IsAt
        <4>3. QED
          <5> DEFINE left == net \ {e}
                     v == op[c].etag
          <5>1. left \in SUBSET net /\ net' = left \cup Uploads(c, 2, cfg, v)
            BY <4>1
          <5>2. \A d \in left : d.call = c =>
                    /\ d.verb = "post" /\ ~Plain(c) /\ d.try # 2 /\ d.try <= 2
                    /\ d.file.part = "content" => d.match = v
            BY <1>5, <3>3
          <5>3. Plain(c) => effects[c] = {}
            BY <1>3, <3>4 DEF Kind
          <5>4. 2 \in 1..2 /\ op'[c].try = 2 /\ op'[c].got = {} /\ op'[c].etag = v
            BY <1>4, <3>2, <3>3
          <5> HIDE DEF left, v
          <5>5. (op[c].opt.ignore => v = 0)
                /\ (Did(c, "post", "content") /\ v # 0 => \A f \in File : files[f] # v)
            BY <1>4, <4>2 DEF v
          <5>6. QED
            BY <1>1, <3>2, <3>4, <5>1, <5>2, <5>3, <5>4, <5>5, UploadsInv
      <3>5. CASE op[c].opt.kind = "delete"
        <4>1. net' = (net \ {e}) \cup {DeleteRequest(c, 2, cfg, Path(c), "content")}
          BY <3>1, <3>5 DEF Requests
        <4>2. \A d \in net \ {e} : d.call # c
          BY <1>5, <3>5 DEF Kind
        <4>3. "content" \in AllParts(op[c].opt)
          BY DEF AllParts, Parts
        <4>4. QED
          <5> DEFINE left == net \ {e}
          <5>1. left \in SUBSET net
            OBVIOUS
          <5>2. /\ net' = left \cup {DeleteRequest(c, 2, cfg, Path(c), "content")}
                /\ \A d \in left : d.call # c
            BY <4>1, <4>2
          <5> HIDE DEF left
          <5>3. QED
            BY <1>1, <3>2, <3>5, <4>3, <5>1, <5>2, DeletionInv
      <3>6. QED
        BY <3>3, <3>4, <3>5
    <2>3. QED
      BY <2>1, <2>2
  <1>8. QED
    BY <1>6, <1>7 DEF Connected

\* Going back for a new hub config.
LEMMA ReconnectInv ==
    ASSUME Faithful, NEW c \in Calls, NEW e \in net, Awaited(c, e), Reconnect(c, e),
           op[c].phase = "wait", op[c].opt.kind # "get", op[c].try = 1,
           UNCHANGED <<files, clock, effects>>,
           Kind(c) = "put" /\ Plain(c) => effects[c] = {}
    PROVE  CallInv(c)'
  <1>1. CASE ~SignedIn(c)
    BY <1>1, RejectInv DEF Reconnect
  <1>2. CASE SignedIn(c)
    <2> DEFINE r == InfoRequest(c, 2, Session(c).user, Path(c))
    <2>1. CallInv(c) /\ op \in [Calls -> Operation] /\ op[c] \in Operation
      BY HubTypes DEF Faithful
    <2>2. /\ op'[c].opt = op[c].opt /\ op'[c].phase = "connect" /\ op'[c].try = 2
          /\ op'[c].got = {} /\ op'[c].etag = op[c].etag
      BY <1>2, <2>1 DEF Reconnect, Operation
    <2>3. r.call = c /\ r.verb = "info" /\ r.try = 2 /\ r.status = Pending
      BY DEF InfoRequest
    <2>4. net' = (net \ {e}) \cup {r}
      BY <1>2 DEF Reconnect
    <2> HIDE DEF r
    <2>5. \A d \in net' : d.call = c =>
              d = r \/ (d \in net /\ d.verb = "post" /\ ~Plain(c) /\ d.try = 1)
      <3>1. Inv /\ \A d \in net \ {e} : d.call = c => d.verb = "post" /\ ~Plain(c)
        BY LeftBehind DEF Faithful
      <3>2. \A d \in net : d.try \in 1..2
        BY <3>1, ExchangeTypes
      <3>3. QED
        BY <2>1, <2>4, <3>1, <3>2 DEF CallInv, Sent
    <2>6. Sent(c)'
      BY <2>1, <2>2, <2>3, <2>5 DEF CallInv, Sent, IsAt, Kind, About, Plain, Path
    <2>7. Single(c)'
      BY <2>1, <2>3, <2>5 DEF CallInv, Single
    <2>8. Truthful(c)'
      BY <2>1, <2>3, <2>5 DEF CallInv, Truthful, Did, Pending
    <2>9. Gathered(c)' /\ Done(c)'
      BY <2>2 DEF Gathered, Done, IsAt
    <2>10. Asked(c)'
      BY <2>1, <2>2 DEF CallInv, Asked, IsAt, Kind
    <2>11. OneUpload(c)'
      BY <2>2 DEF OneUpload, IsAt, Kind, Plain
    <2>12. Spent(c)'
      BY <2>1, <2>2, <2>3, <2>5 DEF CallInv, Spent, IsAt, Did
    <2>13. QED
      BY <2>6, <2>7, <2>8, <2>9, <2>10, <2>11, <2>12 DEF CallInv
  <1>3. QED
    BY <1>1, <1>2

\* The steps of a put before its first upload is answered.
LEMMA PutBeginInv ==
    ASSUME Faithful, NEW c \in Calls, PutOversized(c) \/ PutBegin(c) \/ PutEncode(c)
    PROVE  CallInv(c)'
  <1>1. /\ Inv /\ CallInv(c) /\ op \in [Calls -> Operation] /\ op[c] \in Operation
        /\ op[c].try \in 1..2
    BY HubTypes DEF Faithful, Operation
  <1>2. /\ op[c].opt.kind = "put" /\ IsAt(c, {"begin", "encode"})
        /\ UNCHANGED <<files, clock, effects>>
    BY DEF PutOversized, PutBegin, PutEncode, hubState, IsAt
  <1>3. effects[c] = {} /\ op[c].got = {} /\ (op[c].opt.ignore => op[c].etag = 0)
    BY <1>1, <1>2 DEF CallInv, Asked, Gathered, Spent, IsAt
  <1>4. \A e \in net : e.call # c
    BY <1>2, NothingSentYet
  <1>5. op[c].opt.ignore => KnownEtag(c) = 0
    BY DEF KnownEtag
  <1>6. ASSUME Reject(c, Pending), UNCHANGED net PROVE CallInv(c)'
    BY <1>2, <1>4, <1>6, SettledInv DEF Reject
  <1>7. ASSUME NEW v, op[c].opt.ignore => v = 0, op'[c].opt = op[c].opt,
               op'[c].phase = "wait", op'[c].try = 1, op'[c].cfg = op[c].cfg,
               op'[c].etag = v, op'[c].got = {},
               net' = net \cup Uploads(c, 1, op[c].cfg, v)
        PROVE  CallInv(c)'
    <2>1. net \in SUBSET net /\ 1 \in 1..2 /\ ~Did(c, "post", "content")
      BY <1>3 DEF Did
    <2>2. QED
      BY <1>2, <1>3, <1>4, <1>7, <2>1, UploadsInv
  <1>8. op[c].try = 1
    BY <1>1, <1>2 DEF CallInv, Asked
  <1>9. CASE PutOversized(c)
    BY <1>6, <1>9 DEF PutOversized
  <1>10. CASE PutBegin(c) /\ op[c].opt.mode = "plain"
    <2>1. /\ net' = net \cup Uploads(c, 1, op[c].cfg, KnownEtag(c))
          /\ op' = [op EXCEPT ![c].phase = "wait", ![c].snap = Session(c),
                              ![c].etag = KnownEtag(c)]
      BY <1>10 DEF PutBegin
    <2>2. /\ op'[c].opt = op[c].opt /\ op'[c].phase = "wait" /\ op'[c].got = op[c].got
          /\ op'[c].etag = KnownEtag(c) /\ op'[c].cfg = op[c].cfg /\ op'[c].try = op[c].try
      BY <1>1, <2>1 DEF Operation
    <2>3. QED
      BY <1>3, <1>5, <1>7, <1>8, <2>1, <2>2
  <1>11. CASE PutBegin(c) /\ op[c].opt.mode # "plain" /\ ~Reject(c, Pending)
    <2>1. /\ UNCHANGED net
          /\ op' = [op EXCEPT ![c].phase = "encode", ![c].snap = Session(c),
                              ![c].etag = KnownEtag(c)]
      BY <1>11 DEF PutBegin
    <2>2. /\ op'[c].opt = op[c].opt /\ op'[c].phase = "encode" /\ op'[c].got = op[c].got
          /\ op'[c].etag = KnownEtag(c) /\ op'[c].try = op[c].try
      BY <1>1, <2>1 DEF Operation
    <2>3. Sent(c)' /\ Single(c)'
      BY <1>4, <2>1 DEF Sent, Single
    <2>4. QED
      BY <1>2, <1>3, <1>4, <1>5, <1>8, <2>1, <2>2, <2>3, FreshInv
  <1>12. CASE PutBegin(c) /\ op[c].opt.mode # "plain" /\ Reject(c, Pending)
    <2>1. UNCHANGED net
      BY <1>12 DEF PutBegin
    <2>2. QED
      BY <1>6, <1>12, <2>1
  <1>13. CASE PutEncode(c) /\ SignedIn(c)
    <2>1. /\ net' = net \cup Uploads(c, 1, op[c].cfg, op[c].etag)
          /\ op' = [op EXCEPT ![c].phase = "wait"]
      BY <1>13 DEF PutEncode
    <2>2. /\ op'[c].opt = op[c].opt /\ op'[c].phase = "wait" /\ op'[c].got = op[c].got
          /\ op'[c].etag = op[c].etag /\ op'[c].cfg = op[c].cfg /\ op'[c].try = op[c].try
      BY <1>1, <2>1 DEF Operation
    <2>3. QED
      BY <1>3, <1>7, <1>8, <2>1, <2>2
  <1>14. CASE PutEncode(c) /\ ~SignedIn(c)
    BY <1>6, <1>14 DEF PutEncode
  <1>15. QED
    BY <1>9, <1>10, <1>11, <1>12, <1>13, <1>14

\* The answer to an upload: what a put gathers, and what it knows of its
\* effects when it resolves or fails.
LEMMA PutAnsweredInv ==
    ASSUME Faithful, NEW c \in Calls, NEW e \in net, PutAnswered(c, e)
    PROVE  CallInv(c)'
  <1>1. /\ Awaited(c, e) /\ e.call = c /\ e.try = op[c].try
        /\ op[c].phase = "wait" /\ op[c].opt.kind = "put"
        /\ IsAt(c, {"wait"}) /\ Kind(c) = "put"
        /\ UNCHANGED <<files, clock, effects>>
    BY DEF PutAnswered, Awaited, hubState, IsAt, Kind
  <1>2. /\ Inv /\ CallInv(c) /\ op \in [Calls -> Operation] /\ op[c] \in Operation
        /\ op[c].try \in 1..2 /\ clock \in Nat
    BY HubTypes DEF Faithful, Operation
  <1>3. /\ e.verb = "post" /\ e \in Exchange /\ e.file \in File /\ e.file.part \in Parts
        /\ e.status \in Statuses
    BY <1>1, <1>2, AwaitedVerb, ExchangeTypes
  <1>4. /\ e.file = [user |-> op[c].cfg.user, path |-> Path(c), part |-> e.file.part]
        /\ e.file.part \in AllParts(op[c].opt)
    BY <1>1, <1>2, <1>3 DEF CallInv, Sent, About, IsAt, File
  <1>5. e.status = 200 =>
            /\ e.value \in 1..clock
            /\ [verb |-> "post", file |-> e.file, version |-> e.value] \in effects[c]
            /\ Did(c, "post", e.file.part)
    <2>1. e.status = 200 =>
            /\ e.value \in 1..clock
            /\ [verb |-> "post", file |-> e.file, version |-> e.value] \in effects[c]
      BY <1>1, <1>2, <1>3 DEF CallInv, Truthful
    <2>2. QED
      BY <2>1 DEF Did
  <1>6. \A d \in net \ {e} : d.call = c => d.verb = "post" /\ ~Plain(c)
    BY <1>1, LeftBehind
  <1>7. "content" \in op[c].got => Did(c, "post", "content")
    BY <1>1, <1>2 DEF CallInv, Gathered, Did
  <1>8. CASE PutPartDone(c, e)
    <2>1. /\ net' = net \ {e} /\ e.status = 200
          /\ op' = [op EXCEPT ![c].got = op[c].got \cup {e.file.part},
                              ![c].written = WriteEtag(c, e)]
      BY <1>8 DEF PutPartDone
    <2>2. /\ op'[c].opt = op[c].opt /\ op'[c].phase = op[c].phase
          /\ op'[c].got = op[c].got \cup {e.file.part}
          /\ op'[c].written = WriteEtag(c, e) /\ op'[c].try = op[c].try
          /\ op'[c].etag = op[c].etag /\ op'[c].cfg = op[c].cfg /\ op'[c].status = op[c].status
      BY <1>2, <2>1 DEF Operation
    <2>3. Sent(c)' /\ Single(c)' /\ Truthful(c)'
      <3>1. net' \subseteq net
        BY <2>1
      <3>2. Sent(c)'
        BY <1>1, <1>2, <2>2, <3>1 DEF CallInv, Sent, IsAt, Kind, About, Plain, Path, Did
      <3>3. Single(c)'
        BY <1>2, <3>1 DEF CallInv, Single
      <3>4. Truthful(c)'
        BY <1>1, <1>2, <3>1 DEF CallInv, Truthful, Did
      <3>5. QED
        BY <3>2, <3>3, <3>4
    <2>4. Gathered(c)'
      <3>1. ("sig" \in op[c].got \/ e.file.part = "sig") => Did(c, "post", "sig")
        BY <1>1, <1>2, <1>5, <2>1 DEF CallInv, Gathered
      <3>2. CASE e.file.part = "content"
        BY <1>1, <1>4, <1>5, <2>1, <2>2, <3>1, <3>2, ZenonT(30)
        DEF Gathered, WriteEtag, IsAt, Kind, Path, Did
      <3>3. CASE e.file.part # "content"
        BY <1>1, <1>2, <2>1, <2>2, <3>1, <3>3
        DEF CallInv, Gathered, WriteEtag, IsAt, Kind, Path, Did
      <3>4. QED
        BY <3>2, <3>3
    <2>5. Asked(c)' /\ OneUpload(c)' /\ Done(c)'
      BY <1>1, <1>2, <2>1, <2>2 DEF CallInv, Asked, OneUpload, Done, IsAt, Kind, Plain, Did
    <2>6. Spent(c)'
      BY <1>1, <1>2, <2>1, <2>2 DEF CallInv, Spent, IsAt, Did
    <2>7. QED
      BY <2>3, <2>4, <2>5, <2>6 DEF CallInv
  <1>9. CASE PutResolves(c, e)
    <2>1. /\ net' = net \ {e} /\ e.status = 200 /\ Settle(c, "resolved", 200)
          /\ op[c].got \cup {e.file.part} = AllParts(op[c].opt)
      BY <1>9 DEF PutResolves
    <2>2. \A part \in AllParts(op[c].opt) : Did(c, "post", part)
      <3>1. "sig" \in op[c].got => Did(c, "post", "sig")
        BY <1>1, <1>2 DEF CallInv, Gathered
      <3>2. op[c].got \subseteq Parts
        BY <1>2 DEF Operation
      <3>3. QED
        BY <1>5, <1>7, <2>1, <3>1, <3>2 DEF Parts
    <2>3. net' \subseteq net
      BY <2>1
    <2>4. QED
      BY <1>1, <1>6, <2>1, <2>2, <2>3, SettledInv
  <1>10. CASE PutFails(c, e)
    <2>1. e.status \notin {Lost, 200} /\ Plain(c) => effects[c] = {}
      BY <1>1, <1>2, <1>3 DEF CallInv, OneUpload
    <2>2. CASE Recoverable(e.status) /\ op[c].try = 1
      <3>1. e.status \notin {Lost, 200}
        BY <2>2 DEF Recoverable, Lost
      <3>2. Reconnect(c, e) /\ op[c].opt.kind # "get"
        BY <1>1, <1>10, <2>2 DEF PutFails
      <3>3. QED
        BY <1>1, <2>1, <2>2, <3>1, <3>2, ReconnectInv
    <2>3. CASE ~(Recoverable(e.status) /\ op[c].try = 1)
      <3>1. Reject(c, e.status) /\ net' = net \ {e} /\ e.status # 200
        BY <1>10, <2>3 DEF PutFails
      <3>2. QED
        BY <1>1, <2>1, <3>1, RejectInv
    <2>4. QED
      BY <2>2, <2>3
  <1>11. QED
    BY <1>8, <1>9, <1>10 DEF PutAnswered

\* Reading a file.
LEMMA GetInv ==
    ASSUME Faithful, NEW c \in Calls, GetBegin(c) \/ (\E e \in net : GetAnswered(c, e))
    PROVE  CallInv(c)'
  <1>1. /\ Inv /\ CallInv(c) /\ op \in [Calls -> Operation] /\ op[c] \in Operation
        /\ Kind(c) = "get" /\ UNCHANGED <<files, clock, effects>>
    BY HubTypes DEF Faithful, GetBegin, GetAnswered, Kind, hubState
  <1>2. CASE GetBegin(c)
    <2> DEFINE r == GetRequest(c, op[c].cfg.user, Path(c))
    <2>1. IsAt(c, {"begin", "encode"})
      BY <1>2 DEF GetBegin, IsAt
    <2>2. \A e \in net : e.call # c
      BY <2>1, NothingSentYet
    <2>3. effects[c] = {} /\ op[c].got = {} /\ (op[c].opt.ignore => op[c].etag = 0)
      BY <1>1, <2>1 DEF CallInv, Asked, Gathered, Spent, IsAt
    <2>4. /\ op'[c].opt = op[c].opt /\ op'[c].phase = "wait" /\ op'[c].got = op[c].got
          /\ op'[c].etag = op[c].etag
      BY <1>1, <1>2 DEF GetBegin, Operation
    <2>5. r.call = c /\ r.verb = "get" /\ r.status = Pending
      BY DEF GetRequest
    <2>6. net' = net \cup {r}
      BY <1>2 DEF GetBegin
    <2> HIDE DEF r
    <2>7. \A e \in net' : e.call = c => e = r
      BY <2>2, <2>6
    <2>8. Sent(c)' /\ Single(c)'
      BY <1>1, <2>4, <2>5, <2>7 DEF Sent, Single, IsAt, Kind
    <2>9. QED
      BY <1>1, <2>3, <2>4, <2>5, <2>7, <2>8, FreshInv
  <1>3. ASSUME NEW e \in net, GetAnswered(c, e) PROVE CallInv(c)'
    <2>1. Awaited(c, e) /\ net' = net \ {e}
      BY <1>3 DEF GetAnswered
    <2>2. \A d \in net' : d.call = c => d.verb = "post" /\ ~Plain(c)
      BY <2>1, LeftBehind
    <2>3. Settle(c, "resolved", 200) \/ Settle(c, "rejected", e.status)
      BY <1>3 DEF GetAnswered, Reject
    <2>4. net' \subseteq net
      BY <2>1
    <2>5. QED
      BY <1>1, <2>2, <2>3, <2>4, SettledInv
  <1>4. QED
    BY <1>2, <1>3

\* Deleting a file, and then its signature.
LEMMA DeleteInv ==
    ASSUME Faithful, NEW c \in Calls, DeleteBegin(c) \/ (\E e \in net : DeleteAnswered(c, e))
    PROVE  CallInv(c)'
  <1>1. /\ Inv /\ CallInv(c) /\ op \in [Calls -> Operation] /\ op[c] \in Operation
        /\ Kind(c) = "delete" /\ op[c].opt.kind = "delete"
        /\ UNCHANGED <<files, clock, effects>>
    BY HubTypes DEF Faithful, DeleteBegin, DeleteAnswered, Kind, hubState
  <1>2. "content" \in AllParts(op[c].opt)
    BY DEF AllParts, Parts
  <1>3. CASE DeleteBegin(c)
    <2>1. IsAt(c, {"begin", "encode"})
      BY <1>3 DEF DeleteBegin, IsAt
    <2>2. \A e \in net : e.call # c
      BY <2>1, NothingSentYet
    <2>3. /\ op'[c].opt = op[c].opt /\ op'[c].phase = "wait" /\ op'[c].etag = op[c].etag
      BY <1>1, <1>3 DEF DeleteBegin, Operation
    <2> DEFINE left == net
               part == "content"
               cfg == op[c].cfg
    <2>4. net' = left \cup {DeleteRequest(c, 1, cfg, Path(c), part)}
      BY <1>1, <1>3 DEF DeleteBegin, Requests
    <2>5. left \in SUBSET net /\ (\A e \in left : e.call # c)
          /\ part \in AllParts(op[c].opt) /\ part # "sig"
      BY <1>2, <2>2
    <2> HIDE DEF left, part, cfg
    <2>6. QED
      BY <1>1, <2>3, <2>4, <2>5, DeletionInv
  <1>4. ASSUME NEW e \in net, DeleteAnswered(c, e) PROVE CallInv(c)'
    <2>1. Awaited(c, e) /\ e.call = c /\ op[c].phase = "wait" /\ IsAt(c, {"wait"})
      BY <1>4 DEF DeleteAnswered, Awaited, IsAt
    <2>2. e.verb = "delete" /\ e.file.part \in Parts
      BY <1>1, <2>1, AwaitedVerb, ExchangeTypes
    <2>3. /\ e.file.part \in AllParts(op[c].opt)
          /\ e.file.part = "sig" => Did(c, "delete", "content")
          /\ e.status = 200 => Did(c, "delete", e.file.part)
      BY <1>1, <2>1, <2>2 DEF CallInv, Sent, About, Truthful
    <2>4. \A d \in net \ {e} : d.call = c => d.verb = "post" /\ ~Plain(c)
      BY <2>1, LeftBehind
    <2>5. \A d \in net \ {e} : d.call # c
      BY <1>1, <2>4 DEF CallInv, Sent
    <2>6. CASE DeletePartDone(c, e)
      <3> DEFINE left == net \ {e}
      <3>1. /\ op' = [op EXCEPT ![c].got = {"content"}] /\ e.status = 200
            /\ e.file.part = "content" /\ op[c].opt.mode = "signed"
            /\ net' = left \cup {DeleteRequest(c, op[c].try, op[c].first, Path(c), "sig")}
        BY <2>6 DEF DeletePartDone
      <3>2. op'[c].opt = op[c].opt /\ op'[c].phase = "wait" /\ op'[c].etag = op[c].etag
        BY <1>1, <2>1, <3>1 DEF Operation
      <3>3. "sig" \in AllParts(op[c].opt) /\ Did(c, "delete", "content")
        BY <2>3, <3>1 DEF AllParts, Parts
      <3>4. left \in SUBSET net /\ \A d \in left : d.call # c
        BY <2>5
      <3> HIDE DEF left
      <3>5. QED
        BY <1>1, <3>1, <3>2, <3>3, <3>4, DeletionInv
    <2>7. CASE DeleteResolves(c, e)
      <3>1. /\ net' = net \ {e} /\ Settle(c, "resolved", 200) /\ e.status = 200
            /\ e.file.part = "sig" \/ op[c].opt.mode # "signed"
        BY <2>7 DEF DeleteResolves
      <3>2. \A part \in AllParts(op[c].opt) : Did(c, "delete", part)
        BY <2>2, <2>3, <3>1 DEF AllParts, Parts
      <3>3. net' \subseteq net /\ \A d \in net' : d.call = c => d.verb = "post" /\ ~Plain(c)
        BY <2>4, <3>1
      <3>4. QED
        BY <1>1, <3>1, <3>2, <3>3, SettledInv
    <2>8. CASE DeleteFails(c, e) /\ op[c].try = 1
      <3>1. Reconnect(c, e)
        BY <2>8 DEF DeleteFails
      <3>2. QED
        BY <1>1, <2>1, <2>8, <3>1, ReconnectInv
    <2>9. CASE DeleteFails(c, e) /\ op[c].try # 1
      <3>1. Reject(c, e.status) /\ net' = net \ {e}
        BY <2>9 DEF DeleteFails
      <3>2. QED
        BY <1>1, <2>1, <3>1, RejectInv
    <2>10. QED
      BY <1>4, <2>6, <2>7, <2>8, <2>9 DEF DeleteAnswered
  <1>5. QED
    BY <1>3, <1>4

\* What a continuation sends is its own call's.
LEMMA ContinueSends ==
    ASSUME Faithful, NEW c \in Calls, Continue(c), NEW e \in net', e.call # c
    PROVE  e \in net
  <1>1. \A k, cfg, v : \A x \in Uploads(c, k, cfg, v) : x.call = c
    BY DEF Uploads, PostRequest
  <1>2. \A k, cfg : \A x \in Requests(c, k, cfg) : x.call = c
    BY <1>1 DEF Requests, DeleteRequest
  <1>3. ASSUME NEW x \in net, Reconnect(c, x) PROVE e \in net
    BY <1>3 DEF Reconnect, InfoRequest
  <1>4. CASE PutOversized(c) \/ PutBegin(c) \/ PutEncode(c)
    BY <1>1, <1>4 DEF PutOversized, PutBegin, PutEncode
  <1>5. CASE GetBegin(c) \/ DeleteBegin(c)
    BY <1>2, <1>5 DEF GetBegin, DeleteBegin, GetRequest
  <1>6. ASSUME NEW x \in net, Connected(c, x) PROVE e \in net
    BY <1>2, <1>6 DEF Connected, ConnectFails, ConnectAfterSignOut, Connect
  <1>7. ASSUME NEW x \in net, PutAnswered(c, x) PROVE e \in net
    BY <1>3, <1>7 DEF PutAnswered, PutPartDone, PutResolves, PutFails
  <1>8. ASSUME NEW x \in net, GetAnswered(c, x) PROVE e \in net
    BY <1>8 DEF GetAnswered
  <1>9. ASSUME NEW x \in net, DeleteAnswered(c, x) PROVE e \in net
    BY <1>3, <1>9 DEF DeleteAnswered, DeletePartDone, DeleteResolves, DeleteFails,
       DeleteRequest
  <1>10. QED
    BY <1>4, <1>5, <1>6, <1>7, <1>8, <1>9 DEF Continue

\* A version a put or a get learns was issued.
LEMMA ContinueLearns ==
    ASSUME Faithful, NEW c \in Calls, Continue(c)
    PROVE  \A s \in Sessions : \A v \in seen'[s] : v \in seen[s] \/ v <= clock
  <1>1. /\ Inv /\ CallInv(c) /\ seen \in [Sessions -> SUBSET Nat] /\ clock \in Nat
    BY HubTypes DEF Faithful
  <1>2. ASSUME NEW v, Learn(c, v), v <= clock
        PROVE  \A s \in Sessions : \A w \in seen'[s] : w \in seen[s] \/ w <= clock
    BY <1>1, <1>2 DEF Learn
  <1>3. ASSUME NEW e \in net, Awaited(c, e), op[c].phase = "wait", e.status = 200,
               op[c].opt.kind \in {"put", "get"}
        PROVE  e.value \in 1..clock
    <2>1. e.verb \in {"post", "get"}
      BY <1>3, AwaitedVerb DEF IsAt, Kind
    <2>2. QED
      BY <1>1, <1>3, <2>1 DEF CallInv, Truthful, Awaited
  <1>4. op[c].written <= clock
    BY <1>1, EtagsIssued
  <1>5. ASSUME NEW e \in net, PutAnswered(c, e), ~UNCHANGED seen
        PROVE  Learn(c, WriteEtag(c, e)) /\ WriteEtag(c, e) <= clock
    <2>1. Learn(c, WriteEtag(c, e)) /\ e.status = 200
      BY <1>5 DEF PutAnswered, PutPartDone, PutResolves, PutFails
    <2>2. e.value \in 1..clock
      BY <1>3, <1>5, <2>1 DEF PutAnswered
    <2>3. QED
      BY <1>1, <1>4, <2>1, <2>2 DEF WriteEtag
  <1>6. ASSUME NEW e \in net, GetAnswered(c, e), ~UNCHANGED seen
        PROVE  Learn(c, e.value) /\ e.value <= clock
    <2>1. Learn(c, e.value) /\ e.status = 200
      BY <1>6 DEF GetAnswered
    <2>2. e.value \in 1..clock
      BY <1>3, <1>6, <2>1 DEF GetAnswered
    <2>3. QED
      BY <1>1, <2>1, <2>2
  <1>7. UNCHANGED seen \/ \E e \in net : PutAnswered(c, e) \/ GetAnswered(c, e)
    BY DEF Continue, PutOversized, PutBegin, PutEncode, GetBegin, DeleteBegin,
       Connected, DeleteAnswered
  <1>8. QED
    BY <1>2, <1>5, <1>6, <1>7

\* A continuation touches neither the files nor another call.
LEMMA ContinueInv ==
    ASSUME Faithful, Inv', NEW c \in Calls, Continue(c)
    PROVE  Faithful'
  <1>1. UNCHANGED <<files, clock, effects>>
    BY DEF Continue, PutOversized, PutBegin, PutEncode, GetBegin, DeleteBegin,
       Connected, PutAnswered, GetAnswered, DeleteAnswered, hubState
  <1>2. CallInv(c)'
    BY PutBeginInv, GetInv, DeleteInv, ConnectedInv, PutAnsweredInv DEF Continue
  <1>3. ASSUME NEW d \in Calls \ {c} PROVE CallInv(d)'
    <2>1. \A e \in net' : e.call = d => e \in net
      BY ContinueSends
    <2>2. op'[d] = op[d]
      BY ContinueFrame DEF Faithful
    <2>3. clock' \in Nat /\ clock <= clock' /\ \A f \in File : files'[f] \in {0, files[f], clock + 1}
      BY <1>1, HubTypes DEF Faithful
    <2>4. QED
      BY <1>1, <2>1, <2>2, <2>3, OthersKeep
  <1>4. Numbered'
    <2>1. /\ Inv /\ Numbered /\ seen \in [Sessions -> SUBSET Nat] /\ clock \in Nat
      BY HubTypes DEF Faithful
    <2>2. \A s \in Sessions : \A v \in seen'[s] : v \in seen[s] \/ v <= clock
      BY ContinueLearns
    <2>3. QED
      BY <1>1, <2>1, <2>2 DEF Numbered
  <1>5. QED
    BY <1>2, <1>3, <1>4 DEF Faithful

----------------------------------------------------------------------------
(* The other steps. *)

\* An operation starts with no exchange and no effects.
LEMMA InvokeInv ==
    ASSUME Faithful, Inv', NEW c \in Calls, Invoke(c)
    PROVE  Faithful'
  <1>1. PICK o \in Offered :
            PutFile(c, o) \/ GetFile(c, o) \/ GetForeignFile(c, o) \/ DeleteFile(c, o)
    BY DEF Invoke
  <1>2. /\ Idle(c) /\ effects' = [effects EXCEPT ![c] = {}]
        /\ UNCHANGED <<files, clock, seen>>
    BY <1>1 DEF PutFile, GetFile, GetForeignFile, DeleteFile, Start
  <1>3. /\ Inv /\ op \in [Calls -> Operation] /\ effects \in [Calls -> SUBSET Effect]
        /\ clock \in Nat
    BY HubTypes DEF Faithful
  <1>4. PICK ph, cfg, r :
            /\ ph \in {"rejected", "begin", "connect", "wait"}
            /\ op' = [op EXCEPT ![c] = NewOperation(o, ph, cfg)]
            /\ net' = net \/ net' = net \cup {r}
            /\ ph \in {"rejected", "begin"} => net' = net
            /\ r.call = c /\ r.status = Pending /\ r.try = 1
            /\ ph = "connect" => r.verb = "info"
            /\ ph = "wait" => r.verb = "get" /\ o.kind = "get"
    <2> DEFINE i == InfoRequest(c, 1, Session(c).user, o.path)
               g == GetRequest(c, o.of, o.path)
               Starts(ph, cfg, r) ==
                   /\ op' = [op EXCEPT ![c] = NewOperation(o, ph, cfg)]
                   /\ net' = net \/ net' = net \cup {r}
                   /\ ph \in {"rejected", "begin"} => net' = net
                   /\ r.call = c /\ r.status = Pending /\ r.try = 1
                   /\ ph = "connect" => r.verb = "info"
                   /\ ph = "wait" => r.verb = "get" /\ o.kind = "get"
    <2>1. /\ i.call = c /\ i.status = Pending /\ i.try = 1 /\ i.verb = "info"
          /\ g.call = c /\ g.status = Pending /\ g.try = 1 /\ g.verb = "get"
      BY DEF InfoRequest, GetRequest
    <2>2. CASE GetForeignFile(c, o)
      <3> HIDE DEF g, i
      <3>1. Starts("wait", NoConfig, g) \/ Starts("rejected", NoConfig, g)
        BY <2>1, <2>2 DEF GetForeignFile, g
      <3>2. QED
        BY <3>1
    <2>3. CASE GetOrSetConnection(c, o)
      <3> HIDE DEF g, i
      <3>1. \/ Starts("rejected", NoConfig, i)
            \/ Starts("begin", Session(c).config, i)
            \/ Starts("connect", NoConfig, i)
        BY <2>1, <2>3 DEF GetOrSetConnection, i
      <3>2. QED
        BY <3>1
    <2>4. QED
      BY <1>1, <2>2, <2>3 DEF PutFile, GetFile, DeleteFile
  <1>5. /\ op'[c].opt = o /\ op'[c].phase = ph /\ op'[c].try = 1 /\ op'[c].etag = 0
        /\ op'[c].got = {} /\ effects'[c] = {}
    BY <1>2, <1>3, <1>4 DEF NewOperation
  <1>6. \A e \in net : e.call # c
    BY <1>2 DEF Idle
  <1>7. \A e \in net' : e.call = c => e = r /\ ph \in {"connect", "wait"}
    BY <1>4, <1>6
  <1>8. Sent(c)'
    BY <1>4, <1>5, <1>7 DEF Sent, IsAt, Kind
  <1>9. Single(c)'
    BY <1>4, <1>7 DEF Single
  <1>10. CallInv(c)'
    <2>1. \A e \in net' : e.call = c => e.verb # "post" /\ e.status = Pending
      BY <1>4, <1>7
    <2>2. op'[c].phase # "resolved"
      BY <1>4, <1>5
    <2>3. QED
      BY <1>5, <1>8, <1>9, <2>1, <2>2, FreshInv
  <1>11. ASSUME NEW d \in Calls \ {c} PROVE CallInv(d)'
    <2>1. \A e \in net' : e.call = d => e \in net
      BY <1>4
    <2>2. op'[d] = op[d] /\ effects'[d] = effects[d]
      BY <1>2, <1>3, <1>4
    <2>3. clock' \in Nat /\ clock <= clock' /\ \A f \in File : files'[f] \in {0, files[f], clock + 1}
      BY <1>2, <1>3
    <2>4. QED
      BY <2>1, <2>2, <2>3, OthersKeep
  <1>12. Numbered'
    BY <1>2 DEF Faithful, Numbered
  <1>13. QED
    BY <1>10, <1>11, <1>12 DEF Faithful

\* An answer takes the place of its request.
LEMMA ReplyFields ==
    ASSUME Inv, NEW e \in net, NEW code, NEW v, Reply(e, code, v)
    PROVE  \E a : /\ net' = (net \ {e}) \cup {a}
                  /\ a.call = e.call /\ a.try = e.try /\ a.verb = e.verb /\ a.file = e.file
                  /\ a.match = e.match /\ a.token = e.token
                  /\ a.status = code /\ a.value = v
  <1> DEFINE a == [e EXCEPT !.status = code, !.value = v]
  <1>1. /\ a.call = e.call /\ a.try = e.try /\ a.verb = e.verb /\ a.file = e.file
        /\ a.match = e.match /\ a.token = e.token /\ a.status = code /\ a.value = v
    BY ExchangeTypes DEF Exchange
  <1>2. net' = (net \ {e}) \cup {a}
    BY DEF Reply
  <1> HIDE DEF a
  <1>3. QED
    BY <1>1, <1>2

\* So the call has the same exchanges as before.
LEMMA ReplySent ==
    ASSUME Faithful, NEW e \in net, NEW a, net' = (net \ {e}) \cup {a}, UNCHANGED op,
           a.call = e.call, a.try = e.try, a.verb = e.verb, a.file = e.file,
           effects[e.call] \subseteq effects'[e.call]
    PROVE  Sent(e.call)' /\ Single(e.call)'
  <1>1. CallInv(e.call)
    BY ExchangeTypes DEF Faithful
  <1>2. \A verb, part : Did(e.call, verb, part) => Did(e.call, verb, part)'
    BY DEF Did
  <1>3. Sent(e.call)'
    BY <1>1, <1>2 DEF CallInv, Sent, IsAt, Kind, About, Plain, Path
  <1>4. Single(e.call)'
    BY <1>1 DEF CallInv, Single
  <1>5. QED
    BY <1>3, <1>4

\* An answer to a request that is not performed, or that only reads.
LEMMA UnperformedInv ==
    ASSUME Faithful, NEW e \in net, NEW code, NEW v, Reply(e, code, v),
           UNCHANGED <<op, files, clock, effects>>,
           code = 200 => e.verb \in {"info", "get"} /\ (e.verb = "get" => v \in 1..clock),
           code \in {Lost, 200} \/ ~Answered(e)
    PROVE  CallInv(e.call)'
  <1> DEFINE c == e.call
  <1>1. /\ Inv /\ c \in Calls /\ CallInv(c)
    BY ExchangeTypes DEF Faithful
  <1>2. PICK a : /\ net' = (net \ {e}) \cup {a}
                 /\ a.call = c /\ a.try = e.try /\ a.verb = e.verb /\ a.file = e.file
                 /\ a.match = e.match /\ a.status = code /\ a.value = v
    BY <1>1, ReplyFields
  <1>3. Sent(c)' /\ Single(c)'
    BY <1>2, ReplySent
  <1> HIDE DEF c
  <1>4. Truthful(c)'
    BY <1>1, <1>2 DEF CallInv, Truthful, Did
  <1>5. Gathered(c)' /\ Asked(c)' /\ Done(c)'
    BY <1>1 DEF CallInv, Gathered, Asked, Done, IsAt, Kind, Did, Path
  <1>6. OneUpload(c)'
    <2>1. code \notin {Lost, 200} => e.status \notin {Lost, 200}
      BY DEF Answered, Pending, Lost
    <2>2. e.call = c
      BY DEF c
    <2>3. QED
      BY <1>1, <1>2, <2>1, <2>2 DEF CallInv, OneUpload, IsAt, Kind, Plain
  <1>7. Spent(c)'
    <2>1. e.call = c
      BY DEF c
    <2>2. QED
      BY <1>1, <1>2, <2>1 DEF CallInv, Spent, IsAt, Did
  <1>8. CallInv(c)'
    BY <1>3, <1>4, <1>5, <1>6, <1>7 DEF CallInv
  <1>9. QED
    BY <1>8 DEF c

\* An upload the hub stores.
LEMMA HubPostInv ==
    ASSUME Faithful, NEW e \in net, HubPost(e), ~Answered(e), UNCHANGED op
    PROVE  CallInv(e.call)'
  <1> DEFINE c == e.call
             x == [verb |-> "post", file |-> e.file, version |-> clock + 1]
  <1>1. /\ Inv /\ c \in Calls /\ CallInv(c) /\ Numbered /\ clock \in Nat
        /\ files \in [File -> Nat] /\ effects \in [Calls -> SUBSET Effect]
        /\ e.file \in File /\ e.match \in Nat
    BY ExchangeTypes, HubTypes DEF Faithful
  <1>2. /\ e.verb = "post" /\ Satisfied(e) /\ clock' = clock + 1
        /\ files' = [files EXCEPT ![e.file] = clock + 1] /\ Reply(e, 200, clock + 1)
        /\ effects' = [effects EXCEPT ![c] = @ \cup {x}]
    <2>1. clock + 1 # 0
      BY <1>1
    <2>2. QED
      BY <2>1 DEF HubPost, Perform
  <1>3. effects'[c] = effects[c] \cup {x}
    BY <1>1, <1>2
  <1>4. PICK a : /\ net' = (net \ {e}) \cup {a}
                 /\ a.call = c /\ a.try = e.try /\ a.verb = e.verb /\ a.file = e.file
                 /\ a.match = e.match /\ a.status = 200 /\ a.value = clock + 1
    BY <1>1, <1>2, ReplyFields
  <1>5. Sent(c)' /\ Single(c)'
    BY <1>3, <1>4, ReplySent
  <1>6. x.verb = "post" /\ x.file = e.file /\ x.version = clock + 1
    OBVIOUS
  <1>7. e.call = c
    OBVIOUS
  <1> HIDE DEF c
  <1>8. /\ Did(c, "post", e.file.part)'
        /\ \A verb, part : Did(c, verb, part) => Did(c, verb, part)'
        /\ \A verb, part : Did(c, verb, part)' =>
               Did(c, verb, part) \/ (verb = "post" /\ part = e.file.part)
    BY <1>3, <1>6 DEF Did
  <1>9. /\ Kind(c) = "put" /\ About(c, e) /\ ~IsAt(c, {"begin", "encode"})
        /\ IsAt(c, {"connect"}) => op[c].try # 1
        /\ Plain(c) => IsAt(c, {"wait"}) /\ e.try = op[c].try
    <2>1. e.try \in 1..2 /\ op[c].try \in 1..2
      BY <1>1, ExchangeTypes, CallTypes DEF Inv, Operation
    <2>2. QED
      BY <1>1, <1>2, <1>7, <2>1 DEF CallInv, Sent
  <1>10. Truthful(c)'
    <2>1. [verb |-> "post", file |-> a.file, version |-> a.value] \in effects'[c]
      BY <1>3, <1>4
    <2>2. ASSUME NEW d \in net', d.call = c, d.status = 200
          PROVE  /\ d.verb \in {"post", "get"} => d.value \in 1..clock'
                 /\ d.verb = "post" =>
                     [verb |-> "post", file |-> d.file, version |-> d.value] \in effects'[c]
                 /\ d.verb = "delete" => Did(c, "delete", d.file.part)'
      <3>1. CASE d = a
        BY <1>1, <1>2, <1>4, <2>1, <3>1
      <3>2. CASE d \in net
        BY <1>1, <1>2, <1>3, <1>8, <2>2, <3>2 DEF CallInv, Truthful
      <3>3. QED
        BY <1>4, <3>1, <3>2
    <2>3. QED
      BY <2>2 DEF Truthful
  <1>11. Gathered(c)'
    BY <1>1, <1>2, <1>3, <1>8 DEF CallInv, Gathered, IsAt, Kind, Path
  <1>12. Asked(c)'
    BY <1>1, <1>3, <1>6, <1>9 DEF CallInv, Asked, IsAt, Kind, About
  <1>13. OneUpload(c)'
    <2>1. ASSUME Plain(c), NEW d \in net, d # e, d.call = c, d.verb = "post"
          PROVE  FALSE
      <3>1. d.file.part = "content" /\ e.file.part = "content" /\ d.try = e.try
        BY <1>1, <1>2, <1>7, <2>1 DEF CallInv, Sent, About, AllParts, Plain
      <3>2. QED
        BY <1>1, <1>2, <1>7, <2>1, <3>1 DEF CallInv, Single
    <2>2. QED
      BY <1>4, <1>9, <2>1 DEF OneUpload, IsAt, Kind, Plain
  <1>14. Spent(c)'
    <2>1. ASSUME NEW v \in 0..clock, v # 0, e.file.part = "content" => v = e.match,
                 Did(c, "post", "content") => \A f \in File : files[f] # v,
                 Did(c, "post", "content")'
          PROVE  \A f \in File : files'[f] # v
      <3>1. \A f \in File : files'[f] = IF f = e.file THEN clock + 1 ELSE files[f]
        BY <1>1, <1>2
      <3>2. CASE e.file.part = "content"
        BY <1>1, <1>2, <2>1, <3>1, <3>2 DEF Satisfied, Numbered
      <3>3. CASE e.file.part # "content"
        BY <1>1, <1>8, <2>1, <3>1, <3>3
      <3>4. QED
        BY <3>2, <3>3
    <2>2. /\ op[c].etag \in 0..clock
          /\ \A d \in net : d.call = c /\ d.verb = "post" => d.match \in 0..clock
      BY <1>1, EtagsIssued
    <2>3. \A d \in net : d.call = c /\ d.verb = "post" /\ d.file.part = "content" =>
              /\ IsAt(c, {"connect", "wait"}) => d.match = op[c].etag
              /\ e.file.part = "content" => d.match = e.match
              /\ Did(c, "post", "content") /\ d.match # 0 => \A f \in File : files[f] # d.match
      BY <1>1, <1>2, <1>7 DEF CallInv, Spent
    <2>4. IsAt(c, {"connect", "wait"}) =>
              /\ e.file.part = "content" => op[c].etag = e.match
              /\ Did(c, "post", "content") /\ op[c].etag # 0 =>
                     \A f \in File : files[f] # op[c].etag
      BY <1>1, <1>2, <1>7 DEF CallInv, Spent
    <2>5. ASSUME NEW d \in net, d.call = c, d.verb = "post", d.file.part = "content",
                 Did(c, "post", "content")', d.match # 0
          PROVE  \A f \in File : files'[f] # d.match
      <3>1. /\ d.match \in 0..clock
            /\ e.file.part = "content" => d.match = e.match
            /\ Did(c, "post", "content") => \A f \in File : files[f] # d.match
        BY <2>2, <2>3, <2>5
      <3>2. QED
        BY <2>1, <2>5, <3>1
    <2>12. ASSUME IsAt(c, {"connect", "wait"}), Did(c, "post", "content")', op[c].etag # 0
           PROVE  \A f \in File : files'[f] # op[c].etag
      BY <2>1, <2>2, <2>4, <2>12
    <2>6. ASSUME NEW d \in net', d.call = c, d.verb = "post", d.file.part = "content"
          PROVE  \E b \in net : /\ b.call = c /\ b.verb = "post" /\ b.file.part = "content"
                                /\ b.match = d.match
      BY <1>4, <1>7, <2>6
    <2>7. op[c].opt.ignore => op[c].etag = 0
      BY <1>1 DEF CallInv, Spent
    <2>8. ASSUME NEW b \in net, b.call = c, b.verb = "post", b.file.part = "content",
                 NEW d \in net, d.call = c, d.verb = "post", d.file.part = "content"
          PROVE  d.match = b.match
      BY <1>1, <2>8 DEF CallInv, Spent
    <2>9. ASSUME NEW d \in net', d.call = c, d.verb = "post", d.file.part = "content"
          PROVE  /\ IsAt(c, {"connect", "wait"}) => d.match = op[c].etag
                 /\ Did(c, "post", "content")' /\ d.match # 0 =>
                        \A f \in File : files'[f] # d.match
      BY <2>3, <2>5, <2>6, <2>9
    <2>10. ASSUME NEW b \in net', b.call = c, b.verb = "post", b.file.part = "content",
                  NEW d \in net', d.call = c, d.verb = "post", d.file.part = "content"
           PROVE  d.match = b.match
      BY <2>6, <2>8, <2>10
    <2>11. QED
      BY <2>7, <2>9, <2>10, <2>12 DEF Spent, IsAt
  <1>15. Done(c)'
    BY <1>1, <1>8 DEF CallInv, Done, IsAt, Kind
  <1>16. CallInv(c)'
    BY <1>5, <1>10, <1>11, <1>12, <1>13, <1>14, <1>15 DEF CallInv
  <1>17. QED
    BY <1>16 DEF c

\* A file the hub removes.
LEMMA HubDeleteInv ==
    ASSUME Faithful, NEW e \in net, HubDelete(e), UNCHANGED op
    PROVE  CallInv(e.call)'
  <1> DEFINE c == e.call
             x == [verb |-> "delete", file |-> e.file, version |-> files[e.file]]
  <1>1. /\ Inv /\ c \in Calls /\ CallInv(c) /\ clock \in Nat
        /\ files \in [File -> Nat] /\ effects \in [Calls -> SUBSET Effect]
    BY ExchangeTypes, HubTypes DEF Faithful
  <1>2. /\ e.verb = "delete" /\ UNCHANGED clock
        /\ files' = [files EXCEPT ![e.file] = 0] /\ Reply(e, 200, 0)
        /\ effects' = [effects EXCEPT ![c] = @ \cup {x}]
    BY DEF HubDelete, Perform
  <1>3. effects'[c] = effects[c] \cup {x}
    BY <1>1, <1>2
  <1>4. PICK a : /\ net' = (net \ {e}) \cup {a}
                 /\ a.call = c /\ a.try = e.try /\ a.verb = e.verb /\ a.file = e.file
                 /\ a.match = e.match /\ a.status = 200 /\ a.value = 0
    BY <1>1, <1>2, ReplyFields
  <1>5. Sent(c)' /\ Single(c)'
    BY <1>3, <1>4, ReplySent
  <1>6. x.verb = "delete" /\ x.file = e.file /\ e.call = c
    OBVIOUS
  <1> HIDE DEF c, x
  <1>7. /\ Did(c, "delete", e.file.part)'
        /\ \A verb, part : Did(c, verb, part) => Did(c, verb, part)'
        /\ \A part : Did(c, "post", part)' => Did(c, "post", part)
    BY <1>3, <1>6 DEF Did
  <1>8. /\ Kind(c) = "delete" /\ About(c, e) /\ IsAt(c, {"wait"})
    BY <1>1, <1>2, <1>6 DEF CallInv, Sent
  <1>9. Truthful(c)'
    BY <1>1, <1>2, <1>3, <1>4, <1>7 DEF CallInv, Truthful
  <1>10. Gathered(c)' /\ OneUpload(c)' /\ Done(c)'
    BY <1>1, <1>8 DEF CallInv, Gathered, OneUpload, Done, IsAt, Kind
  <1>11. Asked(c)'
    BY <1>1, <1>3, <1>6, <1>8 DEF CallInv, Asked, IsAt, Kind, About
  <1>12. Spent(c)'
    <2>1. ~Did(c, "post", "content")'
      BY <1>1, <1>7, <1>8 DEF CallInv, Asked, Kind, Did
    <2>2. \A d \in net' : d.call = c => d.verb # "post"
      BY <1>1, <1>2, <1>4, <1>8 DEF CallInv, Sent
    <2>3. QED
      BY <1>1, <2>1, <2>2 DEF CallInv, Spent
  <1>13. CallInv(c)'
    BY <1>5, <1>9, <1>10, <1>11, <1>12 DEF CallInv
  <1>14. QED
    BY <1>13 DEF c

\* The hub and the network.
LEMMA HubInv ==
    ASSUME Faithful, Inv', NEW e \in net, Hub(e)
    PROVE  Faithful'
  <1>1. UNCHANGED <<op, seen>>
    BY DEF Hub
  <1>2. /\ Inv /\ Numbered /\ clock \in Nat /\ e.call \in Calls /\ e.file \in File
        /\ files \in [File -> Nat] /\ effects \in [Calls -> SUBSET Effect]
    BY ExchangeTypes, HubTypes DEF Faithful
  <1>3. PICK code, v : Reply(e, code, v)
    BY DEF Hub, HubServe, HubInfo, HubGet, HubPost, HubDelete, Perform, HubRefuse,
       HubFails, HubConflict, LoseRequest, LoseAnswer
  <1>4. PICK a : net' = (net \ {e}) \cup {a} /\ a.call = e.call
    BY <1>2, <1>3, ReplyFields
  <1>5. CASE HubPost(e) /\ ~Answered(e)
    <2>1. /\ clock' = clock + 1 /\ files' = [files EXCEPT ![e.file] = clock + 1]
          /\ \A d \in Calls \ {e.call} : effects'[d] = effects[d]
      BY <1>2, <1>5 DEF HubPost, Perform
    <2>2. /\ clock' \in Nat /\ clock <= clock'
          /\ \A f \in File : files'[f] = IF f = e.file THEN clock + 1 ELSE files[f]
      BY <1>2, <2>1
    <2>3. ASSUME NEW d \in Calls \ {e.call} PROVE CallInv(d)'
      BY <1>1, <1>4, <2>1, <2>2, OthersKeep
    <2>4. CallInv(e.call)'
      BY <1>1, <1>5, HubPostInv
    <2>5. Numbered'
      BY <1>1, <1>2, <2>1, <2>2, HubTypes DEF Numbered
    <2>6. QED
      BY <2>3, <2>4, <2>5 DEF Faithful
  <1>6. CASE HubDelete(e) /\ ~Answered(e)
    <2>1. /\ UNCHANGED clock /\ files' = [files EXCEPT ![e.file] = 0]
          /\ \A d \in Calls \ {e.call} : effects'[d] = effects[d]
      BY <1>2, <1>6 DEF HubDelete, Perform
    <2>2. /\ clock' \in Nat /\ clock <= clock'
          /\ \A f \in File : files'[f] = IF f = e.file THEN 0 ELSE files[f]
      BY <1>2, <2>1
    <2>3. ASSUME NEW d \in Calls \ {e.call} PROVE CallInv(d)'
      BY <1>1, <1>4, <2>1, <2>2, OthersKeep
    <2>4. CallInv(e.call)'
      BY <1>1, <1>6, HubDeleteInv
    <2>5. Numbered'
      BY <1>1, <1>2, <2>1, <2>2 DEF Numbered
    <2>6. QED
      BY <2>3, <2>4, <2>5 DEF Faithful
  <1>7. CASE ~((HubPost(e) \/ HubDelete(e)) /\ ~Answered(e))
    <2>1. UNCHANGED <<files, clock, effects>>
      BY <1>7 DEF Hub, HubServe, HubInfo, HubGet, HubRefuse, HubFails, HubConflict,
         LoseRequest, LoseAnswer, Fault
    <2>2. ASSUME NEW k, NEW w, Reply(e, k, w),
                 k = 200 => e.verb \in {"info", "get"} /\ (e.verb = "get" => w \in 1..clock),
                 k \in {Lost, 200} \/ ~Answered(e)
          PROVE  CallInv(e.call)'
      BY <1>1, <2>1, <2>2, UnperformedInv
    <2>3. files[e.file] \in 0..clock
      BY <1>2 DEF Numbered
    <2>4. CallInv(e.call)'
      <3>1. CASE HubInfo(e)
        BY <2>2, <3>1 DEF HubInfo
      <3>2. CASE HubGet(e) /\ files[e.file] # 0
        <4>1. Reply(e, 200, files[e.file]) /\ e.verb = "get" /\ files[e.file] \in 1..clock
          BY <1>2, <2>3, <3>2 DEF HubGet
        <4>2. QED
          BY <2>2, <4>1
      <3>3. CASE HubGet(e) /\ ~Answered(e) /\ files[e.file] = 0
        BY <2>2, <3>3 DEF HubGet
      <3>4. CASE HubRefuse(e) /\ ~Answered(e)
        BY <2>2, <3>4 DEF HubRefuse, Refusal
      <3>5. CASE HubFails(e) \/ HubConflict(e) \/ LoseRequest(e) \/ LoseAnswer(e)
        BY <2>2, <3>5 DEF HubFails, HubConflict, LoseRequest, LoseAnswer, Lost
      <3>6. QED
        BY <1>7, <3>1, <3>2, <3>3, <3>4, <3>5 DEF Hub, HubServe
    <2>5. ASSUME NEW d \in Calls \ {e.call} PROVE CallInv(d)'
      <3>1. \A x \in net' : x.call = d => x \in net
        BY <1>4
      <3>2. clock' \in Nat /\ clock <= clock' /\ \A f \in File : files'[f] \in {0, files[f], clock + 1}
        BY <1>2, <2>1
      <3>3. QED
        BY <1>1, <2>1, <3>1, <3>2, OthersKeep
    <2>6. QED
      BY <1>1, <1>2, <2>1, <2>4, <2>5 DEF Faithful, Numbered
  <1>8. QED
    BY <1>5, <1>6, <1>7

\* At the start there are no files, no exchanges and no effects.
LEMMA InitFaithful == Init => Faithful
  <1> SUFFICES ASSUME Init PROVE Faithful
    OBVIOUS
  <1>1. /\ Inv /\ net = {} /\ clock = 0 /\ \A c \in Calls : effects[c] = {}
        /\ files = [f \in File |-> 0] /\ seen = [s \in Sessions |-> {}]
    BY InitInv DEF Init, HubInit
  <1>2. ASSUME NEW c \in Calls
        PROVE  op[c].phase = "idle" /\ op[c].opt.kind = "get" /\ op[c].got = {} /\ op[c].etag = 0
    BY DEF Init, NewOperation, NoOption
  <1>3. Numbered
    BY <1>1 DEF Numbered
  <1>4. ASSUME NEW c \in Calls PROVE CallInv(c)
    <2>1. Sent(c) /\ Single(c) /\ Truthful(c)
      BY <1>1 DEF Sent, Single, Truthful
    <2>2. Gathered(c) /\ Asked(c) /\ OneUpload(c) /\ Done(c)
      BY <1>1, <1>2 DEF Gathered, Asked, OneUpload, Done, IsAt, Kind
    <2>3. Spent(c)
      BY <1>1, <1>2 DEF Spent, IsAt
    <2>4. QED
      BY <2>1, <2>2, <2>3 DEF CallInv
  <1>5. QED
    BY <1>1, <1>3, <1>4 DEF Faithful

\* The invariant is inductive.
LEMMA NextFaithful == Faithful /\ [Next]_vars => Faithful'
  <1> SUFFICES ASSUME Faithful, [Next]_vars PROVE Faithful'
    OBVIOUS
  <1>1. Inv'
    BY NextInv DEF Faithful
  <1>2. ASSUME NEW c \in Calls, Invoke(c) \/ Continue(c) PROVE Faithful'
    BY <1>1, <1>2, InvokeInv, ContinueInv
  <1>3. ASSUME NEW e \in net, Hub(e) PROVE Faithful'
    BY <1>1, <1>3, HubInv
  <1>4. CASE \/ \E e \in net : DropAnswer(e)
             \/ \E u \in Users : Expire(u)
             \/ \E s \in Sessions : SignOut(s) \/ \E u \in Accounts[s] : SignIn(s, u)
             \/ UNCHANGED vars
    <2>1. UNCHANGED <<files, clock, effects, op, seen>> /\ net' \subseteq net
      BY <1>4 DEF DropAnswer, Expire, ExpireTokens, SignOut, SignIn, vars, hubState
    <2>2. ASSUME NEW c \in Calls PROVE CallInv(c)'
      <3>1. clock' \in Nat /\ clock <= clock' /\ \A f \in File : files'[f] \in {0, files[f], clock + 1}
        BY <2>1, HubTypes DEF Faithful
      <3>2. QED
        BY <2>1, <3>1, OthersKeep
    <2>3. QED
      BY <1>1, <2>1, <2>2 DEF Faithful, Numbered
  <1>5. QED
    BY <1>2, <1>3, <1>4 DEF Next

\* What a call is told, gathers and settles with is what happened at the hub.
THEOREM AnswersAreTrue == Spec => []Faithful
  BY InitFaithful, NextFaithful, PTL DEF Spec

----------------------------------------------------------------------------
(* What follows for the outcomes. *)

\* deleteFile resolves only when everything it was asked to remove has been
\* removed for it.
THEOREM DeletesAreDone == Spec => []DeleteOutcome
  <1>1. Faithful => DeleteOutcome
    BY DEF Faithful, CallInv, Done, DeleteOutcome, IsAt, Kind, AllParts, Parts
  <1>2. QED
    BY <1>1, AnswersAreTrue, PTL

\* putFile resolves only when its uploads were stored, and an error it reports
\* of a single upload means that nothing was.
THEOREM PutsAreDone == Spec => []PutOutcome
  <1>1. Faithful => PutOutcome
    BY DEF Faithful, CallInv, Done, OneUpload, PutOutcome, IsAt, Kind, Plain
  <1>2. QED
    BY <1>1, AnswersAreTrue, PTL

\* Only the hub acts for a call, on one of its requests.
LEMMA OnlyTheHubActs ==
    ASSUME Faithful, [Next]_vars, NEW c \in Calls, NEW x \in effects'[c] \ effects[c]
    PROVE  \E e \in net :
               /\ e.call = c /\ ~Answered(e) /\ UNCHANGED op
               /\ HubPost(e) \/ HubDelete(e)
               /\ x.verb = e.verb /\ x.file = e.file
  <1>1. effects \in [Calls -> SUBSET Effect]
    BY HubTypes DEF Faithful
  <1>2. PICK e \in net : Hub(e)
    <2>1. ASSUME NEW d \in Calls, Invoke(d) PROVE FALSE
      <3>1. effects' = [effects EXCEPT ![d] = {}]
        BY <2>1 DEF Invoke, PutFile, GetFile, GetForeignFile, DeleteFile, Start
      <3>2. QED
        BY <1>1, <3>1
    <2>2. ASSUME NEW d \in Calls, Continue(d) PROVE UNCHANGED effects
      BY <2>2 DEF Continue, PutOversized, PutBegin, PutEncode, GetBegin, DeleteBegin,
         Connected, PutAnswered, GetAnswered, DeleteAnswered, hubState
    <2>3. CASE \/ \E e \in net : DropAnswer(e)
               \/ \E u \in Users : Expire(u)
               \/ \E s \in Sessions : SignOut(s) \/ \E u \in Accounts[s] : SignIn(s, u)
               \/ UNCHANGED vars
      BY <2>3 DEF DropAnswer, Expire, ExpireTokens, SignOut, SignIn, vars, hubState
    <2>4. QED
      BY <2>1, <2>2, <2>3 DEF Next
  <1>3. (HubPost(e) \/ HubDelete(e)) /\ ~Answered(e)
    BY <1>2 DEF Hub, HubServe, HubInfo, HubGet, HubRefuse, HubFails, HubConflict,
       LoseRequest, LoseAnswer, Fault
  <1>4. PICK v : effects' = [effects EXCEPT ![e.call] = @ \cup
                    {[verb |-> e.verb, file |-> e.file, version |-> v]}]
    BY <1>3 DEF HubPost, HubDelete, Perform
  <1>5. e.call = c /\ x.verb = e.verb /\ x.file = e.file
    BY <1>1, <1>4
  <1>6. QED
    BY <1>2, <1>3, <1>5 DEF Hub

\* An upload whose file the same call has stored before is that of a signed
\* put; its content is stored again if etags are ignored or the file is gone.
LEMMA StoredTwice ==
    ASSUME Faithful, NEW e \in net, HubPost(e), ~Answered(e),
           Did(e.call, "post", e.file.part)
    PROVE  /\ op[e.call].opt.mode = "signed"
           /\ e.file.part = "content" => op[e.call].opt.ignore \/ files[e.file] = 0
  <1> DEFINE c == e.call
  <1>1. Inv /\ c \in Calls /\ CallInv(c) /\ e.file \in File
    BY ExchangeTypes DEF Faithful
  <1>2. e.verb = "post" /\ Satisfied(e) /\ e.status = Pending
    BY DEF HubPost, Answered
  <1>3. ~Plain(c)
    <2>1. effects[c] # {}
      BY DEF Did
    <2>2. Kind(c) = "put"
      BY <1>1, <1>2 DEF CallInv, Sent
    <2>3. QED
      BY <1>1, <1>2, <2>1, <2>2 DEF CallInv, OneUpload, Pending, Lost
  <1>4. CASE e.match = 0
    BY <1>1, <1>2, <1>3, <1>4 DEF Inv, Guarded, Satisfied, Plain
  <1>5. CASE e.match # 0
    BY <1>1, <1>2, <1>3, <1>5 DEF CallInv, Spent, Satisfied, Plain
  <1>6. QED
    BY <1>4, <1>5

\* A put stores its content twice only as a signed put that ignores etags or
\* finds no file.
THEOREM PutsWriteOnce == Spec => PutWritesOnce
  <1>1. ASSUME Faithful, [Next]_vars, NEW c \in Calls, NEW x \in effects'[c] \ effects[c],
               x.verb = "post", x.file.part = "content", Did(c, "post", "content")
        PROVE  /\ op[c].opt.mode = "signed"
               /\ op[c].opt.ignore \/ files[x.file] = 0
    <2>1. PICK e \in net : /\ e.call = c /\ ~Answered(e)
                           /\ HubPost(e) \/ HubDelete(e)
                           /\ x.verb = e.verb /\ x.file = e.file
      BY <1>1, OnlyTheHubActs
    <2>2. HubPost(e)
      BY <1>1, <2>1 DEF HubDelete
    <2>3. QED
      BY <1>1, <2>1, <2>2, StoredTwice
  <1>2. Faithful /\ [Next]_vars =>
            [\A c \in Calls : \A x \in effects'[c] \ effects[c] :
                x.verb = "post" /\ x.file.part = "content" /\ Did(c, "post", "content") =>
                    /\ op[c].opt.mode = "signed"
                    /\ op[c].opt.ignore \/ files[x.file] = 0]_vars
    BY <1>1
  <1>3. QED
    BY <1>2, AnswersAreTrue, PTL DEF Spec, PutWritesOnce

\* A call that waits for its answers resolves by one of them.
LEMMA ResolvedByAnswer ==
    ASSUME Faithful, [Next]_vars, NEW c \in Calls,
           op[c].opt.kind = "put", op[c].phase = "wait", op'[c].phase = "resolved"
    PROVE  \E e \in net : PutAnswered(c, e) /\ PutResolves(c, e)
  <1>1. op \in [Calls -> Operation] /\ op[c] \in Operation /\ Inv
    BY HubTypes DEF Faithful
  <1>2. Continue(c)
    <2>1. ASSUME NEW d \in Calls, Invoke(d) PROVE FALSE
      <3>1. PICK o, n : op' = [op EXCEPT ![d] = n] /\ op[d].phase \in Settled
        BY <2>1 DEF Invoke, PutFile, GetFile, GetForeignFile, DeleteFile, Start, Idle,
           GetOrSetConnection
      <3>2. d # c
        BY <3>1 DEF Settled
      <3>3. QED
        BY <1>1, <3>1, <3>2
    <2>2. ASSUME NEW d \in Calls, Continue(d) PROVE d = c
      BY <1>1, <2>2, ContinueFrame
    <2>3. CASE \/ \E e \in net : Hub(e) \/ DropAnswer(e)
               \/ \E u \in Users : Expire(u)
               \/ \E s \in Sessions : SignOut(s) \/ \E u \in Accounts[s] : SignIn(s, u)
               \/ UNCHANGED vars
      BY <2>3 DEF Hub, DropAnswer, Expire, SignOut, SignIn, vars
    <2>4. QED
      BY <2>1, <2>2, <2>3 DEF Next
  <1>3. PICK e \in net : PutAnswered(c, e)
    BY <1>2 DEF Continue, PutOversized, PutBegin, PutEncode, GetBegin, DeleteBegin,
       Connected, GetAnswered, DeleteAnswered
  <1>4. ~PutPartDone(c, e)
    BY <1>1 DEF PutPartDone, Operation
  <1>5. ~PutFails(c, e)
    <2>1. ASSUME NEW code, Reject(c, code) PROVE FALSE
      BY <1>1, <2>1, SettledFields DEF Reject
    <2>2. ASSUME Reconnect(c, e) PROVE FALSE
      BY <1>1, <2>1, <2>2 DEF Reconnect, Operation
    <2>3. QED
      BY <2>1, <2>2 DEF PutFails
  <1>6. QED
    BY <1>3, <1>4, <1>5 DEF PutAnswered

\* What localStorage keeps as the etag of the path is a version the call wrote.
THEOREM PutsRememberTheirVersion == Spec => PutRemembersItsVersion
  <1>1. ASSUME Faithful, [Next]_vars, NEW c \in Calls,
               op[c].opt.kind = "put", op[c].phase = "wait", op'[c].phase = "resolved",
               ~(op[c].opt.mode = "signed" /\ op[c].opt.ignore)
        PROVE  Wrote(c, [user |-> op[c].cfg.user, path |-> Path(c), part |-> "content"],
                     store'[SessionOf[c]].etags[Path(c)])
    <2> DEFINE f == [user |-> op[c].cfg.user, path |-> Path(c), part |-> "content"]
    <2>1. PICK e \in net : PutAnswered(c, e) /\ PutResolves(c, e)
      BY <1>1, ResolvedByAnswer
    <2>2. /\ Inv /\ CallInv(c) /\ op[c] \in Operation /\ op[c].snap \in SessionData
          /\ Path(c) \in Paths /\ SessionOf[c] \in Sessions
          /\ store \in [Sessions -> SessionData]
      BY <1>1, CallTypes DEF Faithful, Inv, TypeInv, TypeOK, Operation
    <2>3. /\ e.status = 200 /\ Awaited(c, e) /\ UNCHANGED effects
          /\ op[c].got \cup {e.file.part} = AllParts(op[c].opt)
          /\ store' = [store EXCEPT ![SessionOf[c]] =
                          [op[c].snap EXCEPT !.etags[Path(c)] = WriteEtag(c, e)]]
      BY <1>1, <2>1 DEF PutAnswered, PutResolves, WriteBack, hubState
    <2>4. store'[SessionOf[c]].etags[Path(c)] = WriteEtag(c, e)
      BY <2>2, <2>3 DEF SessionData
    <2>5. /\ e.verb = "post" /\ e.call = c /\ e.try = op[c].try /\ e.file \in File
          /\ IsAt(c, {"wait"}) /\ Kind(c) = "put"
      BY <1>1, <2>2, <2>3, AwaitedVerb, ExchangeTypes DEF IsAt, Kind, Awaited
    <2>6. CASE e.file.part = "content"
      <3>1. e.file = f
        BY <2>2, <2>5, <2>6 DEF CallInv, Sent, About, IsAt, File
      <3>2. [verb |-> "post", file |-> f, version |-> e.value] \in effects[c]
        BY <2>2, <2>3, <2>5, <3>1 DEF CallInv, Truthful
      <3>3. QED
        BY <2>3, <2>4, <2>6, <3>2 DEF Wrote, WriteEtag
    <2>7. CASE e.file.part # "content"
      <3>1. "content" \in op[c].got
        BY <2>3, <2>7 DEF AllParts, Parts
      <3>2. [verb |-> "post", file |-> f, version |-> op[c].written] \in effects[c]
        BY <2>2, <2>5, <3>1 DEF CallInv, Gathered
      <3>3. QED
        BY <2>3, <2>4, <2>7, <3>2 DEF Wrote, WriteEtag
    <2>8. QED
      BY <2>6, <2>7
  <1>2. Faithful /\ [Next]_vars =>
            [\A c \in Calls :
                op[c].opt.kind = "put" /\ op[c].phase = "wait" /\ op'[c].phase = "resolved" =>
                    \/ op[c].opt.mode = "signed" /\ op[c].opt.ignore
                    \/ Wrote(c, [user |-> op[c].cfg.user, path |-> Path(c), part |-> "content"],
                             store'[SessionOf[c]].etags[Path(c)])]_vars
    BY <1>1
  <1>3. QED
    BY <1>2, AnswersAreTrue, PTL DEF Spec, PutRemembersItsVersion

----------------------------------------------------------------------------
(* The refinement: every step of the client is a step of ConditionalFiles   *)
(* or leaves its variables alone.                                           *)

\* The mapping sees of a call its operation, its state and its effects.
LEMMA Unseen ==
    ASSUME UNCHANGED <<files, clock, seen, effects>>,
           \A c \in Calls : op'[c].opt = op[c].opt /\ StateOf(op'[c].phase) = StateOf(op[c].phase)
    PROVE  UNCHANGED Promise!promise
  <1>1. [c \in Calls |-> RequestOf(op'[c].opt)] = [c \in Calls |-> RequestOf(op[c].opt)]
    OBVIOUS
  <1>2. [c \in Calls |-> StateOf(op'[c].phase)] = [c \in Calls |-> StateOf(op[c].phase)]
    OBVIOUS
  <1>3. QED
    BY <1>1, <1>2 DEF Promise!promise

\* The request of an operation is one.
LEMMA RequestType ==
    ASSUME NEW o \in Option
    PROVE  RequestOf(o) \in Promise!Request
  BY DEF RequestOf, Promise!Request, Promise!Verbs, Option, Parts

\* How a request reads.
LEMMA RequestFields ==
    ASSUME NEW o \in Option
    PROVE  /\ RequestOf(o).verb = o.kind /\ RequestOf(o).path = o.path
           /\ o.kind # "get" => RequestOf(o).parts = AllParts(o)
           /\ RequestOf(o).force = o.ignore
  BY DEF RequestOf, AllParts

\* Starting an operation is asking.
LEMMA InvokeAsks ==
    ASSUME Faithful, NEW c \in Calls, Invoke(c)
    PROVE  Promise!Ask(c)
  <1>1. PICK o \in Offered :
            PutFile(c, o) \/ GetFile(c, o) \/ GetForeignFile(c, o) \/ DeleteFile(c, o)
    BY DEF Invoke
  <1>2. /\ op[c].phase \in Settled /\ effects' = [effects EXCEPT ![c] = {}]
        /\ UNCHANGED <<files, clock, seen>>
    BY <1>1 DEF PutFile, GetFile, GetForeignFile, DeleteFile, Start, Idle
  <1>3. PICK ph, cfg :
            /\ ph \in {"rejected", "begin", "connect", "wait"}
            /\ op' = [op EXCEPT ![c] = NewOperation(o, ph, cfg)]
    BY <1>1 DEF PutFile, GetFile, GetForeignFile, DeleteFile, GetOrSetConnection
  <1>4. op \in [Calls -> Operation] /\ effects \in [Calls -> SUBSET Effect] /\ o \in Option
    BY HubTypes, StorageAssumption DEF Faithful
  <1>5. /\ op'[c].opt = o /\ op'[c].phase = ph
        /\ \A d \in Calls \ {c} : op'[d] = op[d] /\ effects'[d] = effects[d]
        /\ effects'[c] = {}
    BY <1>2, <1>3, <1>4 DEF NewOperation
  <1>6. StateOf(op[c].phase) # "open"
    BY <1>2 DEF StateOf, Settled
  <1>7. StateOf(ph) \in {"open", "rejected"}
    BY <1>3 DEF StateOf, Settled
  <1>8. [d \in Calls |-> RequestOf(op'[d].opt)]
            = [[d \in Calls |-> RequestOf(op[d].opt)] EXCEPT ![c] = RequestOf(o)]
    BY <1>5
  <1>9. [d \in Calls |-> StateOf(op'[d].phase)]
            = [[d \in Calls |-> StateOf(op[d].phase)] EXCEPT ![c] = StateOf(ph)]
    BY <1>5
  <1>10. [d \in Calls |-> {x.file.part : x \in effects'[d]}]
            = [[d \in Calls |-> {x.file.part : x \in effects[d]}] EXCEPT ![c] = {}]
    BY <1>5
  <1>11. RequestOf(o) \in Promise!Request
    BY <1>4, RequestType
  <1>12. QED
    BY <1>2, <1>6, <1>7, <1>8, <1>9, <1>10, <1>11 DEF Promise!Ask

\* A call that settles changes nothing else the mapping sees of it.
LEMMA SettlingSeen ==
    ASSUME Faithful, NEW c \in Calls, NEW o \in {"resolved", "rejected"}, NEW code,
           Settle(c, o, code), UNCHANGED effects
    PROVE  /\ [d \in Calls |-> RequestOf(op'[d].opt)] = [d \in Calls |-> RequestOf(op[d].opt)]
           /\ [d \in Calls |-> StateOf(op'[d].phase)]
                = [[d \in Calls |-> StateOf(op[d].phase)] EXCEPT ![c] = o]
           /\ [d \in Calls |-> {x.file.part : x \in effects'[d]}]
                = [d \in Calls |-> {x.file.part : x \in effects[d]}]
  <1>1. op \in [Calls -> Operation] /\ Inv
    BY HubTypes DEF Faithful
  <1>2. op'[c].opt = op[c].opt /\ op'[c].phase = o
    BY <1>1, SettledFields
  <1>3. \A d \in Calls \ {c} : op'[d] = op[d]
    BY <1>1 DEF Settle
  <1>4. StateOf(o) = o
    BY DEF StateOf, Settled
  <1>5. [d \in Calls |-> RequestOf(op'[d].opt)] = [d \in Calls |-> RequestOf(op[d].opt)]
    BY <1>2, <1>3
  <1>6. [d \in Calls |-> StateOf(op'[d].phase)]
                = [[d \in Calls |-> StateOf(op[d].phase)] EXCEPT ![c] = o]
    BY <1>2, <1>3, <1>4
  <1>7. QED
    BY <1>5, <1>6

\* Rejecting is rejecting.
LEMMA Rejects ==
    ASSUME Faithful, NEW c \in Calls, NEW code, Reject(c, code), op[c].phase \notin Settled,
           UNCHANGED <<files, clock, seen, effects>>
    PROVE  Promise!Reject(c)
  <1>1. StateOf(op[c].phase) = "open"
    BY DEF StateOf
  <1>2. Settle(c, "rejected", code)
    BY DEF Reject
  <1>3. QED
    BY <1>1, <1>2, SettlingSeen DEF Promise!Reject

\* What a resolved call did is what it was asked to do.
LEMMA Resolves ==
    ASSUME Faithful, NEW c \in Calls, CallInv(c)', NEW code, Settle(c, "resolved", code),
           op[c].phase \notin Settled, UNCHANGED <<files, clock, effects>>,
           IF Kind(c) = "delete" THEN UNCHANGED seen
           ELSE \E v \in 1..clock : Learn(c, v)
    PROVE  Promise!Resolve(c)
  <1>1. /\ Inv /\ CallInv(c) /\ op[c].opt \in Option /\ op'[c].opt = op[c].opt
        /\ op'[c].phase = "resolved"
    BY CallTypes, SettledFields DEF Faithful, Inv
  <1>2. Kind(c) # "get" => {x.file.part : x \in effects[c]} = AllParts(op[c].opt)
    <2>1. \A x \in effects[c] : x.file.part \in AllParts(op[c].opt)
      BY <1>1 DEF CallInv, Asked
    <2>2. Kind(c) # "get" =>
              \A part \in AllParts(op[c].opt) : \E x \in effects[c] : x.file.part = part
      BY <1>1 DEF CallInv, Done, IsAt, Kind, Did
    <2>3. QED
      BY <2>1, <2>2
  <1>3. StateOf(op[c].phase) = "open"
    BY DEF StateOf
  <1>4. /\ RequestOf(op[c].opt).verb = Kind(c)
        /\ Kind(c) # "get" => RequestOf(op[c].opt).parts = AllParts(op[c].opt)
    BY <1>1, RequestFields DEF Kind
  <1>5. QED
    BY <1>2, <1>3, <1>4, SettlingSeen DEF Promise!Resolve, Promise!Tell, Learn

\* A continuation makes progress, settles its call, or is not seen.
LEMMA ContinueRefines ==
    ASSUME Faithful, Inv', NEW c \in Calls, Continue(c)
    PROVE  \/ Promise!Progress(c) \/ Promise!Resolve(c) \/ Promise!Reject(c)
           \/ UNCHANGED Promise!promise
  <1>1. /\ Inv /\ op \in [Calls -> Operation] /\ op[c] \in Operation /\ clock \in Nat
        /\ CallInv(c)' /\ CallInv(c)
    BY ContinueInv, HubTypes DEF Faithful
  <1>2. UNCHANGED <<files, clock, effects>>
    BY DEF Continue, PutOversized, PutBegin, PutEncode, GetBegin, DeleteBegin,
       Connected, PutAnswered, GetAnswered, DeleteAnswered, hubState
  <1>3. op[c].phase \notin Settled
    BY DEF Continue, PutOversized, PutBegin, PutEncode, GetBegin, DeleteBegin,
       Connected, PutAnswered, GetAnswered, DeleteAnswered, Settled
  <1>4. ASSUME UNCHANGED seen, op'[c].phase \notin Settled PROVE UNCHANGED Promise!promise
    BY <1>1, <1>2, <1>3, <1>4, ContinueFrame, Unseen DEF StateOf
  <1>5. ASSUME UNCHANGED seen, NEW code, Reject(c, code) PROVE Promise!Reject(c)
    BY <1>2, <1>3, <1>5, Rejects
  <1>6. ASSUME UNCHANGED seen, NEW e \in net, Reconnect(c, e)
        PROVE  Promise!Reject(c) \/ UNCHANGED Promise!promise
    <2>1. CASE SignedIn(c)
      <3>1. op'[c].phase = "connect"
        BY <1>1, <1>6, <2>1 DEF Reconnect, Operation
      <3>2. QED
        BY <1>4, <1>6, <3>1 DEF Settled
    <2>2. CASE ~SignedIn(c)
      BY <1>5, <1>6, <2>2 DEF Reconnect
    <2>3. QED
      BY <2>1, <2>2
  <1>7. CASE PutOversized(c) \/ PutBegin(c) \/ PutEncode(c)
    <2>1. UNCHANGED seen
      BY <1>7 DEF PutOversized, PutBegin, PutEncode
    <2>2. CASE Reject(c, Pending)
      BY <1>5, <2>1, <2>2
    <2>3. CASE ~Reject(c, Pending)
      <3>1. op'[c].phase \in {"wait", "encode"}
        BY <1>1, <1>7, <2>3 DEF PutOversized, PutBegin, PutEncode, Operation
      <3>2. QED
        BY <1>4, <2>1, <3>1 DEF Settled
    <2>4. QED
      BY <2>2, <2>3
  <1>8. CASE GetBegin(c) \/ DeleteBegin(c)
    <2>1. UNCHANGED seen /\ op'[c].phase = "wait"
      BY <1>1, <1>8 DEF GetBegin, DeleteBegin, Operation
    <2>2. QED
      BY <1>4, <2>1 DEF Settled
  <1>9. ASSUME NEW e \in net, Connected(c, e)
        PROVE  Promise!Reject(c) \/ UNCHANGED Promise!promise
    <2>1. UNCHANGED seen
      BY <1>9 DEF Connected
    <2>2. CASE Connect(c, e)
      <3>1. op'[c].phase \in {"begin", "wait"}
        BY <1>1, <2>2 DEF Connect, Operation
      <3>2. QED
        BY <1>4, <2>1, <3>1 DEF Settled
    <2>3. CASE ~Connect(c, e)
      BY <1>5, <1>9, <2>1, <2>3 DEF Connected, ConnectFails, ConnectAfterSignOut
    <2>4. QED
      BY <2>2, <2>3
  <1>10. ASSUME NEW e \in net, Awaited(c, e), op[c].phase = "wait", e.status = 200,
                op[c].opt.kind \in {"put", "get"}
         PROVE  e.value \in 1..clock
    <2>1. e.verb \in {"post", "get"}
      BY <1>10, AwaitedVerb DEF IsAt, Kind
    <2>2. QED
      BY <1>1, <1>10, <2>1 DEF CallInv, Truthful, Awaited
  <1>11. ASSUME NEW e \in net, PutAnswered(c, e)
         PROVE  \/ Promise!Progress(c) \/ Promise!Resolve(c) \/ Promise!Reject(c)
                \/ UNCHANGED Promise!promise
    <2>1. /\ Awaited(c, e) /\ op[c].phase = "wait" /\ op[c].opt.kind = "put"
          /\ e.file.part \in Parts /\ op[c].got \subseteq Parts
      BY <1>1, <1>11, ExchangeTypes DEF PutAnswered, Operation
    <2>2. op[c].written \in 0..clock
      BY <1>1, EtagsIssued
    <2>3. CASE PutPartDone(c, e)
      <3>1. e.value \in 1..clock
        BY <1>10, <2>1, <2>3 DEF PutPartDone
      <3>2. WriteEtag(c, e) \in 0..clock
        BY <1>1, <2>2, <3>1 DEF WriteEtag
      <3>3. op'[c].phase = op[c].phase /\ Learn(c, WriteEtag(c, e))
        BY <1>1, <2>3 DEF PutPartDone, Operation
      <3>4. /\ [d \in Calls |-> RequestOf(op'[d].opt)] = [d \in Calls |-> RequestOf(op[d].opt)]
            /\ [d \in Calls |-> StateOf(op'[d].phase)] = [d \in Calls |-> StateOf(op[d].phase)]
            /\ StateOf(op[c].phase) = "open"
        BY <1>3, <3>3, ContinueFrame DEF Faithful, StateOf
      <3>5. Promise!Progress(c)
        BY <1>2, <3>2, <3>3, <3>4 DEF Promise!Progress, Promise!Tell, Learn
      <3>6. QED
        BY <3>5
    <2>4. CASE PutResolves(c, e)
      <3>1. e.value \in 1..clock /\ op[c].got \cup {e.file.part} = AllParts(op[c].opt)
        BY <1>10, <2>1, <2>4 DEF PutResolves
      <3>2. WriteEtag(c, e) \in 1..clock
        <4>1. CASE e.file.part = "content"
          BY <3>1, <4>1 DEF WriteEtag
        <4>2. CASE e.file.part # "content"
          <5>1. "content" \in op[c].got
            BY <3>1, <4>2 DEF AllParts, Parts
          <5>2. QED
            BY <1>1, <2>1, <4>2, <5>1 DEF WriteEtag, CallInv, Gathered, Kind
        <4>3. QED
          BY <4>1, <4>2
      <3>3. Settle(c, "resolved", 200) /\ Learn(c, WriteEtag(c, e)) /\ Kind(c) # "delete"
        BY <2>1, <2>4 DEF PutResolves, Kind
      <3>4. QED
        BY <1>1, <1>2, <1>3, <3>2, <3>3, Resolves
    <2>5. CASE PutFails(c, e)
      BY <1>5, <1>6, <2>5 DEF PutFails
    <2>6. QED
      BY <1>11, <2>3, <2>4, <2>5 DEF PutAnswered
  <1>12. ASSUME NEW e \in net, GetAnswered(c, e)
         PROVE  Promise!Resolve(c) \/ Promise!Reject(c)
    <2>1. CASE e.status = 200
      <3>1. e.value \in 1..clock
        BY <1>10, <1>12, <2>1 DEF GetAnswered
      <3>2. Settle(c, "resolved", 200) /\ Learn(c, e.value) /\ Kind(c) # "delete"
        BY <1>12, <2>1 DEF GetAnswered, Kind
      <3>3. QED
        BY <1>1, <1>2, <1>3, <3>1, <3>2, Resolves
    <2>2. CASE e.status # 200
      BY <1>5, <1>12, <2>2 DEF GetAnswered
    <2>3. QED
      BY <2>1, <2>2
  <1>13. ASSUME NEW e \in net, DeleteAnswered(c, e)
         PROVE  Promise!Resolve(c) \/ Promise!Reject(c) \/ UNCHANGED Promise!promise
    <2>1. UNCHANGED seen /\ Kind(c) = "delete" /\ op[c].phase = "wait"
      BY <1>13 DEF DeleteAnswered, Kind
    <2>2. CASE DeletePartDone(c, e)
      <3>1. op'[c].phase = "wait"
        BY <1>1, <2>1, <2>2 DEF DeletePartDone, Operation
      <3>2. QED
        BY <1>4, <2>1, <3>1 DEF Settled
    <2>3. CASE DeleteResolves(c, e)
      BY <1>1, <1>2, <1>3, <2>1, <2>3, Resolves DEF DeleteResolves
    <2>4. CASE DeleteFails(c, e)
      BY <1>5, <1>6, <2>1, <2>4 DEF DeleteFails
    <2>5. QED
      BY <1>13, <2>2, <2>3, <2>4 DEF DeleteAnswered
  <1>14. QED
    BY <1>7, <1>8, <1>9, <1>11, <1>12, <1>13 DEF Continue

\* What the hub stores or removes for a call is what it was asked to.
LEMMA HubRefines ==
    ASSUME Faithful, NEW e \in net, Hub(e)
    PROVE  \/ Promise!Store(e.call, e.file) \/ Promise!Remove(e.call, e.file)
           \/ UNCHANGED Promise!promise
  <1> DEFINE c == e.call
             f == e.file
  <1>1. /\ Inv /\ c \in Calls /\ f \in File /\ f.part \in Parts /\ CallInv(c)
        /\ files \in [File -> Nat] /\ effects \in [Calls -> SUBSET Effect] /\ clock \in Nat
        /\ op[c].opt \in Option
    BY ExchangeTypes, HubTypes, CallTypes DEF Faithful, Inv
  <1>2. UNCHANGED <<op, seen>>
    BY DEF Hub
  <1>3. ASSUME NEW v, effects' = [effects EXCEPT ![c] = @ \cup
                    {[verb |-> e.verb, file |-> e.file, version |-> v]}]
        PROVE  [d \in Calls |-> {x.file.part : x \in effects'[d]}]
                 = [[d \in Calls |-> {x.file.part : x \in effects[d]}]
                     EXCEPT ![c] = @ \cup {f.part}]
    <2> DEFINE y == [verb |-> e.verb, file |-> e.file, version |-> v]
    <2>1. effects'[c] = effects[c] \cup {y} /\ y.file.part = f.part
      BY <1>1, <1>3
    <2>2. \A d \in Calls \ {c} : effects'[d] = effects[d]
      BY <1>1, <1>3
    <2> HIDE DEF y
    <2>3. {x.file.part : x \in effects'[c]} = {x.file.part : x \in effects[c]} \cup {f.part}
      BY <2>1
    <2>4. QED
      BY <1>1, <2>2, <2>3
  <1>4. /\ RequestOf(op[c].opt).verb = Kind(c) /\ RequestOf(op[c].opt).path = Path(c)
        /\ Kind(c) # "get" => RequestOf(op[c].opt).parts = AllParts(op[c].opt)
        /\ RequestOf(op[c].opt).force = op[c].opt.ignore
    BY <1>1, RequestFields DEF Kind, Path
  <1>5. CASE HubPost(e) /\ ~Answered(e)
    <2>1. e.verb = "post" /\ Satisfied(e)
      BY <1>5 DEF HubPost
    <2>2. Kind(c) = "put" /\ About(c, e)
      BY <1>1, <2>1 DEF CallInv, Sent
    <2>3. Promise!About(c, f, "put")
      BY <1>1, <1>4, <2>2 DEF Promise!About, About
    <2>4. files[f] = 0 \/ Promise!MayReplace(c, f)
      <3>1. Guarded(e)
        BY <1>1 DEF Inv
      <3>2. QED
        BY <1>1, <1>4, <2>1, <3>1 DEF Promise!MayReplace, Guarded, Known, Satisfied, Parts
    <2>5. f.part \in {x.file.part : x \in effects[c]} =>
              /\ RequestOf(op[c].opt).parts = Parts
              /\ f.part # "content" \/ op[c].opt.ignore \/ files[f] = 0
      <3>1. ASSUME f.part \in {x.file.part : x \in effects[c]} PROVE Did(c, "post", f.part)
        <4>1. PICK x \in effects[c] : x.file.part = f.part
          BY <3>1
        <4>2. x \in Effect
          BY <1>1
        <4>3. x.verb = "post"
          BY <1>1, <2>2, <4>2 DEF CallInv, Asked, Effect
        <4>4. QED
          BY <4>1, <4>3 DEF Did
      <3>2. QED
        BY <1>4, <1>5, <2>2, <3>1, StoredTwice DEF AllParts
    <2>6. /\ clock' = clock + 1 /\ files' = [files EXCEPT ![f] = clock + 1]
          /\ effects' = [effects EXCEPT ![c] = @ \cup
                    {[verb |-> e.verb, file |-> e.file, version |-> clock + 1]}]
      <3>1. clock + 1 # 0
        BY <1>1
      <3>2. QED
        BY <1>5, <3>1 DEF HubPost, Perform
    <2>7. Promise!Store(c, f)
      BY <1>1, <1>2, <1>3, <1>4, <2>3, <2>4, <2>5, <2>6 DEF Promise!Store
    <2>8. QED
      BY <2>7
  <1>6. CASE HubDelete(e)
    <2>1. Kind(c) = "delete" /\ About(c, e) /\ IsAt(c, {"wait"})
      BY <1>1, <1>6 DEF CallInv, Sent, HubDelete
    <2>2. Promise!About(c, f, "delete")
      BY <1>1, <1>4, <2>1 DEF Promise!About, About
    <2>3. StateOf(op[c].phase) # "resolved"
      BY <2>1 DEF StateOf, IsAt, Settled
    <2>4. /\ UNCHANGED clock /\ files' = [files EXCEPT ![f] = 0] /\ files[f] # 0
          /\ effects' = [effects EXCEPT ![c] = @ \cup
                    {[verb |-> e.verb, file |-> e.file, version |-> files[f]]}]
      BY <1>6 DEF HubDelete, Perform
    <2>5. Promise!Remove(c, f)
      BY <1>1, <1>2, <1>3, <2>2, <2>3, <2>4 DEF Promise!Remove
    <2>6. QED
      BY <2>5
  <1>7. CASE ~((HubPost(e) /\ ~Answered(e)) \/ HubDelete(e))
    <2>1. UNCHANGED <<files, clock, effects>>
      BY <1>7 DEF Hub, HubServe, HubInfo, HubGet, HubRefuse, HubFails, HubConflict,
         LoseRequest, LoseAnswer, Fault
    <2>2. QED
      BY <1>2, <2>1, Unseen
  <1>8. QED
    BY <1>5, <1>6, <1>7

\* The client starts where ConditionalFiles does.
LEMMA InitRefines == Init => Promise!Init
  <1> SUFFICES ASSUME Init PROVE Promise!Init
    OBVIOUS
  <1>1. op = [c \in Calls |-> NewOperation(NoOption, "idle", NoConfig)]
    BY DEF Init
  <1>2. \A c \in Calls : op[c].opt = NoOption /\ op[c].phase = "idle"
    BY <1>1 DEF NewOperation
  <1>3. [c \in Calls |-> RequestOf(op[c].opt)] \in [Calls -> Promise!Request]
    BY <1>2, RecordTypes, RequestType
  <1>4. [c \in Calls |-> StateOf(op[c].phase)] = [c \in Calls |-> "idle"]
    BY <1>2 DEF StateOf, Settled
  <1>5. [c \in Calls |-> {x.file.part : x \in effects[c]}] = [c \in Calls |-> {}]
    BY DEF Init, HubInit
  <1>6. /\ files = [f \in Promise!File |-> 0] /\ clock = 0
        /\ seen = [s \in Sessions |-> {}]
    BY DEF Init, HubInit, File, Promise!File
  <1>7. QED
    BY <1>3, <1>4, <1>5, <1>6 DEF Promise!Init

\* Every step of the client is one of ConditionalFiles, or none.
LEMMA NextRefines == Faithful /\ Inv' /\ [Next]_vars => [Promise!Next]_(Promise!promise)
  <1> SUFFICES ASSUME Faithful, Inv', [Next]_vars
               PROVE  [Promise!Next]_(Promise!promise)
    OBVIOUS
  <1>1. ASSUME NEW c \in Calls, Invoke(c) PROVE Promise!Next
    BY <1>1, InvokeAsks DEF Promise!Next
  <1>2. ASSUME NEW c \in Calls, Continue(c)
        PROVE  Promise!Next \/ UNCHANGED Promise!promise
    BY <1>2, ContinueRefines DEF Promise!Next
  <1>3. ASSUME NEW e \in net, Hub(e)
        PROVE  Promise!Next \/ UNCHANGED Promise!promise
    <2>1. Inv
      BY DEF Faithful
    <2>2. e.call \in Calls /\ e.file \in File
      BY <2>1, ExchangeTypes
    <2>3. e.file \in Promise!File
      BY <2>2 DEF File, Promise!File
    <2>4. QED
      BY <1>3, <2>2, <2>3, HubRefines DEF Promise!Next
  <1>4. CASE \/ \E e \in net : DropAnswer(e)
             \/ \E u \in Users : Expire(u)
             \/ \E s \in Sessions : SignOut(s) \/ \E u \in Accounts[s] : SignIn(s, u)
             \/ UNCHANGED vars
    <2>1. UNCHANGED <<files, clock, effects, op, seen>>
      BY <1>4 DEF DropAnswer, Expire, ExpireTokens, SignOut, SignIn, vars, hubState
    <2>2. QED
      BY <2>1, Unseen
  <1>5. QED
    BY <1>1, <1>2, <1>3, <1>4 DEF Next

\* The Gaia client implements ConditionalFiles.
THEOREM PromiseKept == Spec => KeepsPromise
  <1>1. Faithful => Inv
    BY DEF Faithful
  <1>2. QED
    BY <1>1, InitRefines, NextRefines, AnswersAreTrue, PTL
    DEF Spec, KeepsPromise, Promise!Spec

----------------------------------------------------------------------------
(* Renewing the token.  A config in use is never newer than the tokens the  *)
(* hub accepts, and an upload that was refused for its token was sent with  *)
(* one that had expired.                                                    *)

Aged(cfg) == cfg # NoConfig => cfg.epoch <= epoch[cfg.user]
NowAged(cfg) == cfg # NoConfig => cfg.epoch <= epoch'[cfg.user]    \* after the step

\* Only requests with a token are refused for it.
Vouched(e) ==
    /\ e.verb \in {"info", "get"} => e.status # 401
    /\ e.verb = "info" /\ e.status = 200 => e.value <= epoch[e.file.user]
    /\ e.verb = "post" =>
        /\ e.token <= epoch[e.file.user]
        /\ e.status = 401 => e.token < epoch[e.file.user]
        /\ op[e.call].phase = "wait" /\ e.try = op[e.call].try =>
                e.token = op[e.call].cfg.epoch

\* RenewalHelps of one call, which has a config.
Refused(c) ==
    op[c].opt.kind = "put" /\ op[c].phase = "rejected" /\ op[c].status = 401 =>
        op[c].try = 2 /\ op[c].cfg # NoConfig /\ op[c].cfg.epoch < epoch[op[c].cfg.user]

Renewed ==
    /\ \A s \in Sessions : Aged(store[s].config)
    /\ \A c \in Calls : Aged(op[c].cfg) /\ Aged(op[c].snap.config) /\ Refused(c)
    /\ \A e \in net : Vouched(e)

\* No token gets younger.
LEMMA EpochsGrow ==
    ASSUME Inv, [Next]_vars, NEW u \in Users
    PROVE  epoch[u] \in Nat /\ epoch'[u] \in Nat /\ epoch[u] <= epoch'[u]
  <1>1. epoch \in [Users -> Nat]
    BY DEF Inv, TypeInv, TypeOK, HubTypeOK
  <1>2. CASE UNCHANGED epoch
    BY <1>1, <1>2
  <1>3. ASSUME NEW w \in Users, Expire(w) PROVE epoch[u] <= epoch'[u] /\ epoch'[u] \in Nat
    BY <1>1, <1>3 DEF Expire, ExpireTokens
  <1>4. UNCHANGED epoch \/ \E w \in Users : Expire(w)
    <2>1. ASSUME NEW c \in Calls, Invoke(c) PROVE UNCHANGED epoch
      BY <2>1 DEF Invoke, PutFile, GetFile, GetForeignFile, DeleteFile, Start
    <2>2. ASSUME NEW c \in Calls, Continue(c) PROVE UNCHANGED epoch
      BY <2>2 DEF Continue, PutOversized, PutBegin, PutEncode, GetBegin, DeleteBegin,
         Connected, PutAnswered, GetAnswered, DeleteAnswered, hubState
    <2>3. ASSUME NEW e \in net, Hub(e) PROVE UNCHANGED epoch
      BY <2>3 DEF Hub, HubServe, HubInfo, HubGet, HubPost, HubDelete, HubRefuse, HubFails,
         HubConflict, LoseRequest, LoseAnswer, Fault
    <2>4. CASE \/ \E e \in net : DropAnswer(e)
               \/ \E s \in Sessions : SignOut(s) \/ \E w \in Accounts[s] : SignIn(s, w)
               \/ UNCHANGED vars
      BY <2>4 DEF DropAnswer, SignOut, SignIn, vars, hubState
    <2>5. QED
      BY <2>1, <2>2, <2>3, <2>4 DEF Next
  <1>5. QED
    BY <1>1, <1>2, <1>3, <1>4

\* So a config that has aged stays so.
LEMMA AgedStays ==
    ASSUME Inv, [Next]_vars, NEW cfg \in Config, Aged(cfg)
    PROVE  NowAged(cfg)
  <1>1. CASE cfg = NoConfig
    BY <1>1 DEF NowAged
  <1>2. CASE cfg # NoConfig
    <2>1. cfg.user \in Users /\ cfg.epoch \in Nat
      BY <1>2, ConfigUser
    <2>2. QED
      BY <2>1, EpochsGrow DEF Aged, NowAged
  <1>3. QED
    BY <1>1, <1>2

\* And an exchange, as long as its attempt has the same config.
LEMMA VouchedStays ==
    ASSUME Inv, [Next]_vars, NEW e \in net, Vouched(e),
           e.verb = "post" /\ op'[e.call].phase = "wait" /\ e.try = op'[e.call].try =>
               /\ op[e.call].phase = "wait" /\ op'[e.call].cfg = op[e.call].cfg
               /\ op'[e.call].try = op[e.call].try
    PROVE  Vouched(e)'
  <1>1. e.file.user \in Users /\ e.value \in Nat /\ e.token \in Nat
    BY AnswerTypes DEF Inv, Exchange
  <1>2. /\ epoch[e.file.user] \in Nat /\ epoch'[e.file.user] \in Nat
        /\ epoch[e.file.user] <= epoch'[e.file.user]
    BY <1>1, EpochsGrow
  <1>3. QED
    BY <1>1, <1>2 DEF Vouched

\* What is left to show of a step, for the calls, sessions and exchanges that
\* it changes.
LEMMA RenewedStep ==
    ASSUME Inv, Renewed, [Next]_vars,
           \A s \in Sessions : store'[s].config = store[s].config \/ NowAged(store'[s].config),
           \A c \in Calls :
               /\ \/ op'[c].cfg = op[c].cfg
                  \/ NowAged(op'[c].cfg)
               /\ \/ op'[c].snap.config = op[c].snap.config
                  \/ NowAged(op'[c].snap.config)
               /\ UNCHANGED op[c] \/ Refused(c)',
           \A e \in net' :
               \/ Vouched(e)'
               \/ /\ e \in net
                  /\ e.verb = "post" /\ op'[e.call].phase = "wait" /\ e.try = op'[e.call].try =>
                       /\ op[e.call].phase = "wait" /\ op'[e.call].cfg = op[e.call].cfg
                       /\ op'[e.call].try = op[e.call].try
    PROVE  Renewed'
  <1>1. \A s \in Sessions : store[s].config \in Config
    BY DEF Inv, TypeInv, TypeOK, SessionData
  <1>2. \A c \in Calls : op[c].cfg \in Config /\ op[c].snap.config \in Config
    BY DEF Inv, TypeInv, TypeOK, Operation, SessionData
  <1>3. \A s \in Sessions : NowAged(store'[s].config)
    BY <1>1, AgedStays DEF Renewed
  <1>4. \A c \in Calls : NowAged(op'[c].cfg) /\ NowAged(op'[c].snap.config)
    BY <1>2, AgedStays DEF Renewed
  <1>5. \A e \in net' : Vouched(e)'
    BY VouchedStays DEF Renewed
  <1>6. ASSUME NEW c \in Calls, UNCHANGED op[c] PROVE Refused(c)'
    <2>1. SUFFICES ASSUME op[c].opt.kind = "put", op[c].phase = "rejected", op[c].status = 401
                   PROVE  op[c].try = 2 /\ op[c].cfg # NoConfig
                          /\ op[c].cfg.epoch < epoch'[op[c].cfg.user]
      BY <1>6 DEF Refused
    <2>2. op[c].try = 2 /\ op[c].cfg # NoConfig /\ op[c].cfg.epoch < epoch[op[c].cfg.user]
      BY <2>1 DEF Renewed, Refused
    <2>3. op[c].cfg.user \in Users /\ op[c].cfg.epoch \in Nat
      BY <1>2, <2>2, ConfigUser
    <2>4. QED
      BY <2>2, <2>3, EpochsGrow
  <1>7. /\ \A x \in Sessions : Aged(store[x].config)'
        /\ \A c \in Calls : Aged(op[c].cfg)' /\ Aged(op[c].snap.config)' /\ Refused(c)'
    BY <1>3, <1>4, <1>6 DEF Aged, NowAged
  <1>8. QED
    BY <1>5, <1>7 DEF Renewed

\* The same, for a continuation.
LEMMA ContinueRenewed ==
    ASSUME Faithful, Renewed, NEW c \in Calls, Continue(c),
           UNCHANGED store \/ \E d : WriteBack(c, d) /\ Aged(d.config),
           Aged(op'[c].cfg), Aged(op'[c].snap.config), Refused(c)',
           \A e \in net' : e \in net \/ Vouched(e)',
           \A e \in net : /\ e.call = c /\ e.verb = "post" /\ op'[c].phase = "wait"
                          /\ e.try = op'[c].try
               => /\ op[c].phase = "wait" /\ op'[c].cfg = op[c].cfg
                  /\ op'[c].try = op[c].try
    PROVE  Renewed'
  <1>1. Inv /\ [Next]_vars /\ store \in [Sessions -> SessionData]
    BY DEF Faithful, Next, Inv, TypeInv, TypeOK
  <1>2. UNCHANGED epoch
    BY DEF Continue, PutOversized, PutBegin, PutEncode, GetBegin, DeleteBegin,
       Connected, PutAnswered, GetAnswered, DeleteAnswered, hubState
  <1>3. \A cfg : NowAged(cfg) <=> Aged(cfg)
    BY <1>2 DEF NowAged, Aged
  <1>4. \A s \in Sessions : store'[s].config = store[s].config \/ NowAged(store'[s].config)
    BY <1>1, <1>3 DEF WriteBack
  <1>5. \A d \in Calls \ {c} : op'[d] = op[d]
    BY <1>1, ContinueFrame
  <1>6. \A d \in Calls : /\ op'[d].cfg = op[d].cfg \/ NowAged(op'[d].cfg)
                         /\ op'[d].snap.config = op[d].snap.config \/ NowAged(op'[d].snap.config)
                         /\ UNCHANGED op[d] \/ Refused(d)'
    BY <1>3, <1>5
  <1>7. \A e \in net' :
            \/ Vouched(e)'
            \/ /\ e \in net
               /\ e.verb = "post" /\ op'[e.call].phase = "wait" /\ e.try = op'[e.call].try =>
                    /\ op[e.call].phase = "wait" /\ op'[e.call].cfg = op[e.call].cfg
                    /\ op'[e.call].try = op[e.call].try
    <2>1. \A e \in net : e.call \in Calls
      BY <1>1, ExchangeTypes
    <2>2. QED
      BY <1>5, <2>1
  <1>8. QED
    BY <1>1, <1>4, <1>6, <1>7, RenewedStep

\* A call that settles, unless it is a put refused for its token.
LEMMA SettlingRenewed ==
    ASSUME Faithful, Renewed, NEW c \in Calls, Continue(c),
           NEW o \in {"resolved", "rejected"}, NEW code, Settle(c, o, code),
           UNCHANGED store \/ \E d : WriteBack(c, d) /\ Aged(d.config),
           net' \subseteq net, UNCHANGED epoch,
           o = "rejected" /\ code = 401 /\ Kind(c) = "put" =>
               /\ op[c].try = 2 /\ op[c].cfg # NoConfig
               /\ op[c].cfg.epoch < epoch[op[c].cfg.user]
    PROVE  Renewed'
  <1>1. /\ op'[c].opt = op[c].opt /\ op'[c].phase = o /\ op'[c].try = op[c].try
        /\ op'[c].cfg = op[c].cfg /\ op'[c].status = code
    BY SettledFields DEF Faithful
  <1>2. op'[c].snap = EmptySession
    BY HubTypes DEF Faithful, Settle, NewOperation
  <1>3. Aged(op'[c].cfg) /\ Aged(op'[c].snap.config)
    BY <1>1, <1>2 DEF Renewed, Aged, EmptySession
  <1>4. Refused(c)'
    BY <1>1 DEF Refused, Kind
  <1>5. op'[c].phase # "wait"
    BY <1>1
  <1>6. QED
    BY <1>3, <1>4, <1>5, ContinueRenewed

\* The uploads of an attempt carry its token.
LEMMA UploadsVouched ==
    ASSUME NEW c \in Calls, NEW k, NEW cfg, NEW v, cfg # NoConfig, Aged(cfg),
           UNCHANGED epoch, op'[c].cfg = cfg
    PROVE  \A e \in Uploads(c, k, cfg, v) : Vouched(e)'
  BY DEF Uploads, PostRequest, Vouched, Aged, Pending

\* The other requests carry none, or are not uploads.
LEMMA OthersVouched ==
    /\ \A c, k, u, p : Vouched(InfoRequest(c, k, u, p))' /\ Vouched(GetRequest(c, u, p))'
    /\ \A c, k, cfg, p, part : Vouched(DeleteRequest(c, k, cfg, p, part))'
  BY DEF InfoRequest, GetRequest, DeleteRequest, Vouched, Pending

\* The answer to hub_info is the token the hub accepts now.
LEMMA ConnectedRenews ==
    ASSUME Faithful, Renewed, NEW c \in Calls, NEW e \in net, Connected(c, e)
    PROVE  Renewed'
  <1>1. /\ Awaited(c, e) /\ op[c].phase = "connect" /\ e.call = c /\ e.try = op[c].try
        /\ UNCHANGED epoch /\ Continue(c) /\ IsAt(c, {"connect"})
    BY DEF Connected, Awaited, hubState, Continue, IsAt
  <1>2. /\ Inv /\ CallInv(c) /\ op \in [Calls -> Operation] /\ op[c] \in Operation
        /\ Vouched(e) /\ Session(c) \in SessionData /\ e.file.user \in Users
        /\ e.value \in Nat /\ op[c].try \in 1..2
    BY HubTypes, CallTypes, AnswerTypes DEF Faithful, Renewed, Inv, Operation
  <1>3. e.verb = "info"
    BY <1>1, AwaitedVerb
  <1>4. CASE ConnectFails(c, e) \/ ConnectAfterSignOut(c, e)
    <2>1. PICK code : Settle(c, "rejected", code) /\ code # 401
      BY <1>2, <1>3, <1>4 DEF ConnectFails, ConnectAfterSignOut, Reject, Vouched, Pending
    <2>2. UNCHANGED store /\ net' \subseteq net
      BY <1>4 DEF ConnectFails, ConnectAfterSignOut
    <2>3. QED
      BY <1>1, <2>1, <2>2, SettlingRenewed
  <1>5. CASE Connect(c, e)
    <2> DEFINE cfg == [user |-> e.file.user, epoch |-> e.value]
               d == [Session(c) EXCEPT !.config = cfg]
    <2>1. WriteBack(c, d) /\ d.config = cfg
      BY <1>2, <1>5 DEF Connect, SessionData
    <2>2. Aged(cfg) /\ cfg # NoConfig
      BY <1>2, <1>3, <1>5, NewConfig DEF Connect, Vouched, Aged
    <2>3. CASE e.try = 1
      <3>1. /\ op' = [op EXCEPT ![c].phase = "begin", ![c].cfg = cfg, ![c].first = cfg]
            /\ net' = net \ {e}
        BY <1>5, <2>3 DEF Connect
      <3>2. op'[c].phase = "begin" /\ op'[c].cfg = cfg /\ op'[c].snap = op[c].snap
        BY <1>2, <3>1 DEF Operation
      <3> HIDE DEF cfg, d
      <3>3. Refused(c)' /\ Aged(op'[c].snap.config)
        BY <3>2 DEF Refused, Renewed
      <3>4. QED
        BY <1>1, <2>1, <2>2, <3>1, <3>2, <3>3, ContinueRenewed
    <2>4. CASE e.try # 1
      <3>1. /\ op' = [op EXCEPT ![c].phase = "wait", ![c].cfg = cfg]
            /\ net' = (net \ {e}) \cup Requests(c, 2, cfg)
        BY <1>5, <2>4 DEF Connect
      <3>2. /\ op'[c].phase = "wait" /\ op'[c].cfg = cfg /\ op'[c].snap = op[c].snap
            /\ op'[c].try = op[c].try
        BY <1>2, <3>1 DEF Operation
      <3> HIDE DEF cfg, d
      <3>3. Refused(c)' /\ Aged(op'[c].snap.config)
        BY <3>2 DEF Refused, Renewed
      <3>4. \A x \in Requests(c, 2, cfg) : Vouched(x)'
        BY <1>1, <2>2, <3>2, UploadsVouched, OthersVouched DEF Requests
      <3>5. \A x \in net : x.call = c /\ x.verb = "post" => x.try # op[c].try
        BY <1>1, <1>2 DEF CallInv, Sent
      <3>6. QED
        <4>1. \A x \in net' : x \in net \/ Vouched(x)'
          BY <3>1, <3>4
        <4>2. ASSUME NEW x \in net, x.call = c, x.verb = "post", x.try = op'[c].try PROVE FALSE
          BY <3>2, <3>5, <4>2
        <4>3. \E y : WriteBack(c, y) /\ Aged(y.config)
          BY <2>1, <2>2
        <4>4. Aged(op'[c].cfg)
          BY <2>2, <3>2
        <4>5. QED
          BY <1>1, <3>3, <4>1, <4>2, <4>3, <4>4, ContinueRenewed
    <2>5. QED
      BY <2>3, <2>4
  <1>6. QED
    BY <1>4, <1>5 DEF Connected

\* Going back for another sends no upload.
LEMMA ReconnectRenews ==
    ASSUME Faithful, Renewed, NEW c \in Calls, NEW e \in net, Continue(c), Reconnect(c, e),
           UNCHANGED <<store, epoch>>
    PROVE  Renewed'
  <1>1. Inv /\ op \in [Calls -> Operation] /\ op[c] \in Operation
    BY HubTypes DEF Faithful
  <1>2. CASE SignedIn(c)
    <2>1. /\ op'[c].phase = "connect" /\ op'[c].cfg = op[c].cfg /\ op'[c].snap = op[c].snap
      BY <1>1, <1>2 DEF Reconnect, Operation
    <2>2. Refused(c)' /\ Aged(op'[c].cfg) /\ Aged(op'[c].snap.config)
      BY <2>1 DEF Refused, Renewed
    <2>3. \A x \in net' : x \in net \/ Vouched(x)'
      BY <1>2, OthersVouched DEF Reconnect
    <2>4. QED
      BY <2>1, <2>2, <2>3, ContinueRenewed
  <1>3. CASE ~SignedIn(c)
    <2>1. Settle(c, "rejected", Pending) /\ net' \subseteq net /\ Pending # 401
      BY <1>3 DEF Reconnect, Reject, Pending
    <2>2. QED
      BY <2>1, SettlingRenewed
  <1>4. QED
    BY <1>2, <1>3

\* The steps of a put: its uploads carry the token of its config.
LEMMA PutRenews ==
    ASSUME Faithful, Renewed, NEW c \in Calls, Continue(c),
           \/ PutOversized(c) \/ PutBegin(c) \/ PutEncode(c)
           \/ \E e \in net : PutAnswered(c, e)
    PROVE  Renewed'
  <1>1. /\ Inv /\ CallInv(c) /\ op \in [Calls -> Operation] /\ op[c] \in Operation
        /\ op[c].snap \in SessionData /\ Path(c) \in Paths /\ op[c].cfg \in Config
        /\ SessionOf[c] \in Sessions
    BY HubTypes, CallTypes DEF Faithful, Inv, Operation
  <1>2. UNCHANGED epoch /\ op[c].opt.kind = "put" /\ Kind(c) = "put"
    BY DEF PutOversized, PutBegin, PutEncode, PutAnswered, hubState, Kind
  <1>3. Aged(op[c].cfg) /\ Aged(op[c].snap.config) /\ Aged(Session(c).config)
    BY <1>1 DEF Renewed, Session
  <1>4. ASSUME Reject(c, Pending), UNCHANGED store, net' \subseteq net PROVE Renewed'
    <2>1. Settle(c, "rejected", Pending) /\ Pending # 401
      BY <1>4 DEF Reject, Pending
    <2>2. QED
      BY <1>2, <1>4, <2>1, SettlingRenewed
  <1>5. CASE PutOversized(c)
    BY <1>4, <1>5 DEF PutOversized
  <1>6. CASE PutBegin(c) \/ PutEncode(c)
    <2>1. UNCHANGED store /\ IsAt(c, {"begin", "encode"})
      BY <1>6 DEF PutBegin, PutEncode, IsAt
    <2>2. \A e \in net : e.call # c
      BY <2>1, NothingSentYet
    <2>3. op[c].cfg # NoConfig
      BY <1>1, <2>1 DEF IsAt, Inv, TypeInv, ConfigInPlace
    <2>4. CASE Reject(c, Pending) /\ UNCHANGED net
      BY <1>4, <2>1, <2>4
    <2>5. CASE ~(Reject(c, Pending) /\ UNCHANGED net)
      <3>1. /\ op'[c].phase \in {"wait", "encode"} /\ op'[c].cfg = op[c].cfg
            /\ op'[c].snap = op[c].snap \/ op'[c].snap = Session(c)
        BY <1>1, <1>6, <2>5 DEF PutBegin, PutEncode, Operation
      <3>2. net' = net \/ \E v : net' = net \cup Uploads(c, 1, op[c].cfg, v)
        BY <1>6, <2>5 DEF PutBegin, PutEncode
      <3>3. \A x \in net' : x \in net \/ Vouched(x)'
        BY <1>2, <1>3, <2>3, <3>1, <3>2, UploadsVouched
      <3>4. Refused(c)' /\ Aged(op'[c].cfg) /\ Aged(op'[c].snap.config)
        BY <1>3, <3>1 DEF Refused
      <3>5. QED
        BY <2>1, <2>2, <3>3, <3>4, ContinueRenewed
    <2>6. QED
      BY <2>4, <2>5
  <1>7. ASSUME NEW e \in net, PutAnswered(c, e) PROVE Renewed'
    <2>1. /\ Awaited(c, e) /\ e.call = c /\ e.try = op[c].try /\ op[c].phase = "wait"
          /\ IsAt(c, {"wait"})
      BY <1>7 DEF PutAnswered, Awaited, IsAt
    <2>2. e.verb = "post" /\ Vouched(e)
      BY <1>2, <2>1, AwaitedVerb DEF Renewed
    <2>3. CASE PutPartDone(c, e)
      <3>1. /\ op'[c].phase = op[c].phase /\ op'[c].cfg = op[c].cfg
            /\ op'[c].snap = op[c].snap /\ op'[c].try = op[c].try
        BY <1>1, <2>3 DEF PutPartDone, Operation
      <3>2. UNCHANGED store /\ \A x \in net' : x \in net
        BY <2>3 DEF PutPartDone
      <3>3. Refused(c)' /\ Aged(op'[c].cfg) /\ Aged(op'[c].snap.config)
        BY <1>3, <2>1, <3>1 DEF Refused
      <3>4. QED
        BY <2>1, <3>1, <3>2, <3>3, ContinueRenewed
    <2>4. CASE PutResolves(c, e)
      <3>1. UNCHANGED store \/ \E d : WriteBack(c, d) /\ Aged(d.config)
        <4> DEFINE d == [op[c].snap EXCEPT !.etags[Path(c)] = WriteEtag(c, e)]
        <4>1. d.config = op[c].snap.config
          BY <1>1 DEF SessionData
        <4>2. UNCHANGED store \/ WriteBack(c, d)
          BY <2>4 DEF PutResolves
        <4> HIDE DEF d
        <4>3. QED
          BY <1>3, <4>1, <4>2
      <3>2. Settle(c, "resolved", 200) /\ net' \subseteq net
        BY <2>4 DEF PutResolves
      <3>3. QED
        BY <1>2, <3>1, <3>2, SettlingRenewed
    <2>5. CASE PutFails(c, e) /\ Recoverable(e.status) /\ op[c].try = 1
      <3>1. Reconnect(c, e) /\ UNCHANGED store
        BY <2>5 DEF PutFails
      <3>2. QED
        BY <1>2, <3>1, ReconnectRenews
    <2>6. CASE PutFails(c, e) /\ ~(Recoverable(e.status) /\ op[c].try = 1)
      <3>1. Settle(c, "rejected", e.status) /\ UNCHANGED store /\ net' \subseteq net
        BY <2>6 DEF PutFails, Reject
      <3>2. ASSUME e.status = 401
            PROVE  /\ op[c].try = 2 /\ op[c].cfg # NoConfig
                   /\ op[c].cfg.epoch < epoch[op[c].cfg.user]
        <4>1. op[c].try = 2
          BY <1>1, <2>6, <3>2 DEF Recoverable, Operation
        <4>2. op[c].cfg # NoConfig
          BY <1>1, <1>2, <2>1 DEF Inv, TypeInv, ConfigInPlace
        <4>3. e.file.user = op[c].cfg.user
          BY <1>1, <2>1, <2>2 DEF CallInv, Sent
        <4>4. e.token < epoch[e.file.user] /\ e.token = op[c].cfg.epoch
          BY <2>1, <2>2, <3>2 DEF Vouched
        <4>5. QED
          BY <4>1, <4>2, <4>3, <4>4
      <3>3. QED
        BY <1>2, <3>1, <3>2, SettlingRenewed
    <2>7. QED
      BY <1>7, <2>3, <2>4, <2>5, <2>6 DEF PutAnswered
  <1>8. QED
    BY <1>5, <1>6, <1>7

\* The steps of a get and of a delete upload nothing.
LEMMA GetRenews ==
    ASSUME Faithful, Renewed, NEW c \in Calls, Continue(c),
           GetBegin(c) \/ \E e \in net : GetAnswered(c, e)
    PROVE  Renewed'
  <1>1. /\ Inv /\ CallInv(c) /\ op \in [Calls -> Operation] /\ op[c] \in Operation
        /\ Session(c) \in SessionData /\ SessionOf[c] \in Sessions
    BY HubTypes, CallTypes DEF Faithful, Inv
  <1>2. UNCHANGED epoch /\ op[c].opt.kind = "get" /\ Kind(c) = "get"
    BY DEF GetBegin, GetAnswered, hubState, Kind
  <1>3. CASE GetBegin(c)
    <2>1. /\ op'[c].phase = "wait" /\ op'[c].cfg = op[c].cfg /\ op'[c].snap = op[c].snap
      BY <1>1, <1>3 DEF GetBegin, Operation
    <2>2. \A x \in net : x.call = c => x.verb # "post"
      BY <1>1, <1>2 DEF CallInv, Sent
    <2>3. UNCHANGED store /\ \A x \in net' : x \in net \/ Vouched(x)'
      BY <1>3, OthersVouched DEF GetBegin
    <2>4. Refused(c)' /\ Aged(op'[c].cfg) /\ Aged(op'[c].snap.config)
      BY <2>1 DEF Refused, Renewed
    <2>5. QED
      BY <2>1, <2>2, <2>3, <2>4, ContinueRenewed
  <1>4. ASSUME NEW e \in net, GetAnswered(c, e) PROVE Renewed'
    <2>1. UNCHANGED store \/ \E d : WriteBack(c, d) /\ Aged(d.config)
      <3> DEFINE d == [Session(c) EXCEPT !.etags[Path(c)] = e.value]
      <3>1. d.config = Session(c).config
        BY <1>1 DEF SessionData
      <3>2. UNCHANGED store \/ WriteBack(c, d)
        BY <1>4 DEF GetAnswered
      <3> HIDE DEF d
      <3>3. QED
        BY <1>1, <3>1, <3>2 DEF Renewed, Session
    <2>2. net' \subseteq net
      BY <1>4 DEF GetAnswered
    <2>3. Settle(c, "resolved", 200) \/ Settle(c, "rejected", e.status)
      BY <1>4 DEF GetAnswered, Reject
    <2>4. QED
      BY <1>2, <2>1, <2>2, <2>3, SettlingRenewed
  <1>5. QED
    BY <1>3, <1>4

\* So do those of a delete.
LEMMA DeleteRenews ==
    ASSUME Faithful, Renewed, NEW c \in Calls, Continue(c),
           DeleteBegin(c) \/ \E e \in net : DeleteAnswered(c, e)
    PROVE  Renewed'
  <1>1. /\ Inv /\ CallInv(c) /\ op \in [Calls -> Operation] /\ op[c] \in Operation
        /\ SessionOf[c] \in Sessions /\ Path(c) \in Paths /\ op[c].snap \in SessionData
    BY HubTypes, CallTypes DEF Faithful, Inv, Operation
  <1>2. UNCHANGED epoch /\ op[c].opt.kind = "delete" /\ Kind(c) = "delete"
    BY DEF DeleteBegin, DeleteAnswered, hubState, Kind
  <1>3. \A x \in net : x.call = c => x.verb # "post"
    BY <1>1, <1>2 DEF CallInv, Sent
  <1>4. Aged(Session(c).config) /\ Aged(op[c].cfg) /\ Aged(op[c].snap.config)
    BY <1>1 DEF Renewed, Session
  <1>5. CASE DeleteBegin(c)
    <2>1. /\ op'[c].phase = "wait" /\ op'[c].cfg = op[c].cfg /\ op'[c].snap = Session(c)
      BY <1>1, <1>5 DEF DeleteBegin, Operation
    <2>2. UNCHANGED store /\ \A x \in net' : x \in net \/ Vouched(x)'
      BY <1>2, <1>5, OthersVouched DEF DeleteBegin, Requests
    <2>3. Refused(c)' /\ Aged(op'[c].cfg) /\ Aged(op'[c].snap.config)
      BY <1>4, <2>1 DEF Refused
    <2>4. QED
      BY <1>3, <2>1, <2>2, <2>3, ContinueRenewed
  <1>6. ASSUME NEW e \in net, DeleteAnswered(c, e) PROVE Renewed'
    <2>1. op[c].phase = "wait"
      BY <1>6 DEF DeleteAnswered
    <2>2. CASE DeletePartDone(c, e)
      <3>1. /\ op'[c].phase = "wait" /\ op'[c].cfg = op[c].cfg /\ op'[c].snap = op[c].snap
        BY <1>1, <2>1, <2>2 DEF DeletePartDone, Operation
      <3>2. UNCHANGED store /\ \A x \in net' : x \in net \/ Vouched(x)'
        BY <2>2, OthersVouched DEF DeletePartDone
      <3>3. Refused(c)' /\ Aged(op'[c].cfg) /\ Aged(op'[c].snap.config)
        BY <1>4, <3>1 DEF Refused
      <3>4. QED
        BY <1>3, <3>1, <3>2, <3>3, ContinueRenewed
    <2>3. CASE DeleteResolves(c, e)
      <3> DEFINE d == [op[c].snap EXCEPT !.etags[Path(c)] = 0]
      <3>1. d.config = op[c].snap.config
        BY <1>1 DEF SessionData
      <3>2. WriteBack(c, d) /\ Settle(c, "resolved", 200) /\ net' \subseteq net
        BY <2>3 DEF DeleteResolves
      <3> HIDE DEF d
      <3>3. Aged(d.config)
        BY <1>4, <3>1
      <3>4. QED
        BY <1>2, <3>2, <3>3, SettlingRenewed
    <2>4. CASE DeleteFails(c, e) /\ op[c].try = 1
      BY <1>2, <2>4, ReconnectRenews DEF DeleteFails
    <2>5. CASE DeleteFails(c, e) /\ op[c].try # 1
      <3>1. Settle(c, "rejected", e.status) /\ UNCHANGED store /\ net' \subseteq net
        BY <2>5 DEF DeleteFails, Reject
      <3>2. QED
        BY <1>2, <3>1, SettlingRenewed
    <2>6. QED
      BY <1>6, <2>2, <2>3, <2>4, <2>5 DEF DeleteAnswered
  <1>7. QED
    BY <1>5, <1>6

\* An operation starts with the config of its session, or with none.
LEMMA InvokeRenews ==
    ASSUME Faithful, Renewed, NEW c \in Calls, Invoke(c)
    PROVE  Renewed'
  <1>1. PICK o \in Offered :
            PutFile(c, o) \/ GetFile(c, o) \/ GetForeignFile(c, o) \/ DeleteFile(c, o)
    BY DEF Invoke
  <1>2. /\ Idle(c) /\ UNCHANGED <<store, epoch>>
    BY <1>1 DEF PutFile, GetFile, GetForeignFile, DeleteFile, Start
  <1>3. /\ Inv /\ op \in [Calls -> Operation] /\ [Next]_vars /\ SessionOf[c] \in Sessions
    BY HubTypes, StorageAssumption DEF Faithful, Next
  <1>4. PICK ph \in {"rejected", "begin", "connect", "wait"},
             cfg \in {NoConfig, Session(c).config} :
            op' = [op EXCEPT ![c] = NewOperation(o, ph, cfg)]
    BY <1>1 DEF PutFile, GetFile, GetForeignFile, DeleteFile, GetOrSetConnection
  <1>5. /\ op'[c].cfg = cfg /\ op'[c].snap = EmptySession /\ op'[c].status = Pending
        /\ \A d \in Calls \ {c} : op'[d] = op[d]
    BY <1>3, <1>4 DEF NewOperation
  <1>6. NowAged(op'[c].cfg) /\ NowAged(op'[c].snap.config)
    BY <1>2, <1>3, <1>4, <1>5 DEF Renewed, Aged, NowAged, EmptySession, Session
  <1>7. Refused(c)'
    BY <1>5 DEF Refused, Pending
  <1>8. \A x \in net' : x \in net \/ Vouched(x)'
    BY <1>1, OthersVouched DEF PutFile, GetFile, GetForeignFile, DeleteFile, GetOrSetConnection
  <1>9. \A x \in net : x.call \in Calls \ {c}
    BY <1>2, <1>3, ExchangeTypes DEF Idle
  <1>10. \A d \in Calls : /\ op'[d].cfg = op[d].cfg \/ NowAged(op'[d].cfg)
                          /\ op'[d].snap.config = op[d].snap.config \/ NowAged(op'[d].snap.config)
                          /\ UNCHANGED op[d] \/ Refused(d)'
    BY <1>5, <1>6, <1>7
  <1>11. \A e \in net' :
            \/ Vouched(e)'
            \/ /\ e \in net
               /\ e.verb = "post" /\ op'[e.call].phase = "wait" /\ e.try = op'[e.call].try =>
                    /\ op[e.call].phase = "wait" /\ op'[e.call].cfg = op[e.call].cfg
                    /\ op'[e.call].try = op[e.call].try
    BY <1>5, <1>8, <1>9
  <1>12. QED
    BY <1>2, <1>3, <1>10, <1>11, RenewedStep

\* When no call and no exchange changes, what is in use has only aged.
LEMMA OthersRenew ==
    ASSUME Faithful, Renewed, [Next]_vars, UNCHANGED op,
           \A s \in Sessions : store'[s].config \in {store[s].config, NoConfig},
           \A e \in net' : e \in net \/ Vouched(e)'
    PROVE  Renewed'
  <1>1. Inv
    BY DEF Faithful
  <1>2. \A s \in Sessions : store'[s].config = store[s].config \/ NowAged(store'[s].config)
    BY DEF NowAged
  <1>3. QED
    BY <1>1, <1>2, RenewedStep

\* The hub refuses a token that is older than the ones it accepts.
LEMMA HubRenews ==
    ASSUME Faithful, Renewed, NEW e \in net, Hub(e)
    PROVE  Renewed'
  <1>1. /\ Inv /\ [Next]_vars /\ UNCHANGED <<op, store, epoch>> /\ Vouched(e)
        /\ e.file.user \in Users /\ e.token \in Nat /\ epoch \in [Users -> Nat]
    <2>1. Inv /\ [Next]_vars /\ UNCHANGED <<op, store>> /\ Vouched(e)
      BY DEF Faithful, Renewed, Hub, Next
    <2>2. UNCHANGED epoch
      BY DEF Hub, HubServe, HubInfo, HubGet, HubPost, HubDelete, HubRefuse, HubFails,
         HubConflict, LoseRequest, LoseAnswer, Fault
    <2>3. e \in Exchange /\ e.file.user \in Users /\ epoch \in [Users -> Nat]
      BY <2>1, AnswerTypes DEF Inv, TypeInv, TypeOK, HubTypeOK
    <2>4. QED
      BY <2>1, <2>2, <2>3 DEF Exchange
  <1>2. PICK code, v :
            /\ Reply(e, code, v)
            /\ code = 401 => e.verb \in {"post", "delete"} /\ e.token # epoch[e.file.user]
            /\ e.verb = "info" /\ code = 200 => v = epoch[e.file.user]
    <2>1. CASE HubInfo(e) \/ HubGet(e)
      BY <2>1 DEF HubInfo, HubGet
    <2>2. CASE HubPost(e) \/ HubDelete(e)
      BY <2>2 DEF HubPost, HubDelete, Perform
    <2>3. CASE HubRefuse(e)
      BY <2>3 DEF HubRefuse, Refusal, Authorized
    <2>4. CASE HubFails(e) \/ HubConflict(e) \/ LoseRequest(e) \/ LoseAnswer(e)
      BY <2>4 DEF HubFails, HubConflict, LoseRequest, LoseAnswer, Lost
    <2>5. QED
      BY <2>1, <2>2, <2>3, <2>4 DEF Hub, HubServe
  <1>3. PICK a : /\ net' = (net \ {e}) \cup {a}
                 /\ a.call = e.call /\ a.try = e.try /\ a.verb = e.verb /\ a.file = e.file
                 /\ a.token = e.token /\ a.status = code /\ a.value = v
    BY <1>1, <1>2, ReplyFields
  <1>4. epoch[e.file.user] \in Nat
    BY <1>1
  <1>5. Vouched(a)'
    BY <1>1, <1>2, <1>3, <1>4 DEF Vouched
  <1>6. QED
    BY <1>1, <1>3, <1>5, OthersRenew

\* The invariant is inductive.
LEMMA NextRenewed == Faithful /\ Renewed /\ [Next]_vars => Renewed'
  <1> SUFFICES ASSUME Faithful, Renewed, [Next]_vars PROVE Renewed'
    OBVIOUS
  <1>1. ASSUME NEW c \in Calls, Invoke(c) PROVE Renewed'
    BY <1>1, InvokeRenews
  <1>2. ASSUME NEW c \in Calls, Continue(c) PROVE Renewed'
    BY <1>2, PutRenews, GetRenews, DeleteRenews, ConnectedRenews DEF Continue
  <1>3. ASSUME NEW e \in net, Hub(e) PROVE Renewed'
    BY <1>3, HubRenews
  <1>4. CASE \/ \E e \in net : DropAnswer(e)
             \/ \E u \in Users : Expire(u)
             \/ UNCHANGED vars
    <2>1. UNCHANGED <<op, store>> /\ net' \subseteq net
      BY <1>4 DEF DropAnswer, Expire, ExpireTokens, vars
    <2>2. QED
      BY <2>1, OthersRenew
  <1>5. ASSUME NEW s \in Sessions, SignOut(s) \/ \E u \in Accounts[s] : SignIn(s, u)
        PROVE  Renewed'
    <2>1. UNCHANGED <<op, net>> /\ store \in [Sessions -> SessionData]
      BY <1>5 DEF SignOut, SignIn, Faithful, Inv, TypeInv, TypeOK
    <2>2. \A t \in Sessions : store'[t].config \in {store[t].config, NoConfig}
      <3>1. CASE SignOut(s)
        BY <2>1, <3>1 DEF SignOut, EmptySession
      <3>2. ASSUME NEW u \in Accounts[s], SignIn(s, u)
            PROVE  \A t \in Sessions : store'[t].config \in {store[t].config, NoConfig}
        <4> DEFINE d == [store[s] EXCEPT !.user = u, !.config = NoConfig]
        <4>1. store' = [store EXCEPT ![s] = d]
          BY <2>1, <3>2 DEF SignIn
        <4>2. d.config = NoConfig
          BY <2>1 DEF SessionData
        <4> HIDE DEF d
        <4>3. QED
          BY <2>1, <4>1, <4>2
      <3>3. QED
        BY <1>5, <3>1, <3>2
    <2>3. QED
      BY <2>1, <2>2, OthersRenew
  <1>6. QED
    BY <1>1, <1>2, <1>3, <1>4, <1>5 DEF Next

\* At the start there is no config and no exchange.
LEMMA InitRenewed == Init => Renewed
  <1> SUFFICES ASSUME Init PROVE Renewed
    OBVIOUS
  <1>1. \A s \in Sessions : store[s].config = NoConfig
    BY DEF Init, EmptySession
  <1>2. \A c \in Calls : /\ op[c].cfg = NoConfig /\ op[c].snap = EmptySession
                         /\ op[c].phase = "idle"
    BY DEF Init, NewOperation
  <1>3. \A c \in Calls : op[c].snap.config = NoConfig
    BY <1>2 DEF EmptySession
  <1>4. QED
    BY <1>1, <1>2, <1>3 DEF Init, HubInit, Renewed, Aged, Refused

\* A put that is rejected for its token was refused with one renewed during
\* the put, which has expired since.
THEOREM RenewalsHelp == Spec => []RenewalHelps
  <1>1. Spec => []Renewed
    BY InitRenewed, NextRenewed, AnswersAreTrue, PTL DEF Spec
  <1>2. Renewed => RenewalHelps
    BY DEF Renewed, Refused, RenewalHelps
  <1>3. QED
    BY <1>1, <1>2, PTL

----------------------------------------------------------------------------
(* Nobody waits in vain. *)

\* A call that does not change keeps what it needs, when the exchanges it waits
\* for stay, or make way for their answers.
LEMMA InHandStays ==
    ASSUME NEW c \in Calls, InHand(c), op'[c] = op[c],
           \A e \in net : Awaited(c, e) =>
               \E a \in net' : /\ a.call = e.call /\ a.try = e.try /\ a.verb = e.verb
                               /\ a.file = e.file,
           \A a \in net' : a.call = c =>
               \E e \in net : /\ a.call = e.call /\ a.try = e.try /\ a.verb = e.verb
                              /\ a.file = e.file
    PROVE  InHand(c)'
  <1>1. ASSUME NEW verb, NEW part
        PROVE  UnderWay(c, verb, part)' <=> UnderWay(c, verb, part)
    BY DEF UnderWay, Awaited
  <1>2. QED
    BY <1>1 DEF InHand

\* A call that waits for nothing needs nothing.
LEMMA NothingNeeded ==
    ASSUME NEW c \in Calls, op'[c].phase \notin {"connect", "wait"}
    PROVE  InHand(c)'
  BY DEF InHand

\* A call that connects has sent its request.
LEMMA ConnectingInHand ==
    ASSUME NEW c \in Calls, op'[c].phase = "connect",
           \E k, u, p : op'[c].try = k /\ InfoRequest(c, k, u, p) \in net'
    PROVE  InHand(c)'
  BY DEF InHand, UnderWay, Awaited, InfoRequest

\* A call that begins an attempt has sent an upload for each part, or a request
\* to delete the content.
LEMMA AttemptInHand ==
    ASSUME Inv, NEW c \in Calls, op'[c].phase = "wait", op'[c].opt = op[c].opt,
           op'[c].got = {}, op[c].opt.kind \in {"put", "delete"},
           NEW cfg, NEW v,
           op[c].opt.kind = "put" => Uploads(c, op'[c].try, cfg, v) \subseteq net',
           op[c].opt.kind = "delete" =>
               DeleteRequest(c, op'[c].try, cfg, Path(c), "content") \in net'
    PROVE  InHand(c)'
  <1>1. CASE op[c].opt.kind = "put"
    <2>1. ASSUME NEW part \in AllParts(op[c].opt)
          PROVE  \E e \in Uploads(c, op'[c].try, cfg, v) :
                    /\ e.call = c /\ e.try = op'[c].try /\ e.verb = "post"
                    /\ e.file.part = part
      <3> DEFINE post(b, w, i) == PostRequest(c, op'[c].try, cfg, op[c].opt.path, part, b, w, i)
      <3>1. \A b, w, i : /\ post(b, w, i).call = c /\ post(b, w, i).try = op'[c].try
                        /\ post(b, w, i).verb = "post" /\ post(b, w, i).file.part = part
        BY DEF PostRequest
      <3>2. CASE part = "content"
        <4>1. post(v = 0, v, op[c].opt.ignore) \in Uploads(c, op'[c].try, cfg, v)
          BY <3>2 DEF Uploads
        <4>2. QED
          BY <3>1, <4>1
      <3>3. CASE part = "sig" /\ op[c].opt.mode = "signed"
        <4>1. post(TRUE, 0, FALSE) \in Uploads(c, op'[c].try, cfg, v)
          BY <3>3 DEF Uploads
        <4>2. QED
          BY <3>1, <4>1
      <3>4. QED
        BY <3>2, <3>3 DEF AllParts, Parts
    <2>2. ASSUME NEW part \in AllParts(op[c].opt) PROVE UnderWay(c, "post", part)'
      BY <1>1, <2>1 DEF UnderWay, Awaited
    <2>3. AllParts(op[c].opt) # {}
      BY DEF AllParts, Parts
    <2>4. QED
      BY <1>1, <2>2, <2>3 DEF InHand, AllParts
  <1>2. CASE op[c].opt.kind = "delete"
    <2>1. UnderWay(c, "delete", "content")'
      BY <1>2 DEF UnderWay, Awaited, DeleteRequest
    <2>2. QED
      BY <1>2, <2>1 DEF InHand, AllParts, Parts
  <1>3. QED
    BY <1>1, <1>2

\* What is gathered is gathered by a call that waits; an attempt starts without.
LEMMA NothingGathered ==
    ASSUME Faithful, NEW c \in Calls, ~IsAt(c, {"wait"})
    PROVE  op[c].got = {}
  BY DEF Faithful, CallInv, Gathered

\* Settling, a call needs nothing any more.
LEMMA SettledInHand ==
    ASSUME Inv, NEW c \in Calls, NEW o \in {"resolved", "rejected"}, NEW code,
           Settle(c, o, code)
    PROVE  InHand(c)'
  BY SettledFields, NothingNeeded

\* A call that tries again asks for a connection, or is rejected.
LEMMA ReconnectInHand ==
    ASSUME Inv, NEW c \in Calls, NEW e \in net, Reconnect(c, e)
    PROVE  InHand(c)'
  <1>1. CASE SignedIn(c)
    <2>1. op \in [Calls -> Operation] /\ op[c] \in Operation
      BY HubTypes
    <2>2. op'[c].phase = "connect" /\ op'[c].try = 2
      BY <1>1, <2>1 DEF Reconnect, Operation
    <2>3. InfoRequest(c, 2, Session(c).user, Path(c)) \in net'
      BY <1>1 DEF Reconnect
    <2>4. QED
      BY <2>2, <2>3, ConnectingInHand
  <1>2. CASE ~SignedIn(c)
    BY <1>2, SettledInHand DEF Reconnect, Reject
  <1>3. QED
    BY <1>1, <1>2

\* What a call waits for after its first continuations it has sent.
LEMMA BeginInHand ==
    ASSUME Faithful, NEW c \in Calls,
           PutOversized(c) \/ PutBegin(c) \/ PutEncode(c) \/ GetBegin(c) \/ DeleteBegin(c)
    PROVE  InHand(c)'
  <1>1. /\ Inv /\ op \in [Calls -> Operation] /\ op[c] \in Operation
        /\ op[c].phase \in {"begin", "encode"} => op[c].got = {} /\ op[c].try = 1
    BY HubTypes, NothingGathered DEF Faithful, CallInv, Asked, IsAt
  <1>2. CASE PutOversized(c)
    BY <1>1, <1>2, SettledInHand DEF PutOversized, Reject
  <1>3. CASE PutBegin(c)
    <2>1. CASE op[c].opt.mode = "plain"
      <3>1. /\ op'[c].phase = "wait" /\ op'[c].opt = op[c].opt /\ op'[c].got = {}
            /\ op'[c].try = 1 /\ op[c].opt.kind = "put"
            /\ Uploads(c, 1, op[c].cfg, KnownEtag(c)) \subseteq net'
        BY <1>1, <1>3, <2>1 DEF PutBegin, Operation
      <3>2. QED
        BY <1>1, <3>1, AttemptInHand
    <2>2. CASE op[c].opt.mode = "sealed" /\ ~SignedIn(c)
      BY <1>1, <1>3, <2>2, SettledInHand DEF PutBegin, Reject
    <2>3. CASE op[c].opt.mode = "signed" \/ (op[c].opt.mode = "sealed" /\ SignedIn(c))
      <3>1. op'[c].phase = "encode"
        BY <1>1, <1>3, <2>3 DEF PutBegin, Operation
      <3>2. QED
        BY <3>1, NothingNeeded
    <2>4. QED
      BY <1>3, <2>1, <2>2, <2>3 DEF PutBegin
  <1>4. CASE PutEncode(c)
    <2>1. CASE SignedIn(c)
      <3>1. /\ op'[c].phase = "wait" /\ op'[c].opt = op[c].opt /\ op'[c].got = {}
            /\ op'[c].try = 1 /\ op[c].opt.kind = "put"
            /\ Uploads(c, 1, op[c].cfg, op[c].etag) \subseteq net'
        BY <1>1, <1>4, <2>1 DEF PutEncode, Operation
      <3>2. QED
        BY <1>1, <3>1, AttemptInHand
    <2>2. CASE ~SignedIn(c)
      BY <1>1, <1>4, <2>2, SettledInHand DEF PutEncode, Reject
    <2>3. QED
      BY <2>1, <2>2
  <1>5. CASE GetBegin(c)
    <2>1. /\ op'[c].phase = "wait" /\ op'[c].opt = op[c].opt /\ op'[c].try = 1
          /\ op[c].opt.kind = "get" /\ op'[c].got = {}
          /\ GetRequest(c, op[c].cfg.user, Path(c)) \in net'
      BY <1>1, <1>5 DEF GetBegin, Operation
    <2>2. UnderWay(c, "get", "content")'
      BY <2>1 DEF UnderWay, Awaited, GetRequest
    <2>3. QED
      BY <2>1, <2>2 DEF InHand, AllParts, Parts
  <1>6. CASE DeleteBegin(c)
    <2>1. /\ op'[c].phase = "wait" /\ op'[c].opt = op[c].opt /\ op'[c].got = {}
          /\ op'[c].try = 1 /\ op[c].opt.kind = "delete"
          /\ DeleteRequest(c, 1, op[c].cfg, Path(c), "content") \in net'
      BY <1>1, <1>6 DEF DeleteBegin, Operation, Requests
    <2>2. QED
      BY <1>1, <2>1, AttemptInHand
  <1>7. QED
    BY <1>2, <1>3, <1>4, <1>5, <1>6

\* With the connection come the requests of the attempt.
LEMMA ConnectedInHand ==
    ASSUME Faithful, NEW c \in Calls, NEW e \in net, Connected(c, e)
    PROVE  InHand(c)'
  <1>1. /\ Inv /\ op \in [Calls -> Operation] /\ op[c] \in Operation
        /\ Awaited(c, e) /\ op[c].phase = "connect" /\ op[c].got = {}
    BY HubTypes, NothingGathered DEF Faithful, Connected, IsAt
  <1>2. CASE ConnectFails(c, e) \/ ConnectAfterSignOut(c, e)
    BY <1>1, <1>2, SettledInHand DEF ConnectFails, ConnectAfterSignOut, Reject
  <1>3. CASE Connect(c, e)
    <2> DEFINE cfg == [user |-> e.file.user, epoch |-> e.value]
    <2>1. CASE e.try = 1
      <3>1. op'[c].phase = "begin"
        BY <1>1, <1>3, <2>1 DEF Connect, Operation
      <3>2. QED
        BY <3>1, NothingNeeded
    <2>2. CASE e.try # 1
      <3>1. /\ op'[c].phase = "wait" /\ op'[c].opt = op[c].opt /\ op'[c].got = {}
            /\ op'[c].try = op[c].try
            /\ Requests(c, 2, cfg) \subseteq net'
        BY <1>1, <1>3, <2>2 DEF Connect, Operation
      <3>2. op[c].try = 2 /\ op[c].opt.kind \in {"put", "delete"}
        <4>1. op[c].try = 2
          BY <1>1, <2>2 DEF Awaited, Operation
        <4>2. op[c].opt.kind # "get" /\ op[c].opt.kind \in {"put", "get", "delete"}
          BY <1>1, <4>1, CallTypes DEF Inv, TypeInv, ConfigInPlace, Option
        <4>3. QED
          BY <4>1, <4>2
      <3>3. /\ op[c].opt.kind = "put" => Uploads(c, 2, cfg, op[c].etag) \subseteq net'
            /\ op[c].opt.kind = "delete" =>
                DeleteRequest(c, 2, cfg, Path(c), "content") \in net'
        BY <3>1 DEF Requests
      <3>4. QED
        BY <1>1, <3>1, <3>2, <3>3, AttemptInHand
    <2>3. QED
      BY <2>1, <2>2
  <1>4. QED
    BY <1>2, <1>3 DEF Connected

\* A put reads one answer and waits for the other, if it waits.
LEMMA PutAnsweredInHand ==
    ASSUME Faithful, NEW c \in Calls, InHand(c), NEW e \in net, PutAnswered(c, e)
    PROVE  InHand(c)'
  <1>1. /\ Inv /\ op \in [Calls -> Operation] /\ op[c] \in Operation
        /\ Awaited(c, e) /\ op[c].phase = "wait" /\ op[c].opt.kind = "put"
    BY HubTypes DEF Faithful, PutAnswered
  <1>2. CASE PutPartDone(c, e)
    <2>1. /\ op'[c].phase = "wait" /\ op'[c].opt = op[c].opt /\ op'[c].try = op[c].try
          /\ op'[c].got = op[c].got \cup {e.file.part} /\ net' = net \ {e}
          /\ op'[c].got # AllParts(op[c].opt)
      BY <1>1, <1>2 DEF PutPartDone, Operation
    <2>2. ASSUME NEW part \in AllParts(op[c].opt)
          PROVE  part \in op'[c].got <=> ~UnderWay(c, "post", part)'
      <3>1. part \in op[c].got <=> ~UnderWay(c, "post", part)
        BY <1>1, <2>2 DEF InHand
      <3>2. CASE part = e.file.part
        <4>1. e.verb = "post" /\ Single(c)
          BY <1>1, AwaitedVerb DEF IsAt, Kind, Faithful, CallInv
        <4>2. ASSUME NEW d \in net, Awaited(c, d), d.verb = "post", d.file.part = part
              PROVE  d = e
          BY <1>1, <3>2, <4>1, <4>2 DEF Single, Awaited
        <4>3. ASSUME UnderWay(c, "post", part)' PROVE FALSE
          <5>1. PICK d \in net \ {e} :
                    /\ d.call = c /\ d.try = op[c].try
                    /\ d.verb = "post" /\ d.file.part = part
            BY <2>1, <4>3 DEF UnderWay, Awaited
          <5>2. d \in net /\ Awaited(c, d)
            BY <1>1, <5>1 DEF Awaited
          <5>3. QED
            BY <4>2, <5>1, <5>2
        <4>4. part \in op'[c].got
          BY <2>1, <3>2
        <4>5. QED
          BY <4>3, <4>4
      <3>3. CASE part # e.file.part
        <4>1. ASSUME UnderWay(c, "post", part) PROVE UnderWay(c, "post", part)'
          <5>1. PICK d \in net : Awaited(c, d) /\ d.verb = "post" /\ d.file.part = part
            BY <4>1 DEF UnderWay
          <5>2. d \in net' /\ d.call = c /\ d.try = op'[c].try /\ op'[c].phase = "wait"
            BY <2>1, <3>3, <5>1 DEF Awaited
          <5>3. QED
            BY <5>1, <5>2 DEF UnderWay, Awaited
        <4>2. ASSUME UnderWay(c, "post", part)' PROVE UnderWay(c, "post", part)
          <5>1. PICK d \in net \ {e} :
                    /\ d.call = c /\ d.try = op[c].try
                    /\ d.verb = "post" /\ d.file.part = part
            BY <2>1, <4>2 DEF UnderWay, Awaited
          <5>2. QED
            BY <1>1, <5>1 DEF UnderWay, Awaited
        <4>3. part \in op'[c].got <=> part \in op[c].got
          BY <2>1, <3>3
        <4>4. QED
          BY <3>1, <4>1, <4>2, <4>3
      <3>4. QED
        BY <3>2, <3>3
    <2>3. e.verb = "post" /\ e.file.part \in AllParts(op[c].opt)
      BY <1>1, AwaitedVerb DEF IsAt, Kind, Faithful, CallInv, Sent, About, Awaited
    <2>4. op'[c].got \in (SUBSET AllParts(op'[c].opt)) \ {AllParts(op'[c].opt)}
      <3>1. op[c].got \subseteq AllParts(op[c].opt)
        BY <1>1 DEF InHand
      <3>2. op'[c].got \subseteq AllParts(op[c].opt) /\ op'[c].got # AllParts(op[c].opt)
        BY <2>1, <2>3, <3>1
      <3>3. QED
        BY <2>1, <3>2
    <2>5. QED
      BY <1>1, <2>1, <2>2, <2>4 DEF InHand
  <1>3. CASE PutResolves(c, e)
    BY <1>1, <1>3, SettledInHand DEF PutResolves
  <1>4. CASE PutFails(c, e)
    BY <1>1, <1>4, SettledInHand, ReconnectInHand DEF PutFails, Reject
  <1>5. QED
    BY <1>2, <1>3, <1>4 DEF PutAnswered

\* A delete reads the answer about the content and asks for the signature.
LEMMA DeleteAnsweredInHand ==
    ASSUME Faithful, NEW c \in Calls, NEW e \in net, DeleteAnswered(c, e)
    PROVE  InHand(c)'
  <1>1. /\ Inv /\ op \in [Calls -> Operation] /\ op[c] \in Operation
        /\ op[c].phase = "wait" /\ op[c].opt.kind = "delete"
    BY HubTypes DEF Faithful, DeleteAnswered
  <1>2. CASE DeletePartDone(c, e)
    <2>1. /\ op'[c].phase = "wait" /\ op'[c].opt = op[c].opt /\ op'[c].try = op[c].try
          /\ op'[c].got = {"content"}
          /\ DeleteRequest(c, op[c].try, op[c].first, Path(c), "sig") \in net'
          /\ op[c].opt.mode = "signed"
      BY <1>1, <1>2 DEF DeletePartDone, Operation
    <2>2. UnderWay(c, "delete", "sig")'
      BY <2>1 DEF UnderWay, Awaited, DeleteRequest
    <2>3. AllParts(op'[c].opt) = Parts /\ "sig" \in Parts
      BY <2>1 DEF AllParts, Parts
    <2>4. op'[c].got \in (SUBSET AllParts(op'[c].opt)) \ {AllParts(op'[c].opt)}
      <3>1. {"content"} \subseteq Parts /\ {"content"} # Parts
        BY DEF Parts
      <3>2. QED
        BY <2>1, <2>3, <3>1
    <2>5. QED
      BY <1>1, <2>1, <2>2, <2>4 DEF InHand
  <1>3. CASE DeleteResolves(c, e)
    BY <1>1, <1>3, SettledInHand DEF DeleteResolves
  <1>4. CASE DeleteFails(c, e)
    BY <1>1, <1>4, SettledInHand, ReconnectInHand DEF DeleteFails, Reject
  <1>5. QED
    BY <1>2, <1>3, <1>4 DEF DeleteAnswered

\* A continuation leaves its own call served.
LEMMA ContinueInHand ==
    ASSUME Faithful, NEW c \in Calls, InHand(c), Continue(c)
    PROVE  InHand(c)'
  <1>1. ASSUME NEW e \in net, GetAnswered(c, e) PROVE InHand(c)'
    BY <1>1, SettledInHand DEF GetAnswered, Reject, Faithful
  <1>2. QED
    BY <1>1, BeginInHand, ConnectedInHand, PutAnsweredInHand, DeleteAnsweredInHand
    DEF Continue

\* Another call's continuation leaves a call's exchanges alone.
LEMMA ContinueSpares ==
    ASSUME Faithful, NEW c \in Calls, Continue(c), NEW e \in net, e.call # c
    PROVE  e \in net'
  <1>1. ASSUME NEW x \in net, Reconnect(c, x), x.call = c PROVE e \in net'
    BY <1>1 DEF Reconnect
  <1>2. CASE PutOversized(c) \/ PutBegin(c) \/ PutEncode(c)
    BY <1>2 DEF PutOversized, PutBegin, PutEncode
  <1>3. CASE GetBegin(c) \/ DeleteBegin(c)
    BY <1>3 DEF GetBegin, DeleteBegin
  <1>4. ASSUME NEW x \in net, Connected(c, x) PROVE e \in net'
    BY <1>4 DEF Connected, ConnectFails, ConnectAfterSignOut, Connect, Awaited
  <1>5. ASSUME NEW x \in net, PutAnswered(c, x) PROVE e \in net'
    BY <1>1, <1>5 DEF PutAnswered, PutPartDone, PutResolves, PutFails, Awaited
  <1>6. ASSUME NEW x \in net, GetAnswered(c, x) PROVE e \in net'
    BY <1>6 DEF GetAnswered, Awaited
  <1>7. ASSUME NEW x \in net, DeleteAnswered(c, x) PROVE e \in net'
    BY <1>1, <1>7 DEF DeleteAnswered, DeletePartDone, DeleteResolves, DeleteFails, Awaited
  <1>8. QED
    BY <1>2, <1>3, <1>4, <1>5, <1>6, <1>7 DEF Continue

\* What a new operation waits for it has sent.
LEMMA InvokeInHand ==
    ASSUME Faithful, NEW c \in Calls, Invoke(c)
    PROVE  /\ InHand(c)' /\ net \subseteq net' /\ \A e \in net' : e.call # c => e \in net
           /\ \A d \in Calls \ {c} : op'[d] = op[d]
  <1>1. PICK o \in Offered :
            PutFile(c, o) \/ GetFile(c, o) \/ GetForeignFile(c, o) \/ DeleteFile(c, o)
    BY DEF Invoke
  <1>2. op \in [Calls -> Operation]
    BY HubTypes DEF Faithful
  <1>3. CASE GetForeignFile(c, o) /\ SignedIn(c)
    <2>1. /\ op' = [op EXCEPT ![c] = NewOperation(o, "wait", NoConfig)]
          /\ net' = net \cup {GetRequest(c, o.of, o.path)} /\ o.kind = "get"
      BY <1>3 DEF GetForeignFile
    <2>2. /\ op'[c].phase = "wait" /\ op'[c].try = 1 /\ op'[c].opt = o /\ op'[c].got = {}
          /\ GetRequest(c, o.of, o.path) \in net'
      BY <1>2, <2>1 DEF NewOperation
    <2>3. UnderWay(c, "get", "content")'
      BY <2>2 DEF UnderWay, Awaited, GetRequest
    <2>4. QED
      BY <1>2, <2>1, <2>2, <2>3 DEF InHand, GetRequest, AllParts, Parts
  <1>4. CASE GetForeignFile(c, o) /\ ~SignedIn(c)
    <2>1. op' = [op EXCEPT ![c] = NewOperation(o, "rejected", NoConfig)] /\ net' = net
      BY <1>4 DEF GetForeignFile
    <2>2. op'[c].phase = "rejected"
      BY <1>2, <2>1 DEF NewOperation
    <2>3. QED
      BY <1>2, <2>1, <2>2, NothingNeeded
  <1>5. CASE GetOrSetConnection(c, o)
    <2>1. PICK ph, cfg :
            /\ op' = [op EXCEPT ![c] = NewOperation(o, ph, cfg)]
            /\ \/ ph \in {"rejected", "begin"} /\ net' = net
               \/ ph = "connect" /\ net' = net \cup {InfoRequest(c, 1, Session(c).user, o.path)}
      BY <1>5 DEF GetOrSetConnection
    <2>2. op'[c].phase = ph /\ op'[c].try = 1
      BY <1>2, <2>1 DEF NewOperation
    <2>3. InHand(c)'
      BY <2>1, <2>2, NothingNeeded, ConnectingInHand
    <2>4. QED
      BY <1>2, <2>1, <2>3 DEF InfoRequest
  <1>6. QED
    BY <1>1, <1>3, <1>4, <1>5 DEF PutFile, GetFile, DeleteFile, GetForeignFile

\* Whatever a step does, what waits stays served.
LEMMA NextInHand == Faithful /\ NobodyWaitsInVain /\ [Next]_vars => NobodyWaitsInVain'
  <1> SUFFICES ASSUME Faithful, NobodyWaitsInVain, [Next]_vars, NEW c \in Calls
               PROVE  InHand(c)'
    BY DEF NobodyWaitsInVain
  <1>1. Inv /\ InHand(c) /\ \A e \in net : e.call \in Calls
    BY ExchangeTypes DEF Faithful, NobodyWaitsInVain
  <1>2. ASSUME NEW d \in Calls, Continue(d) PROVE InHand(c)'
    <2>1. CASE d = c
      BY <1>1, <1>2, <2>1, ContinueInHand
    <2>2. CASE d # c
      BY <1>1, <1>2, <2>2, ContinueFrame, ContinueSpares, ContinueSends, InHandStays DEF Awaited
    <2>3. QED
      BY <2>1, <2>2
  <1>3. ASSUME NEW d \in Calls, Invoke(d) PROVE InHand(c)'
    <2>1. CASE d = c
      BY <1>3, <2>1, InvokeInHand
    <2>2. CASE d # c
      BY <1>1, <1>3, <2>2, InvokeInHand, InHandStays
    <2>3. QED
      BY <2>1, <2>2
  <1>4. ASSUME NEW e \in net, Hub(e) PROVE InHand(c)'
    <2>1. UNCHANGED op /\ \E code, v : Reply(e, code, v)
      BY <1>4 DEF Hub, HubServe, HubInfo, HubGet, HubPost, HubDelete, Perform, HubRefuse,
         HubFails, HubConflict, LoseRequest, LoseAnswer
    <2>2. PICK a : /\ net' = (net \ {e}) \cup {a}
                   /\ a.call = e.call /\ a.try = e.try /\ a.verb = e.verb /\ a.file = e.file
      BY <1>1, <2>1, ReplyFields
    <2>3. QED
      BY <1>1, <2>1, <2>2, InHandStays
  <1>5. ASSUME NEW e \in net, DropAnswer(e) PROVE InHand(c)'
    <2>1. ~Awaited(e.call, e) /\ net' = net \ {e} /\ UNCHANGED op
      BY <1>5 DEF DropAnswer
    <2>2. \A x \in net : Awaited(c, x) => x # e
      BY <2>1 DEF Awaited
    <2>3. QED
      BY <1>1, <2>1, <2>2, InHandStays
  <1>6. CASE \/ \E u \in Users : Expire(u)
             \/ \E s \in Sessions : SignOut(s) \/ \E u \in Accounts[s] : SignIn(s, u)
             \/ UNCHANGED vars
    <2>1. UNCHANGED <<op, net>>
      BY <1>6 DEF Expire, ExpireTokens, SignOut, SignIn, vars
    <2>2. QED
      BY <1>1, <2>1, InHandStays
  <1>7. QED
    BY <1>2, <1>3, <1>4, <1>5, <1>6 DEF Next

\* Each answer a call still needs is on its way, whatever happened to the hub,
\* the network and the session in the meantime.
THEOREM EveryWaitIsServed == Spec => []NobodyWaitsInVain
  <1>1. Init => NobodyWaitsInVain
    BY DEF Init, NewOperation, NobodyWaitsInVain, InHand
  <1>2. QED
    BY <1>1, NextInHand, AnswersAreTrue, PTL DEF Spec

----------------------------------------------------------------------------
(* A call settles within eight continuations of its own: the connection,    *)
(* the beginning, the loading of the content, one upload, the refusal of    *)
(* the other, the connection again and two uploads more.                    *)

\* The continuations an operation still has before it at most.
PartsLeft(o) ==
    (IF "content" \in AllParts(o.opt) \ o.got THEN 1 ELSE 0)
    + (IF "sig" \in AllParts(o.opt) \ o.got THEN 1 ELSE 0)

StepsLeft(o) ==
    CASE o.phase = "wait" -> PartsLeft(o) + (IF o.try = 1 THEN 3 ELSE 0)
      [] o.phase = "connect" -> IF o.try = 1 THEN 8 ELSE 3
      [] o.phase = "begin" -> 7
      [] o.phase = "encode" -> 6
      [] OTHER -> 0

\* One of its continuations runs: there is one fewer to come.  No other step
\* touches a call that has not settled.
GoesForward(c) ==
    op'[c] # op[c] =>
        op[c].phase \in Settled \/ StepsLeft(op'[c]) < StepsLeft(op[c])

\* What is left by phase.
LEMMA StepsOfPhase ==
    ASSUME NEW o
    PROVE  /\ o.phase = "wait" => StepsLeft(o) = PartsLeft(o) + (IF o.try = 1 THEN 3 ELSE 0)
           /\ o.phase = "connect" => StepsLeft(o) = (IF o.try = 1 THEN 8 ELSE 3)
           /\ o.phase = "begin" => StepsLeft(o) = 7
           /\ o.phase = "encode" => StepsLeft(o) = 6
           /\ o.phase \in Settled => StepsLeft(o) = 0
  BY DEF StepsLeft, Settled

\* A call has one or two parts left, and one that waits at least one.
LEMMA SomePartLeft ==
    ASSUME NEW o
    PROVE  /\ PartsLeft(o) \in 0..2
           /\ o.got \in (SUBSET AllParts(o.opt)) \ {AllParts(o.opt)} => PartsLeft(o) \in 1..2
  <1>1. PartsLeft(o) \in 0..2
    BY DEF PartsLeft
  <1>2. ASSUME o.got \in (SUBSET AllParts(o.opt)) \ {AllParts(o.opt)}
        PROVE  PartsLeft(o) # 0
    <2>1. PICK part \in AllParts(o.opt) : part \notin o.got
      BY <1>2
    <2>2. part \in {"content", "sig"}
      BY <2>1 DEF AllParts, Parts
    <2>3. QED
      BY <2>1, <2>2 DEF PartsLeft
  <1>3. QED
    BY <1>1, <1>2

\* What a call has left before a continuation.
LEMMA LeftBefore ==
    ASSUME Faithful, NEW c \in Calls, InHand(c)
    PROVE  /\ StepsLeft(op[c]) \in 0..8
           /\ op[c].phase \in {"connect", "begin", "encode", "wait"} => StepsLeft(op[c]) > 0
           /\ op[c].phase = "wait" /\ op[c].try = 1 => StepsLeft(op[c]) > 3
  <1>1. op[c].phase \in Phases
    BY HubTypes DEF Faithful, Operation
  <1>2. op[c].phase = "wait" => PartsLeft(op[c]) \in 1..2
    BY SomePartLeft DEF InHand
  <1>3. QED
    BY <1>1, <1>2, StepsOfPhase DEF Phases, Settled

\* Settling, a call has nothing left, and before the connection of a second
\* attempt three continuations.
LEMMA SettlingForward ==
    ASSUME Faithful, NEW c \in Calls, InHand(c), op[c].phase \notin Settled
    PROVE  /\ \A code : \A o \in {"resolved", "rejected"} :
                 Settle(c, o, code) => StepsLeft(op'[c]) < StepsLeft(op[c])
           /\ \A e \in net : Reconnect(c, e) /\ op[c].phase = "wait" /\ op[c].try = 1 =>
                 StepsLeft(op'[c]) < StepsLeft(op[c])
  <1>1. /\ op \in [Calls -> Operation] /\ op[c] \in Operation
        /\ op[c].phase \in {"connect", "begin", "encode", "wait"}
    BY HubTypes DEF Faithful, Operation, Phases
  <1>2. ASSUME NEW o \in {"resolved", "rejected"}, NEW code, Settle(c, o, code)
        PROVE  StepsLeft(op'[c]) < StepsLeft(op[c])
    <2>1. op'[c].phase \in Settled
      BY <1>2, SettledFields DEF Faithful, Settled
    <2>2. StepsLeft(op'[c]) = 0 /\ StepsLeft(op[c]) \in 0..8 /\ StepsLeft(op[c]) > 0
      BY <1>1, <2>1, StepsOfPhase, LeftBefore
    <2>3. QED
      BY <2>2
  <1>3. ASSUME NEW e \in net, Reconnect(c, e), op[c].phase = "wait", op[c].try = 1
        PROVE  StepsLeft(op'[c]) < StepsLeft(op[c])
    <2>1. CASE SignedIn(c)
      <3>1. op'[c].phase = "connect" /\ op'[c].try = 2
        BY <1>1, <1>3, <2>1 DEF Reconnect, Operation
      <3>2. StepsLeft(op'[c]) = 3 /\ StepsLeft(op[c]) \in 0..8 /\ StepsLeft(op[c]) > 3
        BY <1>3, <3>1, StepsOfPhase, LeftBefore
      <3>3. QED
        BY <3>2
    <2>2. CASE ~SignedIn(c)
      BY <1>2, <1>3, <2>2 DEF Reconnect, Reject
    <2>3. QED
      BY <2>1, <2>2
  <1>4. QED
    BY <1>2, <1>3

\* The continuations before the first request, and after a connection.
LEMMA BeginForward ==
    ASSUME Faithful, NEW c \in Calls, InHand(c),
           PutOversized(c) \/ PutBegin(c) \/ PutEncode(c) \/ GetBegin(c) \/ DeleteBegin(c)
    PROVE  op[c].phase \notin Settled /\ StepsLeft(op'[c]) < StepsLeft(op[c])
  <1>1. /\ op \in [Calls -> Operation] /\ op[c] \in Operation
        /\ op[c].phase \in {"begin", "encode"} /\ op[c].phase \notin Settled
        /\ StepsLeft(op[c]) = (IF op[c].phase = "begin" THEN 7 ELSE 6)
    BY HubTypes, StepsOfPhase
    DEF Faithful, Settled, PutOversized, PutBegin, PutEncode, GetBegin, DeleteBegin
  <1>2. CASE \E code : Reject(c, code)
    BY <1>1, <1>2, SettlingForward DEF Reject
  <1>3. CASE op'[c].phase = "wait"
    BY <1>1, <1>3, SomePartLeft, StepsOfPhase
  <1>4. CASE op[c].phase = "begin" /\ op'[c].phase = "encode"
    BY <1>1, <1>4, StepsOfPhase
  <1>5. CASE PutOversized(c)
    BY <1>2, <1>5 DEF PutOversized
  <1>6. CASE PutBegin(c)
    BY <1>1, <1>2, <1>3, <1>4, <1>6 DEF PutBegin, Operation
  <1>7. CASE PutEncode(c)
    BY <1>1, <1>2, <1>3, <1>7 DEF PutEncode, Operation
  <1>8. CASE GetBegin(c) \/ DeleteBegin(c)
    BY <1>1, <1>3, <1>8 DEF GetBegin, DeleteBegin, Operation
  <1>9. QED
    BY <1>5, <1>6, <1>7, <1>8

\* The connection of a first attempt leaves seven, of a second one two.
LEMMA ConnectedForward ==
    ASSUME Faithful, NEW c \in Calls, InHand(c), NEW e \in net, Connected(c, e)
    PROVE  op[c].phase \notin Settled /\ StepsLeft(op'[c]) < StepsLeft(op[c])
  <1>1. /\ op \in [Calls -> Operation] /\ op[c] \in Operation
        /\ op[c].phase = "connect" /\ op[c].phase \notin Settled
        /\ StepsLeft(op[c]) = (IF op[c].try = 1 THEN 8 ELSE 3) /\ e.try = op[c].try
    BY HubTypes, StepsOfPhase DEF Faithful, Settled, Connected, Awaited
  <1>2. CASE ConnectFails(c, e) \/ ConnectAfterSignOut(c, e)
    BY <1>1, <1>2, SettlingForward DEF ConnectFails, ConnectAfterSignOut, Reject
  <1>3. CASE Connect(c, e) /\ e.try = 1
    <2>1. op'[c].phase = "begin"
      BY <1>1, <1>3 DEF Connect, Operation
    <2>2. QED
      BY <1>1, <1>3, <2>1, StepsOfPhase
  <1>4. CASE Connect(c, e) /\ e.try # 1
    <2>1. op'[c].phase = "wait" /\ op'[c].try = op[c].try
      BY <1>1, <1>4 DEF Connect, Operation
    <2>2. StepsLeft(op'[c]) = PartsLeft(op'[c]) /\ PartsLeft(op'[c]) \in 0..2
      BY <1>1, <1>4, <2>1, SomePartLeft, StepsOfPhase
    <2>3. QED
      BY <1>1, <1>4, <2>2
  <1>5. QED
    BY <1>2, <1>3, <1>4 DEF Connected

\* An answer that completes a part which was missing leaves one part fewer.
LEMMA PartForward ==
    ASSUME Faithful, NEW c \in Calls, op[c].phase = "wait", op'[c].phase = "wait",
           op'[c].opt = op[c].opt, op'[c].try = op[c].try,
           NEW part \in AllParts(op[c].opt) \ op[c].got,
           op'[c].got = op[c].got \cup {part}
    PROVE  StepsLeft(op'[c]) < StepsLeft(op[c])
  <1>1. part \in {"content", "sig"}
    BY DEF AllParts, Parts
  <1>2. PartsLeft(op'[c]) = PartsLeft(op[c]) - 1
    <2>1. CASE part = "content"
      BY <2>1 DEF PartsLeft
    <2>2. CASE part = "sig"
      BY <2>2 DEF PartsLeft
    <2>3. QED
      BY <1>1, <2>1, <2>2
  <1>3. PartsLeft(op[c]) \in 0..2
    BY SomePartLeft
  <1>4. QED
    BY <1>2, <1>3, StepsOfPhase

\* A put reads the answer about a part it has not read before.
LEMMA PutAnsweredForward ==
    ASSUME Faithful, NEW c \in Calls, InHand(c), NEW e \in net, PutAnswered(c, e)
    PROVE  op[c].phase \notin Settled /\ StepsLeft(op'[c]) < StepsLeft(op[c])
  <1>1. /\ op \in [Calls -> Operation] /\ op[c] \in Operation /\ Awaited(c, e)
        /\ op[c].phase = "wait" /\ op[c].phase \notin Settled /\ op[c].opt.kind = "put"
    BY HubTypes DEF Faithful, Settled, PutAnswered
  <1>2. CASE PutPartDone(c, e)
    <2>1. e.verb = "post" /\ e.file.part \in AllParts(op[c].opt)
      BY <1>1, AwaitedVerb DEF IsAt, Kind, Faithful, CallInv, Sent, About, Awaited
    <2>2. UnderWay(c, "post", e.file.part)
      BY <1>1, <2>1 DEF UnderWay
    <2>3. e.file.part \notin op[c].got
      BY <1>1, <2>1, <2>2 DEF InHand
    <2>4. /\ op'[c].phase = "wait" /\ op'[c].opt = op[c].opt /\ op'[c].try = op[c].try
          /\ op'[c].got = op[c].got \cup {e.file.part}
      BY <1>1, <1>2 DEF PutPartDone, Operation
    <2>5. QED
      BY <1>1, <2>1, <2>3, <2>4, PartForward
  <1>3. CASE PutResolves(c, e)
    BY <1>1, <1>3, SettlingForward DEF PutResolves
  <1>4. CASE PutFails(c, e)
    BY <1>1, <1>4, SettlingForward DEF PutFails, Reject
  <1>5. QED
    BY <1>1, <1>2, <1>3, <1>4 DEF PutAnswered

\* deleteFile asks for the signature once the content is gone: the answer about
\* the content is the first.
LEMMA DeleteAnsweredForward ==
    ASSUME Faithful, NEW c \in Calls, InHand(c), NEW e \in net, DeleteAnswered(c, e)
    PROVE  op[c].phase \notin Settled /\ StepsLeft(op'[c]) < StepsLeft(op[c])
  <1>1. /\ op \in [Calls -> Operation] /\ op[c] \in Operation /\ Awaited(c, e)
        /\ op[c].phase = "wait" /\ op[c].phase \notin Settled /\ op[c].opt.kind = "delete"
    BY HubTypes DEF Faithful, Settled, DeleteAnswered
  <1>2. CASE DeletePartDone(c, e)
    <2>1. e.verb = "delete" /\ Single(c)
      BY <1>1, AwaitedVerb DEF IsAt, Kind, Faithful, CallInv
    <2>2. "content" \notin op[c].got
      <3>1. ASSUME "content" \in op[c].got PROVE FALSE
        <4>1. PICK d \in net : Awaited(c, d) /\ d.verb = "delete" /\ d.file.part = "sig"
          BY <1>1, <3>1 DEF InHand, UnderWay
        <4>2. d = e
          BY <1>1, <2>1, <4>1 DEF Single, Awaited
        <4>3. QED
          BY <1>2, <4>1, <4>2 DEF DeletePartDone
      <3>2. QED
        BY <3>1
    <2>3. op[c].got \subseteq Parts /\ AllParts(op[c].opt) = Parts
      BY <1>1, <1>2 DEF DeletePartDone, Operation, AllParts
    <2>4. op[c].got = {}
      <3>1. "sig" \notin op[c].got
        BY <1>1 DEF InHand
      <3>2. QED
        BY <2>2, <2>3, <3>1 DEF Parts
    <2>5. /\ op'[c].phase = "wait" /\ op'[c].opt = op[c].opt /\ op'[c].try = op[c].try
          /\ op'[c].got = op[c].got \cup {"content"}
      BY <1>1, <1>2, <2>4 DEF DeletePartDone, Operation
    <2>6. QED
      BY <1>1, <2>2, <2>3, <2>5, PartForward DEF Parts
  <1>3. CASE DeleteResolves(c, e)
    BY <1>1, <1>3, SettlingForward DEF DeleteResolves
  <1>4. CASE DeleteFails(c, e)
    <2>1. CASE op[c].try = 1
      BY <1>1, <1>4, <2>1, SettlingForward DEF DeleteFails
    <2>2. CASE op[c].try # 1
      BY <1>1, <1>4, <2>2, SettlingForward DEF DeleteFails, Reject
    <2>3. QED
      BY <2>1, <2>2
  <1>5. QED
    BY <1>1, <1>2, <1>3, <1>4 DEF DeleteAnswered

\* A continuation brings its call forward.
LEMMA ContinueForward ==
    ASSUME Faithful, NEW c \in Calls, InHand(c), Continue(c)
    PROVE  op[c].phase \notin Settled /\ StepsLeft(op'[c]) < StepsLeft(op[c])
  <1>1. ASSUME NEW e \in net, GetAnswered(c, e)
        PROVE  op[c].phase \notin Settled /\ StepsLeft(op'[c]) < StepsLeft(op[c])
    <2>1. op[c].phase \notin Settled
      BY <1>1 DEF GetAnswered, Settled
    <2>2. QED
      BY <1>1, <2>1, SettlingForward DEF GetAnswered, Reject
  <1>2. QED
    BY <1>1, BeginForward, ConnectedForward, PutAnsweredForward, DeleteAnsweredForward
    DEF Continue

\* Whatever a step does, it brings the calls it changes forward.
LEMMA NextForward ==
    ASSUME Faithful, NobodyWaitsInVain, [Next]_vars, NEW c \in Calls
    PROVE  GoesForward(c)
  <1>1. Inv /\ InHand(c)
    BY DEF Faithful, NobodyWaitsInVain
  <1>2. ASSUME NEW d \in Calls, Continue(d) PROVE GoesForward(c)
    <2>1. CASE d = c
      BY <1>1, <1>2, <2>1, ContinueForward DEF GoesForward
    <2>2. CASE d # c
      BY <1>1, <1>2, <2>2, ContinueFrame DEF GoesForward
    <2>3. QED
      BY <2>1, <2>2
  <1>3. ASSUME NEW d \in Calls, Invoke(d) PROVE GoesForward(c)
    <2>1. CASE d = c
      BY <1>3, <2>1
      DEF GoesForward, Invoke, PutFile, GetFile, GetForeignFile, DeleteFile, Start, Idle
    <2>2. CASE d # c
      BY <1>3, <2>2, InvokeInHand DEF GoesForward
    <2>3. QED
      BY <2>1, <2>2
  <1>4. CASE \/ \E e \in net : Hub(e) \/ DropAnswer(e)
             \/ \E u \in Users : Expire(u)
             \/ \E s \in Sessions : SignOut(s) \/ \E u \in Accounts[s] : SignIn(s, u)
             \/ UNCHANGED vars
    BY <1>4 DEF GoesForward, Hub, DropAnswer, Expire, SignOut, SignIn, vars
  <1>5. QED
    BY <1>2, <1>3, <1>4 DEF Next

\* Every call settles within eight of its continuations, whatever fails, whoever
\* signs out and whatever other calls do: it has never more than eight before it,
\* each of them leaves fewer, and nothing else changes what it does.  With
\* NobodyWaitsInVain and the fairness of FairSpec, this is why CallsSettle holds.
THEOREM SettledInEight ==
    Spec => /\ [](\A c \in Calls : StepsLeft(op[c]) \in 0..8)
            /\ [][\A c \in Calls : GoesForward(c)]_vars
  <1>1. Faithful /\ NobodyWaitsInVain => \A c \in Calls : StepsLeft(op[c]) \in 0..8
    BY LeftBefore DEF NobodyWaitsInVain
  <1>2. Faithful /\ NobodyWaitsInVain /\ [Next]_vars => \A c \in Calls : GoesForward(c)
    BY NextForward
  <1>3. QED
    BY <1>1, <1>2, EveryWaitIsServed, AnswersAreTrue, PTL DEF Spec
=============================================================================
