------------------------------ MODULE GaiaHub ------------------------------
(***************************************************************************)
(* The Gaia hub and the network, as packages/storage/src/hub.ts uses them: *)
(* versioned files guarded by If-Match / If-None-Match, bearer tokens that *)
(* the hub can stop accepting, and HTTP exchanges that can fail.  The hub  *)
(* is not part of the repository; its behaviour is modelled from the       *)
(* requests hub.ts sends and the status codes it distinguishes.            *)
(***************************************************************************)
EXTENDS Integers, FiniteSets

CONSTANTS
    Users,        \* accounts; each owns one bucket, named by its address
    Nobody,       \* the absence of an account
    Paths,        \* file names the application uses
    Calls,        \* storage operations that can be in progress at once
    MaxFaults,    \* bound: injected failures
    MaxExpiries   \* bound: times the hub stops accepting older tokens

ASSUME HubAssumption ==
    /\ Nobody \notin Users
    /\ Paths # {}
    /\ MaxFaults \in Nat
    /\ MaxExpiries \in Nat

VARIABLES
    files,    \* current version (etag) of every file; 0 when there is none
    clock,    \* the last version the hub has issued
    epoch,    \* the age a token of each user must have to be accepted
    net,      \* HTTP exchanges in progress: requests and unread answers
    effects,  \* history: what the current operation of a call did at the hub
    mishaps   \* counters behind the two bounds

hubVars == <<files, clock, epoch, net, effects, mishaps>>

Parts == {"content", "sig"}     \* <path> and <path>.sig
File == [user: Users, path: Paths, part: Parts]
Verbs == {"info", "get", "post", "delete"}

Pending == 0                    \* no answer yet
Lost == 1                       \* fetch() rejected: no HTTP answer
Statuses == {Pending, Lost, 200, 401, 404, 409, 412, 500}

Exchange ==
    [call: Calls, try: 1..2, verb: Verbs, file: File, token: Nat,
     fresh: BOOLEAN,            \* If-None-Match: *
     match: Nat,                \* If-Match: <etag>; 0 when not sent
     status: Statuses,
     value: Nat]                \* etag of a file, or age of a new token

Effect == [verb: {"post", "delete"}, file: File, version: Nat]

Answered(e) == e.status # Pending

HubTypeOK ==
    /\ files \in [File -> Nat]
    /\ clock \in Nat
    /\ epoch \in [Users -> Nat]
    /\ net \in SUBSET Exchange
    /\ effects \in [Calls -> SUBSET Effect]
    /\ mishaps \in [faults: Nat, expiries: Nat]

HubInit ==
    /\ files = [f \in File |-> 0]
    /\ clock = 0
    /\ epoch = [u \in Users |-> 1]
    /\ net = {}
    /\ effects = [c \in Calls |-> {}]
    /\ mishaps = [faults |-> 0, expiries |-> 0]

----------------------------------------------------------------------------
(* Requests, as the functions of hub.ts build them. *)

\* connectToGaiaHub: GET <hub>/hub_info
InfoRequest(c, k, u, p) ==
    [call |-> c, try |-> k, verb |-> "info",
     file |-> [user |-> u, path |-> p, part |-> "content"],
     token |-> 0, fresh |-> FALSE, match |-> 0, status |-> Pending, value |-> 0]

\* (seeded fault: an upload that is tried again has lost its preconditions)
PostRetriedBare(c, k, cfg, p, part, newFile, etag, ignore) ==
    [call |-> c, try |-> k, verb |-> "post",
     file |-> [user |-> cfg.user, path |-> p, part |-> part],
     token |-> cfg.epoch,
     fresh |-> k = 1 /\ ~ignore /\ newFile,
     match |-> IF k = 2 \/ ignore \/ newFile THEN 0 ELSE etag,
     status |-> Pending, value |-> 0]

\* uploadToGaiaHub: newFile asks for If-None-Match, otherwise the etag for
\* If-Match; neither is sent when the caller ignores etags.
PostRequest(c, k, cfg, p, part, newFile, etag, ignore) ==
    [call |-> c, try |-> k, verb |-> "post",
     file |-> [user |-> cfg.user, path |-> p, part |-> part],
     token |-> cfg.epoch,
     fresh |-> ~ignore /\ newFile,
     match |-> IF ignore \/ newFile THEN 0 ELSE etag,
     status |-> Pending, value |-> 0]

\* deleteFromGaiaHub: no precondition is ever sent
DeleteRequest(c, k, cfg, p, part) ==
    [call |-> c, try |-> k, verb |-> "delete",
     file |-> [user |-> cfg.user, path |-> p, part |-> part],
     token |-> cfg.epoch, fresh |-> FALSE, match |-> 0,
     status |-> Pending, value |-> 0]

\* the fetch of getFileContents: unauthenticated, from anyone's bucket
GetRequest(c, u, p) ==
    [call |-> c, try |-> 1, verb |-> "get",
     file |-> [user |-> u, path |-> p, part |-> "content"],
     token |-> 0, fresh |-> FALSE, match |-> 0, status |-> Pending, value |-> 0]

----------------------------------------------------------------------------
(* What the hub does with a request. *)

Reply(e, code, v) == net' = (net \ {e}) \cup {[e EXCEPT !.status = code, !.value = v]}

Authorized(e) == e.token = epoch[e.file.user]

Satisfied(e) ==     \* the preconditions of a POST
    /\ e.fresh => files[e.file] = 0
    /\ e.match # 0 => files[e.file] = e.match

HubInfo(e) ==
    /\ e.verb = "info"
    /\ Reply(e, 200, epoch[e.file.user])
    /\ UNCHANGED <<files, clock, epoch, effects, mishaps>>

HubGet(e) ==
    /\ e.verb = "get"
    /\ IF files[e.file] = 0 THEN Reply(e, 404, 0) ELSE Reply(e, 200, files[e.file])
    /\ UNCHANGED <<files, clock, epoch, effects, mishaps>>

Perform(e, v) ==    \* an accepted POST or DELETE leaves version v behind
    /\ files' = [files EXCEPT ![e.file] = v]
    /\ effects' = [effects EXCEPT ![e.call] = @ \cup
                    {[verb |-> e.verb, file |-> e.file,
                      version |-> IF v = 0 THEN files[e.file] ELSE v]}]
    /\ Reply(e, 200, v)

HubPost(e) ==
    /\ e.verb = "post" /\ Authorized(e) /\ Satisfied(e)
    /\ clock' = clock + 1
    /\ Perform(e, clock + 1)
    /\ UNCHANGED <<epoch, mishaps>>

HubDelete(e) ==
    /\ e.verb = "delete" /\ Authorized(e) /\ files[e.file] # 0
    /\ Perform(e, 0)
    /\ UNCHANGED <<clock, epoch, mishaps>>

Refusal(e) ==       \* the status of a POST or DELETE that is not performed
    IF ~Authorized(e) THEN 401 ELSE IF e.verb = "post" THEN 412 ELSE 404

HubRefuse(e) ==
    /\ \/ e.verb = "post" /\ ~(Authorized(e) /\ Satisfied(e))
       \/ e.verb = "delete" /\ ~(Authorized(e) /\ files[e.file] # 0)
    /\ Reply(e, Refusal(e), 0)
    /\ UNCHANGED <<files, clock, epoch, effects, mishaps>>

HubServe(e) ==
    /\ ~Answered(e)
    /\ HubInfo(e) \/ HubGet(e) \/ HubPost(e) \/ HubDelete(e) \/ HubRefuse(e)

----------------------------------------------------------------------------
(* Failures: a 5xx answer, a 409 for a write that meets another one, a     *)
(* request that never arrives, and an answer that never comes back.        *)

Fault(e) ==
    /\ mishaps.faults < MaxFaults
    /\ mishaps' = [mishaps EXCEPT !.faults = @ + 1]
    /\ UNCHANGED <<files, clock, epoch, effects>>

HubFails(e) == ~Answered(e) /\ Reply(e, 500, 0) /\ Fault(e)

HubConflict(e) == ~Answered(e) /\ e.verb = "post" /\ Reply(e, 409, 0) /\ Fault(e)

LoseRequest(e) == ~Answered(e) /\ Reply(e, Lost, 0) /\ Fault(e)

LoseAnswer(e) == e.status = 200 /\ Reply(e, Lost, 0) /\ Fault(e)

\* The hub stops accepting the tokens it has handed out to u so far.
ExpireTokens(u) ==
    /\ mishaps.expiries < MaxExpiries
    /\ mishaps' = [mishaps EXCEPT !.expiries = @ + 1]
    /\ epoch' = [epoch EXCEPT ![u] = @ + 1]
    /\ UNCHANGED <<files, clock, net, effects>>
=============================================================================
