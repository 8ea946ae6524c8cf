-------------------------- MODULE ConditionalFiles --------------------------
(***************************************************************************)
(* What the Gaia client promises the applications that share a bucket, as  *)
(* if there were no sessions, tokens, requests or retries: files with      *)
(* versions, clients that know some of them, and calls that act on a file  *)
(* in one step and say so truly when they resolve.                         *)
(***************************************************************************)
EXTENDS Integers

CONSTANTS
    Users, Paths, Parts,    \* a file: its owner, its name, content or signature
    Clients,                \* those who remember versions
    Calls, ClientOf         \* what they ask for, and who asks

VARIABLES
    current,    \* the version of every file; 0 when there is none
    issued,     \* the last version there was
    known,      \* the versions each client has been told
    request,    \* what each call was asked for
    state,      \* how it stands
    did         \* the parts it has stored or removed

promise == <<current, issued, known, request, state, did>>

File == [user: Users, path: Paths, part: Parts]
Verbs == {"put", "get", "delete"}
Request == [verb: Verbs, path: Paths, parts: SUBSET Parts, force: BOOLEAN]

Init ==
    /\ current = [f \in File |-> 0]
    /\ issued = 0
    /\ known = [k \in Clients |-> {}]
    /\ request \in [Calls -> Request]
    /\ state = [c \in Calls |-> "idle"]
    /\ did = [c \in Calls |-> {}]

\* A call may be refused at once, by a client that is not signed in.
Ask(c) ==
    /\ state[c] # "open"
    /\ \E r \in Request : request' = [request EXCEPT ![c] = r]
    /\ \E s \in {"open", "rejected"} : state' = [state EXCEPT ![c] = s]
    /\ did' = [did EXCEPT ![c] = {}]
    /\ UNCHANGED <<current, issued, known>>

About(c, f, verb) ==
    /\ request[c].verb = verb
    /\ request[c].path = f.path /\ f.part \in request[c].parts

\* A version is replaced by who knows it or was told to ignore versions.
MayReplace(c, f) ==
    /\ f.part = "content"
    /\ request[c].force \/ current[f] \in known[ClientOf[c]]

\* A call rejected in the meantime may still store what it was asked to.  Only
\* an upload of two parts stores one of them twice, and the content only if it
\* ignores versions or the file has been removed since.
Store(c, f) ==
    /\ About(c, f, "put")
    /\ current[f] = 0 \/ MayReplace(c, f)
    /\ f.part \in did[c] =>
        /\ request[c].parts = Parts
        /\ f.part # "content" \/ request[c].force \/ current[f] = 0
    /\ issued' = issued + 1
    /\ current' = [current EXCEPT ![f] = issued + 1]
    /\ did' = [did EXCEPT ![c] = @ \cup {f.part}]
    /\ UNCHANGED <<known, request, state>>

\* A deletion asks for no version, and may remove a file twice.
Remove(c, f) ==
    /\ About(c, f, "delete") /\ state[c] # "resolved"
    /\ current[f] # 0
    /\ current' = [current EXCEPT ![f] = 0]
    /\ did' = [did EXCEPT ![c] = @ \cup {f.part}]
    /\ UNCHANGED <<issued, known, request, state>>

Tell(c, v) == known' = [known EXCEPT ![ClientOf[c]] = @ \cup {v}]

\* An upload of two is answered.
Progress(c) ==
    /\ state[c] = "open"
    /\ \E v \in 0..issued : Tell(c, v)
    /\ UNCHANGED <<current, issued, request, state, did>>

\* A put or a delete that resolves has done all it was asked to; a put and a
\* get tell the client the version.
Resolve(c) ==
    /\ state[c] = "open"
    /\ request[c].verb # "get" => did[c] = request[c].parts
    /\ IF request[c].verb = "delete" THEN UNCHANGED known
       ELSE \E v \in 1..issued : Tell(c, v)
    /\ state' = [state EXCEPT ![c] = "resolved"]
    /\ UNCHANGED <<current, issued, request, did>>

Reject(c) ==
    /\ state[c] = "open"
    /\ state' = [state EXCEPT ![c] = "rejected"]
    /\ UNCHANGED <<current, issued, known, request, did>>

Next ==
    \E c \in Calls :
        \/ Ask(c) \/ Progress(c) \/ Resolve(c) \/ Reject(c)
        \/ \E f \in File : Store(c, f) \/ Remove(c, f)

Spec == Init /\ [][Next]_promise
=============================================================================
