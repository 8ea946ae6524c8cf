---------------------------- MODULE GaiaPromise ----------------------------
(***************************************************************************)
(* The Gaia client keeps the promise of ConditionalFiles.  A call is open  *)
(* from its invocation until its promise settles, whatever it waits for;   *)
(* the parts it acted on are in the history of its effects at the hub.     *)
(***************************************************************************)
EXTENDS GaiaStorage

RequestOf(o) ==
    [verb |-> o.kind, path |-> o.path,
     parts |-> IF o.kind # "get" /\ o.mode = "signed" THEN Parts ELSE {"content"},
     force |-> o.ignore]

StateOf(phase) == IF phase \in Settled THEN phase ELSE "open"

Promise == INSTANCE ConditionalFiles WITH
    Clients  <- Sessions,
    ClientOf <- SessionOf,
    current  <- files,
    issued   <- clock,
    known    <- seen,
    request  <- [c \in Calls |-> RequestOf(op[c].opt)],
    state    <- [c \in Calls |-> StateOf(op[c].phase)],
    did      <- [c \in Calls |-> {x.file.part : x \in effects[c]}]

(* Every step of the client, the hub, the network and the session is a step  *)
(* of ConditionalFiles or changes nothing there: through reconnections,      *)
(* retries, lost answers, expired tokens and sign-outs, a call acts on files *)
(* only as it was asked to, replaces only what its client knows, and what it *)
(* resolves with is what happened.                                           *)
KeepsPromise == Promise!Spec
=============================================================================
