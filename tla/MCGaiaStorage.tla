--------------------------- MODULE MCGaiaStorage ---------------------------
(* Instances of GaiaStorage for TLC. *)
EXTENDS GaiaPromise, TLC

CONSTANTS alice, bob, c1, c2, c3, phone, laptop, p, q

Make(kinds, paths, modes, ignores, ofs) ==
    [kind: kinds, path: paths, mode: modes, ignore: ignores, of: ofs]

Puts(paths, modes, ignores) == Make({"put"}, paths, modes, ignores, {Nobody})
Gets(paths, ofs) == Make({"get"}, paths, {"plain"}, {FALSE}, ofs)
Deletes(paths, modes) == Make({"delete"}, paths, modes, {FALSE}, {Nobody})

(* Two devices of one user, one call each. *)
TwoSessions == (c1 :> phone) @@ (c2 :> laptop)
OneAccount == [s \in Sessions |-> {alice}]
DeviceOps == Puts({p}, {"plain"}, BOOLEAN) \cup Gets({p}, {Nobody})
             \cup Deletes({p}, {"plain"})

(* Two pages of one browser, two users who share it. *)
OneSession == (c1 :> phone) @@ (c2 :> phone)
BothAccounts == [s \in Sessions |-> {alice, bob}]
PageOps == Puts({p}, {"sealed"}, {FALSE}) \cup Gets({p}, {bob})
           \cup Deletes({p}, {"plain"})

UploadOps == Puts({p}, {"plain", "signed"}, {FALSE}) \cup Puts({p}, {"plain"}, {TRUE})
AnyOps == Puts({p}, {"signed"}, {FALSE}) \cup Gets({p}, {Nobody}) \cup Deletes({p}, {"signed"})

CallSymmetry == Permutations(Calls)
=============================================================================
