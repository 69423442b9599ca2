----------------------------- MODULE StoreHints -----------------------------
(***************************************************************************)
(* hint.rs: the two memos a store's launcher CREATE_COIN carries, and how  *)
(* a reader classifies the second.  A sha256 is its preimage, tagged.      *)
(***************************************************************************)

(* StoreKind                                                               *)
StoreKinds == {"file", "did_profile"}

DIGSTORE_OWNER_HINT_DOMAIN == "dig:datastore:owner:v1"
DATASTORE_LAUNCHER_HINT    == <<"sha256", "datastore">>
DID_PROFILE_LAUNCHER_HINT  == <<"sha256", "dig:datastore:profile:v1">>

LauncherHintFor(kind) ==
    IF kind = "file" THEN DATASTORE_LAUNCHER_HINT ELSE DID_PROFILE_LAUNCHER_HINT

(* Option<StoreKind>                                                       *)
SomeKind(kind) == <<"some", kind>>
NoKind == <<"none">>

(* Mutant: whatever is not a profile is a file store.                      *)
FromLauncherHintOrFile(memo) ==
    SomeKind(IF memo = DID_PROFILE_LAUNCHER_HINT THEN "did_profile" ELSE "file")

(* from_launcher_hint: a legacy memo is a file store, an unknown one none. *)
FromLauncherHint(memo) ==
    CASE memo = DATASTORE_LAUNCHER_HINT   -> SomeKind("file")
      [] memo = DID_PROFILE_LAUNCHER_HINT -> SomeKind("did_profile")
      [] OTHER                            -> NoKind

(* Mutant: the hint is the bare puzzle hash, as for ordinary coins.        *)
RawOwnerHint(owner) == owner

(* digstore_owner_hint: scoped to stores by its domain tag.                *)
DigstoreOwnerHint(owner) == <<"sha256", DIGSTORE_OWNER_HINT_DOMAIN, owner>>

(* The launcher's memos: who owns the store, and what kind it is.          *)
OwnerDiscoveryMemos(owner, kind) == <<DigstoreOwnerHint(owner), LauncherHintFor(kind)>>
=============================================================================
