------------------------------- MODULE Access -------------------------------
(***************************************************************************)
(* The access level of a user on a path of the exom tree                   *)
(* (src/auth/access.rs, src/auth/mod.rs).  A path is a sequence of         *)
(* segments; the first one is the namespace: public, or a user's email.    *)
(***************************************************************************)
EXTENDS Naturals, SequencesExt

CONSTANT Public     \* the segment "public"

-----------------------------------------------------------------------------
(* Levels are ordered: AccessLevel *)

Denied == 0
ReadOnly == 1
ReadWrite == 2
FullAccess == 3

CanRead(level) == level >= ReadOnly
CanWrite(level) == level >= ReadWrite
IsOwner(level) == level = FullAccess

-----------------------------------------------------------------------------
(* PublicOwner: what lookup_owner found in the cache for a path *)

Unknown == [status |-> "unknown"]
Ownerless == [status |-> "ownerless"]
OwnedBy(email, mode) == [status |-> "owner", email |-> email, mode |-> mode]

\* Evaluated only for a path in public.
PublicLevel(user, owner) ==
    CASE owner.status = "unknown" -> FullAccess
      [] owner.status = "ownerless" -> ReadOnly
      [] owner.status = "owner" ->
           IF owner.email = user THEN FullAccess
           ELSE IF owner.mode = "co-edit" THEN ReadWrite ELSE ReadOnly

-----------------------------------------------------------------------------
(* Shares: a sequence of [path, permission] granted to the user *)

PermissionLevel(permission) ==
    CASE permission = "read-write" -> ReadWrite
      [] permission = "read" -> ReadOnly
      [] OTHER -> Denied

Matching(path, grants) == {i \in DOMAIN grants : IsPrefix(grants[i].path, path)}

\* The deepest grant decides, the first of them if there are several.
ResolveFromGrants(path, grants) ==
    LET matching == Matching(path, grants)
        Beats(i, j) == \/ Len(grants[i].path) > Len(grants[j].path)
                       \/ Len(grants[i].path) = Len(grants[j].path) /\ i <= j
    IN  IF matching = {} THEN Denied
        ELSE PermissionLevel(grants[CHOOSE i \in matching : \A j \in matching : Beats(i, j)].permission)

ResolveAccess(user, path, grants, owner) ==
    IF path[1] = Public THEN PublicLevel(user, owner)
    ELSE IF path[1] = user THEN FullAccess
    ELSE ResolveFromGrants(path, grants)

=============================================================================
